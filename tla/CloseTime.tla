----------------------------- MODULE CloseTime -----------------------------
(***************************************************************************)
(* The nodes of one establish phase agreeing on the close time of the      *)
(* ledger they build: in every heartbeat each of them tallies the close    *)
(* times of the positions it holds, moves its own position to the winner,  *)
(* or to no time at all when none wins, and looks whether the winner has   *)
(* three quarters of the votes.  No path accepts a ledger before it does.  *)
(*                                                                         *)
(* A beat of the model is a second of the network.  Every running node     *)
(* ticks once in it, in any order; while it has no close time a node       *)
(* tallies again whenever a message makes it look at convergence; new      *)
(* positions reach the peers one by one, in any order, within the beat.    *)
(* A fault is a beat that ends with positions undelivered, or a node that  *)
(* crashes, leaves the round as an observer, or accepts and falls silent.  *)
(***************************************************************************)
EXTENDS Integers, FiniteSets, FiniteSetsExt

CONSTANTS
    Nodes,      \* trusted proposers of the round, and its observers
    Observers,  \* the nodes that never take a position
    RawTimes,   \* when a node may see its ledger close, in seconds
    Resolution, \* roundCloseResolution, in seconds
    Freshness,  \* beats before a silent proposer's position is pruned
    MaxFaults   \* faults of one behaviour (bound)

ASSUME NodesAssumption == IsFiniteSet(Nodes) /\ Observers \subseteq Nodes

ASSUME TimesAssumption ==
    RawTimes \subseteq Nat \ {0} /\ MaxFaults \in Nat /\ {Resolution, Freshness} \subseteq Nat \ {0}

\* Times are seconds since 2000, the epoch of the network.
Epoch == 0
Zero == -1      \* time.Time{}, before all others: a vote for no close time
None == -2      \* no position; no consensus
SettleBeats == 4

VARIABLES
    mode,       \* "proposing" or "observing"; then "gone" or "left" (crashed or accepted)
    own,        \* close time of OurPosition; CloseTimes.Self for an observer
    seen,       \* seen[n][m]: close time of the position of m that n holds
    level,      \* avalancheState
    chosen,     \* consensusCloseTime once haveConsensus, else None
    ticked,     \* nodes whose heartbeat of this beat has run
    age,        \* beats since the node last sent a position
    faults,     \* faults so far, or that will not happen
    calm        \* history: beats without fault, escalation or stale position

vars == <<mode, own, seen, level, chosen, ticked, age, faults, calm>>

Running == {n \in Nodes : mode[n] \in {"proposing", "observing"}}

-----------------------------------------------------------------------------
(* The tally. *)

RoundCloseTime(t) ==
    IF t = Zero THEN t
    ELSE LET s == t + Resolution \div 2 IN s - (s % Resolution)

ParticipantsNeeded(n, pct) == Max({1, (n * pct + pct \div 2) \div 100})

\* The avalanche cutoffs' percentages, and avCT_CONSENSUS_PCT.
Pct == <<50, 65, 70, 95>>
ConsensusPct == 75

\* The largest of the most-voted times with minCount votes; no votes if none.
MostVotedAscending(votes, minCount) ==
    LET count(t) == Cardinality({m \in DOMAIN votes : votes[m] = t})
        times == {votes[m] : m \in DOMAIN votes}
        top == Max({count(t) : t \in times})
    IN  IF top < minCount THEN [time |-> Zero, votes |-> 0]
        ELSE [time |-> Max({t \in times : count(t) = top}), votes |-> top]

\* Votes where a position that was pruned counts as one for no time.
VotesOfAll(n, peers) ==
    [m \in (Nodes \ Observers) \cup peers |->
        IF m \notin peers \cup {n} THEN Zero
        ELSE RoundCloseTime(IF m = n THEN own[n] ELSE seen[n][m])]

\* The positions n counts, its own among them when it proposes.
Votes(n, peers) ==
    [m \in peers \cup {k \in {n} : mode[k] = "proposing"} |->
        RoundCloseTime(IF m = n THEN own[n] ELSE seen[n][m])]

\* An update that stays where it is when no time wins.
UpdateUnlessTied(n, peers, l) ==
    LET votes == Votes(n, peers)
        needed(pct) == ParticipantsNeeded(Cardinality(DOMAIN votes), pct)
        best == MostVotedAscending(votes, needed(Pct[l + 1]))
    IN  IF peers = {}
        THEN [own |-> own[n], chosen |-> RoundCloseTime(own[n])]
        ELSE [own |-> IF mode[n] = "proposing" /\ best.votes > 0 THEN best.time ELSE own[n],
              chosen |-> IF best.votes >= needed(ConsensusPct)
                         THEN best.time ELSE None]

\* updateCloseTimePosition at level l, counting the positions of peers.
UpdateCloseTimePosition(n, peers, l) ==
    LET votes == Votes(n, peers)
        needed(pct) == ParticipantsNeeded(Cardinality(DOMAIN votes), pct)
        best == MostVotedAscending(votes, needed(Pct[l + 1]))
    IN  IF peers = {}
        THEN [own |-> own[n], chosen |-> RoundCloseTime(own[n])]
        ELSE [own |-> IF mode[n] = "proposing" /\ best.time # RoundCloseTime(own[n])
                      THEN best.time ELSE own[n],
              chosen |-> IF best.votes >= needed(ConsensusPct)
                         THEN best.time ELSE None]

-----------------------------------------------------------------------------
(* The heartbeat and the messages. *)

Positions(n) == {m \in Nodes : seen[n][m] # None}

\* One tally.  neededWeight takes the level up one step once the round's time
\* has passed the next cutoff; a node alone returns before it asks.
Tally(n, peers) ==
    \E up \in {0, 1} :
        LET new == UpdateCloseTimePosition(n, peers, level[n] + up)
        IN  /\ level[n] + up <= 3
            /\ up = 1 => peers # {}
            /\ own' = [own EXCEPT ![n] = new.own]
            /\ chosen' = [chosen EXCEPT ![n] = new.chosen]
            /\ level' = [level EXCEPT ![n] = @ + up]
            /\ calm' = IF up = 1 THEN 0 ELSE calm

\* The heartbeat's phaseEstablish: prune what is stale, tally.
Tick(n) ==
    LET fresh == {m \in Positions(n) : age[m] < Freshness}
    IN  /\ n \in Running \ ticked
        /\ ticked' = ticked \cup {n}
        /\ Tally(n, fresh)
        /\ seen' = [seen EXCEPT ![n] = [m \in Nodes |-> IF m \in fresh THEN @[m] ELSE None]]
        /\ UNCHANGED <<mode, age, faults>>

\* checkConvergence, from the heartbeat or a message, without a close time.
Retry(n) ==
    /\ n \in Running \cap ticked /\ chosen[n] = None
    /\ Tally(n, Positions(n))
    /\ UNCHANGED <<mode, seen, ticked, age, faults>>

\* A close time as it comes off the wire: timeToXrplEpoch sends the zero time as
\* 0 seconds, which xrplEpochToTime reads as the epoch.
Wire(t) == IF t = Zero THEN Epoch ELSE t

\* What the last message of a node says: its position, or that it bowed out.
Sent(m) == IF mode[m] \in {"observing", "left"} THEN None ELSE Wire(own[m])

\* OnProposal at n would take the message: it is not n's own and it is news.
Undelivered(m, n) == n # m /\ m \notin Observers /\ age[m] = 0 /\ seen[n][m] # Sent(m)

Deliver(m, n) ==
    /\ n \in Running /\ Undelivered(m, n)
    /\ seen' = [seen EXCEPT ![n][m] = Sent(m)]
    /\ UNCHANGED <<mode, own, level, chosen, ticked, age, faults, calm>>

\* The second is over; a position undelivered in it is lost, which is a fault.
Beat ==
    LET lost == \E n, m \in Running : Undelivered(m, n)
        unsettled == \E n, m \in Running : level[n] # level[m]
        silent == {m \in Nodes : age[m] < Freshness /\ mode[m] # "proposing"}
    IN  /\ Running \subseteq ticked
        /\ lost => faults < MaxFaults
        /\ faults' = IF lost THEN faults + 1 ELSE faults
        /\ calm' = IF lost \/ unsettled \/ silent # {} THEN 0
                   ELSE Min({calm + 1, SettleBeats})
        /\ ticked' = {}
        /\ age' = [m \in Nodes |-> IF mode[m] = "proposing" THEN 0
                                   ELSE Min({age[m] + 1, Freshness})]
        /\ UNCHANGED <<mode, own, seen, level, chosen>>

\* A node falls silent for the round: it crashes, or accepts its ledger; or
\* it bows out (leaveConsensusLocked) and goes on as an observer.
Leave(n, to) ==
    /\ faults < MaxFaults /\ faults' = faults + 1
    /\ mode' = [mode EXCEPT ![n] = to]
    /\ calm' = 0
    /\ UNCHANGED <<own, seen, level, chosen, ticked, age>>

Stop(n) == n \in Running /\ Leave(n, IF mode[n] = "proposing" THEN "gone" ELSE "left")
LeaveConsensus(n) == mode[n] = "proposing" /\ Leave(n, "observing")

\* The nodes have closed their ledgers and taken positions, which some of
\* them have not received by the end of LedgerMinConsensus.
Init ==
    /\ mode = [n \in Nodes |-> IF n \in Observers THEN "observing" ELSE "proposing"]
    /\ own \in [Nodes -> RawTimes]
    /\ \E late \in SUBSET Nodes :
         seen = [n \in Nodes |-> [m \in Nodes |->
                    IF n \in late \cup {m} \/ m \in Observers THEN None ELSE own[m]]]
    /\ level = [n \in Nodes |-> 0]
    /\ chosen = [n \in Nodes |-> None]
    /\ ticked = {}
    /\ age = [n \in Nodes |-> IF n \in Observers THEN Freshness ELSE 0]
    /\ faults \in 0 .. MaxFaults
    /\ calm = 0

Next ==
    \/ Beat
    \/ \E n \in Nodes : Tick(n) \/ Retry(n) \/ Stop(n) \/ LeaveConsensus(n)
    \/ \E m, n \in Nodes : Deliver(m, n)

Spec == Init /\ [][Next]_vars

-----------------------------------------------------------------------------
(* Properties. *)

\* The times a position can hold, and those a position off the wire can.
CloseTimes == {Zero, Epoch} \cup RawTimes \cup {RoundCloseTime(t) : t \in RawTimes}
WireTimes == CloseTimes \ {Zero}

\* The state is well formed: times are votes a node can cast, levels are
\* those of the avalanche, nobody holds a position of its own or of a node
\* that never takes one, none that came over the wire is the zero time, and
\* a node that proposes is never stale.
TypeOK ==
    /\ mode \in [Nodes -> {"proposing", "observing", "gone", "left"}]
    /\ own \in [Nodes -> CloseTimes]
    /\ seen \in [Nodes -> [Nodes -> WireTimes \cup {None}]]
    /\ level \in [Nodes -> 0 .. 3]
    /\ chosen \in [Nodes -> CloseTimes \cup {None}]
    /\ ticked \subseteq Nodes
    /\ age \in [Nodes -> 0 .. Freshness]
    /\ faults \in 0 .. MaxFaults
    /\ calm \in 0 .. SettleBeats
    /\ \A n \in Nodes : \A m \in Observers \cup {n} : seen[n][m] = None
    /\ \A n \in Nodes : mode[n] = "proposing" => n \notin Observers /\ age[n] = 0

Proposing == {n \in Nodes : mode[n] = "proposing"}

\* A proposer stands at no time where only all votes win: its peers see it at
\* the epoch, it counts itself for no time, and so it stays.
Adrift ==
    \E n \in Proposing :
        /\ own[n] = Zero
        /\ ParticipantsNeeded(Cardinality(Proposing), Pct[level[n] + 1]) =
              Cardinality(Proposing)

\* Close-time consensus gates every accept (checkConvergence), so a round that
\* never reached it would hang: four beats after the last lost position,
\* departure, stale position or escalation, while a node still proposes, every
\* running node has a close time, and all have the same one, unless a proposer
\* is adrift.  updateCloseTimePosition gets there from any mix of positions
\* the faults left, although those that stand at no time are counted there by
\* themselves only.  (Observers left to themselves keep the time they saw.)
SettlesWithin ==
    calm = SettleBeats /\ Proposing # {} /\ ~Adrift =>
        \A n, m \in Running : chosen[n] # None /\ chosen[n] = chosen[m]

\* Every position a running node holds, and its own, is for t.
Unanimous(t) ==
    \A n \in Running :
        /\ mode[n] = "proposing" => RoundCloseTime(own[n]) = t
        /\ \A m \in Positions(n) : RoundCloseTime(seen[n][m]) = t
        /\ \A m \in Nodes : Undelivered(m, n) => Sent(m) = None \/ RoundCloseTime(Sent(m)) = t

\* Once all positions held, in flight and taken are for one time, the epoch
\* that stands for none on the wire included, no tally, escalation, pruning,
\* bow-out or crash moves any of them, and a node that finds consensus finds
\* that time.
UnanimityIsStable ==
    [][\A t \in {Epoch} \cup {RoundCloseTime(r) : r \in RawTimes} :
         Unanimous(t) =>
            /\ Unanimous(t)'
            /\ \A n \in Nodes : chosen'[n] # chosen[n] /\ chosen'[n] # None
                   /\ Positions(n)' # {} => chosen'[n] = t]_vars
=============================================================================
