--------------------------- MODULE ConsensusRound ---------------------------
(***************************************************************************)
(* One node's consensus round: peer positions, disputes and the node's own *)
(* transaction set, as internal/consensus/rcl keeps them under Engine.mu,  *)
(* and the trust callbacks that run beside it without that lock.           *)
(*                                                                         *)
(* The record eng is the state Engine.mu protects.  A handler that the     *)
(* code runs under one critical section is an operator from eng to the SET *)
(* of records it may leave behind, so handlers compose in the order the    *)
(* code calls them: Tick is purge, leaveConsensus, checkLedger and then    *)
(* the phase, all in one step.  OnProposal is split at its trust gate,     *)
(* because the callbacks take only trustMu and may run inside it.          *)
(*                                                                         *)
(* A transaction set is the set of its transactions (its hash names it);   *)
(* signing either succeeds or not.  Left to choice: every clock test       *)
(* (shouldCloseLedger, minimum and maximum consensus times, freshness,     *)
(* the pause), the avalanche threshold of each dispute (Avalanche.tla has  *)
(* it), whether close-time consensus holds, and what checkLedger and the   *)
(* quorum check find the network to prefer.                                *)
(* Position numbers and close times of our own proposals are left out.     *)
(***************************************************************************)
EXTENDS Integers, Sequences, FiniteSets

CONSTANTS
    Peers,        \* the other validators
    Txs,          \* transactions
    Ledgers,      \* ledgers a round may extend
    Messages,     \* proposals peers have signed: [node, prev, pos, set]
    OurSets,      \* sets our open ledger may close with
    Thresholds,   \* required weights of the avalanche states
    TrustChanges, \* trust views the validator lists may move between
    SeqLeave,     \* ProposeSeq of a bow-out, above every position
    RecentPerNode,\* recentProposalsPerNode
    MaxEpoch,     \* bound: how often one peer may lose trust
    SignFails,    \* whether SignProposal may fail
    BuildFails,   \* whether building the accepted ledger may fail
    SwitchFails,  \* whether the service may refuse a synchronous switch
    Nil           \* no set, no position, no message

ASSUME MessagesAssumption ==
    /\ SeqLeave \in Nat /\ RecentPerNode \in Nat \ {0} /\ MaxEpoch \in Nat
    /\ \A m \in Messages : /\ m.node \in Peers /\ m.prev \in Ledgers
                           /\ m.pos \in 0..SeqLeave /\ m.set \in SUBSET Txs
    /\ OurSets \subseteq SUBSET Txs
    /\ TrustChanges \subseteq SUBSET Peers
    /\ Thresholds \subseteq 0..100
    /\ {SignFails, BuildFails, SwitchFails} \subseteq BOOLEAN
    /\ IsFiniteSet(Peers)

\* Nil is none of the values it stands for the absence of.
ASSUME NilAssumption ==
    /\ \A s \in SUBSET Txs : s # Nil
    /\ Nil \notin [set : SUBSET Txs, prev : Ledgers]
    /\ Nil \notin [node : Peers, prev : Ledgers, pos : 0..SeqLeave,
                  set : SUBSET Txs, epoch : Nat]

VARIABLES
    eng,               \* the engine under Engine.mu
    handling,          \* the proposal an OnProposal past its trust gate holds
    trusted,           \* the adaptor's trusted set (its own lock)
    callbackDue,       \* a trust change whose callback has not run yet
    trustedSnapshot,   \* the engine's view of trust, under trustMu
    pendingTrustPurge, \* removals not yet applied, under trustMu
    epoch              \* history: how often each peer has lost trust

trustVars == <<trusted, callbackDue, trustedSnapshot, epoch>>
vars == <<eng, handling, trusted, callbackDue, trustedSnapshot,
          pendingTrustPurge, epoch>>

Empty == [n \in {} |-> Nil]

Keep(f, S) == [n \in DOMAIN f \cap S |-> f[n]]

\* The map g with the entries of f put over it.
Put(f, g) == [n \in DOMAIN f \cup DOMAIN g |-> IF n \in DOMAIN f THEN f[n] ELSE g[n]]

SymmetricDifference(S, T) == (S \ T) \cup (T \ S)

-----------------------------------------------------------------------------
(* Dispute votes: proposals.go. *)

\* A vote count that inserts the new vote without taking the old one out.
SetVotesTwice(d, v) ==
    LET gain(b) == Cardinality({n \in DOMAIN v : v[n] = b})
    IN  [d EXCEPT !.votes = Put(v, @),
                  !.yays = @ + gain(TRUE), !.nays = @ + gain(FALSE)]

\* updateVoteCount for every node of v: insert or change its vote and move
\* the tallies with it.
SetVotes(d, v) ==
    LET was(n, b) == n \in DOMAIN d.votes /\ d.votes[n] = b
        gain(b) == Cardinality({n \in DOMAIN v : v[n] = b /\ ~was(n, b)})
        loss(b) == Cardinality({n \in DOMAIN v : v[n] # b /\ was(n, b)})
    IN  [d EXCEPT !.votes = Put(v, @),
                  !.yays = @ + gain(TRUE) - loss(TRUE),
                  !.nays = @ + gain(FALSE) - loss(FALSE)]

UnVoteOne(d, S) ==
    LET cast(b) == Cardinality({n \in DOMAIN d.votes \cap S : d.votes[n] = b})
    IN  [d EXCEPT !.votes = Keep(@, DOMAIN @ \ S),
                  !.yays = @ - cast(TRUE), !.nays = @ - cast(FALSE)]

\* unVote, for every node of S.
UnVote(disputes, S) == [x \in DOMAIN disputes |-> UnVoteOne(disputes[x], S)]

\* updateDisputes, for every node of S, whose position is the set s.
UpdateDisputes(disputes, S, s) ==
    [x \in DOMAIN disputes |->
        SetVotes(disputes[x], [n \in S |-> x \in s])]

\* createDispute and seedDisputeVotes: the trusted peers whose set is held.
NewDispute(x, ours, proposals, acquired) ==
    LET voters == {n \in DOMAIN proposals \cap trustedSnapshot :
                      proposals[n].set \in acquired}
    IN  SetVotes([our |-> x \in ours, votes |-> Empty, yays |-> 0, nays |-> 0],
                 [n \in voters |-> x \in proposals[n].set])

\* A comparison that misses what only our set has.
CreateDisputesTheirs(e, s) ==
    IF e.ours = Nil \/ s \in e.compares THEN e
    ELSE [e EXCEPT
            !.compares = @ \cup {s},
            !.disputes = Put(@,
                [x \in (s \ e.ours) \ DOMAIN @ |->
                    NewDispute(x, e.ours, e.proposals, e.acquired)])]

\* A dispute for every transaction in only one of the two sets; each set is
\* compared once.
CreateDisputesAgainst(e, s) ==
    IF e.ours = Nil \/ s \in e.compares THEN e
    ELSE [e EXCEPT
            !.compares = @ \cup {s},
            !.disputes = Put(@,
                [x \in SymmetricDifference(s, e.ours) \ DOMAIN @ |->
                    NewDispute(x, e.ours, e.proposals, e.acquired)])]

-----------------------------------------------------------------------------
(* Trust removals and pruning: engine.go, engine_converge.go. *)

\* Positions, buffered and current, of the nodes of S go (purgeNode); the
\* dead markers stay.
PurgeNodes(e, S) ==
    [e EXCEPT !.proposals = Keep(@, Peers \ S),
              !.recent = [n \in Peers |-> IF n \in S THEN <<>> ELSE @[n]],
              !.disputes = UnVote(@, S)]

PurgePendingTrust(e) == PurgeNodes(e, pendingTrustPurge)

PruneUntrustedProposals(e) ==
    PurgeNodes(PurgePendingTrust(e), Peers \ trustedSnapshot)

\* The nodes of S have positions older than the freshness window.
PruneStaleProposals(e, S) ==
    [e EXCEPT !.proposals = Keep(@, Peers \ S), !.disputes = UnVote(@, S)]

-----------------------------------------------------------------------------
(* Starting a round: engine.go, proposal_tracker.go. *)

\* The buffered positions of node n on ledger l, as indices.
Buffered(e, n, l) == {i \in DOMAIN e.recent[n] : e.recent[n][i].prev = l}

BowedOut(e, n, l) ==
    \E i \in Buffered(e, n, l) : e.recent[n][i].pos = SeqLeave

\* store, in arrival order: the first of the highest positions is kept.
LatestBuffered(e, n, l) ==
    e.recent[n][CHOOSE i \in Buffered(e, n, l) :
                    \A j \in Buffered(e, n, l) :
                        \/ e.recent[n][j].pos < e.recent[n][i].pos
                        \/ e.recent[n][j].pos = e.recent[n][i].pos /\ i <= j]

\* replay on an empty set of current positions, unvoteDeadProposalsLocked
\* and the pruning that follows it.
Replay(e0, l) ==
    LET e == PurgeNodes(e0, Peers \ trustedSnapshot)
        dead == e.dead \cup {n \in Peers : BowedOut(e, n, l)}
    IN  [e EXCEPT !.dead = dead,
                  !.disputes = UnVote(@, dead),
                  !.proposals = [n \in {m \in Peers \ dead :
                                            Buffered(e, m, l) # {}} |->
                                    LatestBuffered(e, n, l)]]

\* The orders in which a map of the nodes of S may be ranged over.
Orders(S) == {o \in [S -> 1..Cardinality(S)] :
                \A m, n \in S : m # n => o[m] # o[n]}

\* closeLedger's loop over the positions: each held set is compared with
\* ours, a set only the adaptor has cached is acquired when its turn comes,
\* so a dispute is seeded from the sets acquired up to that turn.
SeedDisputes(e, order) ==
    LET held(n) == e.proposals[n].set \in e.acquired \cup e.cache
        holders == {n \in DOMAIN e.proposals : held(n)}
        by(i) == e.acquired \cup
                    {e.proposals[n].set : n \in {m \in holders : order[m] <= i}}
        differ(x) == {n \in holders :
                        x \in SymmetricDifference(e.proposals[n].set, e.ours)}
        turn(x) == CHOOSE i \in {order[n] : n \in differ(x)} :
                        \A n \in differ(x) : i <= order[n]
    IN  [e EXCEPT
            !.acquired = @ \cup {e.proposals[n].set : n \in holders},
            !.compares = {e.proposals[n].set : n \in holders},
            !.disputes = [x \in {y \in Txs : differ(y) # {}} |->
                            NewDispute(x, e.ours, e.proposals, by(turn(x)))]]

Signs == IF SignFails THEN BOOLEAN ELSE {TRUE}

Position(e, s) == [set |-> s, prev |-> e.prev]

\* closeLedger up to its loop: our set is s, proposed if we are proposing.
TakePosition(e, s, sign) ==
    PruneUntrustedProposals([PurgePendingTrust(e) EXCEPT
        !.ours = s,
        !.cache = @ \cup {s},
        !.acquired = @ \cup {s},
        !.position = IF e.mode = "Proposing" /\ sign THEN Position(e, s) ELSE @,
        !.phase = "Establish"])

CloseLedger(e) ==
    UNION {{SeedDisputes(c, order) : order \in Orders(DOMAIN c.proposals)} :
           c \in {TakePosition(e, s, sign) : s \in OurSets, sign \in Signs}}

PhaseOpen(e) == {e} \cup CloseLedger(e)

\* startRoundLocked: the round state is reset, buffered positions on the
\* parent are replayed, and peer pressure may close the ledger at once.  A
\* recovering round does not propose; neither does one at or below the
\* restart floor, bowed out, or off the preferred ledger.
StartRound(e0, recovering) ==
    UNION {PhaseOpen(PruneUntrustedProposals(Replay(
            [PurgePendingTrust(e0) EXCEPT
                !.mode = mode, !.phase = "Open", !.ours = Nil, !.position = Nil,
                !.proposals = Empty, !.dead = {}, !.disputes = Empty,
                !.acquired = {}, !.compares = {}], e0.prev))) :
           mode \in IF recovering THEN {"SwitchedLedger", "Observing"}
                                  ELSE {"Proposing", "Observing"}}

-----------------------------------------------------------------------------
(* The establish phase: engine_converge.go. *)

\* updateOurVote: our vote on one dispute against the required weight.
OurVote(d, proposing, required) ==
    IF IF d.our THEN d.nays = 0 ELSE d.yays = 0 THEN d.our
    ELSE IF proposing
         THEN (d.yays * 100 + (IF d.our THEN 100 ELSE 0))
                 \div (d.yays + d.nays + 1) > required
         ELSE d.yays > d.nays

\* A rebuild that only ever adds transactions.
RebuildAdds(ours, flipped, vote) == ours \cup {x \in flipped : vote[x]}

\* Our set after the flipped votes: in on a yes, out on a no.
Rebuild(ours, flipped, vote) ==
    {x \in ours \cup flipped : x \in flipped => vote[x]}

\* updatePosition: re-vote, rebuild our set from the votes that flipped,
\* propose it, and refresh the votes of the peers already on it.
UpdatePositionWith(e0, required, sign) ==
    LET e == PurgePendingTrust(e0)
        vote == [x \in DOMAIN e.disputes |->
                    OurVote(e.disputes[x], e.mode = "Proposing", required[x])]
        flipped == {x \in DOMAIN vote : vote[x] # e.disputes[x].our}
        voted == [x \in DOMAIN vote |-> [e.disputes[x] EXCEPT !.our = vote[x]]]
        new == Rebuild(e.ours, flipped, vote)
        there == {n \in DOMAIN e.proposals \cap trustedSnapshot :
                    e.proposals[n].set = new}
    IN  IF e.ours = Nil \/ flipped = {} THEN e
        ELSE IF new = e.ours THEN [e EXCEPT !.disputes = voted]
        ELSE [e EXCEPT
                !.ours = new,
                !.cache = @ \cup {new},
                !.acquired = @ \cup {new},
                !.position = IF e.mode = "Proposing" /\ @ # Nil /\ sign
                             THEN Position(e, new) ELSE @,
                !.disputes = UpdateDisputes(voted, there, new)]

UpdatePosition(e) ==
    {UpdatePositionWith(e, required, sign) :
        required \in [DOMAIN PurgePendingTrust(e).disputes -> Thresholds],
        sign \in Signs}

\* leaveConsensusLocked: bow out and observe; our set stays as it is.
LeaveConsensus(e, sign) ==
    IF e.mode # "Proposing" THEN e
    ELSE [e EXCEPT !.mode = "Observing",
                   !.position = IF @ # Nil /\ sign
                                THEN [@ EXCEPT !.prev = e.prev] ELSE @]

\* countAgreement: the set our position names, or ours without a position.
OurSet(e) == IF e.position # Nil THEN e.position.set ELSE e.ours

Proposers(e) == DOMAIN e.proposals \cap trustedSnapshot

Agreeing(e) == {n \in Proposers(e) : e.proposals[n].set = OurSet(e)}

MinConsensusPct == 80

\* checkConsensusReached on the positions alone.
Agreed(e) ==
    LET self == IF e.mode = "Proposing" THEN 1 ELSE 0
    IN  /\ Proposers(e) # {}
        /\ ((Cardinality(Agreeing(e)) + self) * 100)
              \div (Cardinality(Proposers(e)) + self) >= MinConsensusPct

\* checkConsensusState before any clock is read: agreement, or a stalled
\* dispute set, or nobody to agree with; otherwise peers moved on or the
\* round expired.
Verdicts(e) ==
    IF Agreed(e) THEN {"Yes"}
    ELSE {"MovedOn", "Expired"}
           \cup (IF Proposers(e) = {} \/ DOMAIN e.disputes # {} THEN {"Yes"} ELSE {})

\* acceptLedger: freeze the round and build off the lock.
Accept(e) == [PurgePendingTrust(e) EXCEPT !.phase = "Accepted", !.building = TRUE]

\* checkConvergence: no verdict yet, or one that waits for close-time
\* consensus, or acceptance.  An expired round bows out first.
CheckConvergence(e) ==
    IF e.mode = "WrongLedger" THEN {e}
    ELSE {e} \cup UNION {
            IF v = "Expired"
            THEN UNION {{LeaveConsensus(e, sign), Accept(LeaveConsensus(e, sign))} :
                        sign \in Signs}
            ELSE {Accept(e)} : v \in Verdicts(e)}

\* phaseEstablish: nothing before the minimum consensus time; then prune,
\* update our position and, unless paused, look for consensus.
PhaseEstablish(e) ==
    {e} \cup UNION {
        UNION {{u} \cup CheckConvergence(u) :
               u \in UpdatePosition(PruneStaleProposals(
                                        PruneUntrustedProposals(e), S))} :
        S \in SUBSET DOMAIN e.proposals}

-----------------------------------------------------------------------------
(* Changing ledgers: engine_ledger_check.go, engine_handlers.go,           *)
(* preferred_recovery.go.                                                  *)

StopProposing(e) ==
    IF e.mode = "Proposing" THEN [e EXCEPT !.mode = "Observing"] ELSE e

\* A clearing that keeps the disputes, and with them the votes.
ResetKeepsVotes(e, l) ==
    IF l = e.prev THEN PurgePendingTrust(e)
    ELSE PruneUntrustedProposals(Replay([PurgePendingTrust(e) EXCEPT
            !.proposals = Empty, !.acquired = {}, !.compares = {}], l))

\* handleWrongLedger's and resetWrongLedgerStateLocked's clearing for a new
\* target: positions on it are replayed, the dead stay dead.
ResetForTarget(e, l) ==
    IF l = e.prev THEN PurgePendingTrust(e)
    ELSE PruneUntrustedProposals(Replay([PurgePendingTrust(e) EXCEPT
            !.proposals = Empty, !.disputes = Empty,
            !.acquired = {}, !.compares = {}], l))

\* handleWrongLedger(l): refused or deferred; handed to the detached worker;
\* held and switched to; or missing, which pins the round in WrongLedger.
\* The service may refuse a synchronous switch (OnLedgerSwitched), which
\* leaves startRoundLocked before it resets anything.
HandleWrongLedger(e, l) ==
    LET r == ResetForTarget(StopProposing(e), l)
        on == [r EXCEPT !.prev = l]
    IN  {e, StopProposing(e), [r EXCEPT !.mode = "WrongLedger"]}
          \cup StartRound(on, TRUE)
          \cup (IF SwitchFails THEN {on} ELSE {})

\* checkLedger: the network is on our ledger, or prefers another.
CheckLedger(e) ==
    IF e.phase = "Accepted" THEN {e}
    ELSE {e} \cup UNION {HandleWrongLedger(e, l) : l \in Ledgers \ {e.prev}}

\* checkAndStartRoundInner: from an accepted ledger, with the adaptor's
\* closed ledger as the parent.
CheckAndStartRoundInner(e) ==
    {e} \cup (IF e.mode = "WrongLedger" THEN {}
              ELSE UNION {StartRound([e EXCEPT !.prev = l], FALSE) : l \in Ledgers})

\* The worker's commitPreparedRecovery, or TrySwitchToLedger without a
\* worker: adopt l, with or without the wrong-ledger reset.  A refused
\* synchronous switch restores the parent, so the round is as it was.
SwitchTo(e, l) ==
    UNION {StartRound([r EXCEPT !.prev = l], TRUE) :
           r \in {e, ResetForTarget(e, l)}}

-----------------------------------------------------------------------------
(* Actions. *)

\* The engine is not inside a handler: Engine.mu can be taken.
Unlocked == handling = Nil

\* A handler took Engine.mu, purged the pending removals and left one of
\* the records in outcomes.
Handle(outcomes) ==
    /\ Unlocked
    /\ eng' \in outcomes
    /\ pendingTrustPurge' = {}
    /\ UNCHANGED <<handling, trustVars>>

\* timerEntry.  While a ledger is built it returns at once.
Tick ==
    /\ ~eng.building
    /\ Handle(LET purged == PurgePendingTrust(eng)
                  ready == {purged} \cup {LeaveConsensus(purged, sign) : sign \in Signs}
                  checked == UNION {CheckLedger(e) : e \in ready}
              IN  UNION {CASE e.phase = "Open" -> PhaseOpen(e)
                           [] e.phase = "Establish" -> PhaseEstablish(e)
                           [] OTHER -> CheckAndStartRoundInner(e) : e \in checked})

\* commitAcceptedLedgerLocked: the build is done, and a new ledger l is our
\* parent; out of Full mode the round stays accepted, in Full mode the next
\* starts on l, or on a preferred ledger, or waits for one.  A quorum on
\* another ledger discards the build.
Commit(l) ==
    LET done == [PurgePendingTrust(eng) EXCEPT !.building = FALSE]
        on == [done EXCEPT !.prev = l]
    IN  /\ eng.building /\ l # eng.prev
        /\ Handle({on} \cup StartRound(on, FALSE)
                    \cup UNION {HandleWrongLedger(done, m)
                                \cup StartRound([on EXCEPT !.prev = m], FALSE)
                                \cup HandleWrongLedger(on, m)
                                : m \in Ledgers \ {eng.prev, l}})

\* commitAcceptedLedgerLocked with an error: back to Establish, and onto the
\* quorum's ledger if there is one.
CommitFailed ==
    LET back == [PurgePendingTrust(eng) EXCEPT !.building = FALSE,
                                               !.phase = "Establish"]
    IN  /\ BuildFails /\ eng.building
        /\ Handle({back} \cup UNION {HandleWrongLedger(back, l) :
                                     l \in Ledgers \ {eng.prev}})

Switch(l) ==
    /\ ~eng.building
    /\ eng.mode = "WrongLedger" \/ eng.prev # l
    /\ Handle(SwitchTo(eng, l))

\* An OnTxSet that leaves the disputes it does not create alone.
ApplyTxSetLate(e0, s) ==
    LET e == PurgePendingTrust(e0)
    IN  IF s \in e.acquired THEN e
        ELSE CreateDisputesAgainst([e EXCEPT !.acquired = @ \cup {s}], s)

\* OnTxSet: the adaptor caches what it builds; between rounds that is all.
\* A set new to the round is compared with ours and its holders vote.
ApplyTxSet(e0, s) ==
    LET e == PurgePendingTrust(e0)
        new == [e EXCEPT !.acquired = @ \cup {s}]
        there == {n \in DOMAIN e.proposals \cap trustedSnapshot :
                    e.proposals[n].set = s}
        c == CreateDisputesAgainst(new, s)
    IN  IF s \in e.acquired THEN e
        ELSE IF e.ours = Nil \/ s = e.ours THEN new
        ELSE [c EXCEPT !.disputes = UpdateDisputes(@, there, s)]

OnTxSet(s) ==
    LET cached == [eng EXCEPT !.cache = @ \cup {s}]
    IN  IF eng.phase = "Accepted"
        THEN /\ Unlocked
             /\ eng' = cached
             /\ UNCHANGED <<handling, pendingTrustPurge, trustVars>>
        ELSE Handle({ApplyTxSet(cached, s)})

\* OnProposal to its second trust check.  A proposal of an untrusted peer
\* has only applied the pending removals.
OnProposalGate(m) ==
    /\ Unlocked
    /\ eng' = PurgePendingTrust(eng)
    /\ pendingTrustPurge' = {}
    /\ handling' = IF m.node \in trusted
                   THEN [node |-> m.node, prev |-> m.prev, pos |-> m.pos,
                         set |-> m.set, epoch |-> epoch[m.node]]
                   ELSE Nil
    /\ UNCHANGED trustVars

\* bufferRecent: the oldest entry makes room.
BufferRecent(buffer, m) ==
    Append(IF Len(buffer) >= RecentPerNode THEN Tail(buffer) ELSE buffer, m)

\* store: the position must advance.
Stores(e, m) ==
    m.node \in DOMAIN e.proposals => m.pos > e.proposals[m.node].pos

\* The dispute work of a stored position: its set, if the adaptor has it, is
\* acquired and compared with ours, and the peer votes on every dispute.
WireDisputes(e, m) ==
    LET got == IF m.set \in e.cache
               THEN [e EXCEPT !.acquired = @ \cup {m.set}] ELSE e
        c == CreateDisputesAgainst(got, m.set)
    IN  IF e.ours = Nil \/ m.set \notin got.acquired \/ m.node \notin trusted
        THEN got
        ELSE [c EXCEPT !.disputes = UpdateDisputes(@, {m.node}, m.set)]

\* An OnProposal that forgets the dead.
AdmitProposalDead(e0, m) ==
    LET e == [e0 EXCEPT !.recent[m.node] = BufferRecent(@, m)]
    IN  IF \/ e.phase = "Accepted" \/ m.prev # e.prev \/ m.pos = SeqLeave
           \/ ~Stores(e, m)
        THEN [e EXCEPT !.dead = IF m.pos = SeqLeave THEN @ \cup {m.node} ELSE @]
        ELSE WireDisputes([e EXCEPT !.proposals = Put([n \in {m.node} |-> m], @)], m)

\* An OnProposal that takes positions on any ledger.
AdmitProposalAnywhere(e0, m) ==
    LET e == [e0 EXCEPT !.recent[m.node] = BufferRecent(@, m)]
    IN  IF \/ e.phase = "Accepted" \/ m.node \in e.dead \/ m.pos = SeqLeave
           \/ ~Stores(e, m)
        THEN e
        ELSE WireDisputes([e EXCEPT !.proposals = Put([n \in {m.node} |-> m], @)], m)

\* OnProposal past its trust gate.
AdmitProposal(e0, m) ==
    LET e == [e0 EXCEPT !.recent[m.node] = BufferRecent(@, m)]
    IN  IF \/ e.phase = "Accepted" \/ m.prev # e.prev \/ m.node \in e.dead
        THEN e
        ELSE IF m.pos = SeqLeave
        THEN [e EXCEPT !.proposals = Keep(@, Peers \ {m.node}),
                       !.dead = @ \cup {m.node},
                       !.disputes = UnVote(@, {m.node})]
        ELSE IF ~Stores(e, m) THEN e
        ELSE WireDisputes([e EXCEPT !.proposals = Put([n \in {m.node} |-> m], @)], m)

OnProposalAdmit ==
    /\ handling # Nil
    /\ eng' = AdmitProposal(eng, handling)
    /\ handling' = Nil
    /\ UNCHANGED <<pendingTrustPurge, trustVars>>

\* SetTrustedValidators: the adaptor's set changes first ...
AdaptorTrust(T) ==
    /\ ~callbackDue /\ T # trusted
    /\ \A n \in trusted \ T : epoch[n] < MaxEpoch
    /\ trusted' = T
    /\ callbackDue' = TRUE
    /\ UNCHANGED <<eng, handling, trustedSnapshot, pendingTrustPurge, epoch>>

\* A callback that replaces the pending removals instead of adding to them.
TrustCallbackReplaces ==
    LET removed == trustedSnapshot \ trusted
    IN  /\ callbackDue
        /\ callbackDue' = FALSE
        /\ pendingTrustPurge' = removed
        /\ trustedSnapshot' = trusted
        /\ epoch' = [n \in Peers |-> epoch[n] + (IF n \in removed THEN 1 ELSE 0)]
        /\ UNCHANGED <<eng, handling, trusted>>

\* ... and then its callback, recordTrustTransition, which takes trustMu only.
TrustCallback ==
    LET removed == trustedSnapshot \ trusted
    IN  /\ callbackDue
        /\ callbackDue' = FALSE
        /\ pendingTrustPurge' = pendingTrustPurge \cup removed
        /\ trustedSnapshot' = trusted
        /\ epoch' = [n \in Peers |-> epoch[n] + (IF n \in removed THEN 1 ELSE 0)]
        /\ UNCHANGED <<eng, handling, trusted>>

Init ==
    /\ \E l \in Ledgers :
        eng = [phase |-> "Open", mode |-> "Proposing", prev |-> l,
               building |-> FALSE, proposals |-> Empty, dead |-> {},
               recent |-> [n \in Peers |-> <<>>], disputes |-> Empty,
               acquired |-> {}, compares |-> {}, ours |-> Nil,
               position |-> Nil, cache |-> {{}}]
    /\ handling = Nil
    /\ trusted \in TrustChanges
    /\ trustedSnapshot = trusted
    /\ callbackDue = FALSE
    /\ pendingTrustPurge = {}
    /\ epoch = [n \in Peers |-> 0]

Next ==
    \/ Tick
    \/ \E l \in Ledgers : Commit(l) \/ Switch(l)
    \/ CommitFailed
    \/ \E s \in {m.set : m \in Messages} : OnTxSet(s)
    \/ \E m \in Messages : OnProposalGate(m)
    \/ OnProposalAdmit
    \/ \E T \in TrustChanges : AdaptorTrust(T)
    \/ TrustCallback

Spec == Init /\ [][Next]_vars

-----------------------------------------------------------------------------
(* Properties. *)

Phases == {"Open", "Establish", "Accepted"}
Modes == {"Proposing", "Observing", "WrongLedger", "SwitchedLedger"}
TxSets == SUBSET Txs
Entries == [node : Peers, prev : Ledgers, pos : 0..SeqLeave, set : TxSets,
            epoch : Nat]
Positions == [set : TxSets, prev : Ledgers]

\* A dispute: our vote, the peers' votes and their tally.
IsDispute(d) ==
    /\ DOMAIN d = {"our", "votes", "yays", "nays"}
    /\ d.our \in BOOLEAN /\ d.yays \in Int /\ d.nays \in Int
    /\ DOMAIN d.votes \subseteq Peers
    /\ \A n \in DOMAIN d.votes : d.votes[n] \in BOOLEAN

\* Types of the engine's maps (engine.go, proposal_tracker.go, proposals.go)
\* and of the trust views beside it; the maps are partial functions.
TypeOK ==
    /\ eng.phase \in Phases /\ eng.mode \in Modes /\ eng.prev \in Ledgers
    /\ eng.building \in BOOLEAN /\ eng.dead \subseteq Peers
    /\ DOMAIN eng.proposals \subseteq Peers
    /\ \A n \in DOMAIN eng.proposals :
            eng.proposals[n] \in Entries /\ eng.proposals[n].node = n
    /\ DOMAIN eng.recent = Peers
    /\ \A n \in Peers : /\ Len(eng.recent[n]) <= RecentPerNode
                        /\ \A i \in 1..Len(eng.recent[n]) :
                              eng.recent[n][i] \in Entries
    /\ DOMAIN eng.disputes \subseteq Txs
    /\ \A x \in DOMAIN eng.disputes : IsDispute(eng.disputes[x])
    /\ \A s \in eng.acquired \cup eng.compares \cup eng.cache : s \in TxSets
    /\ eng.ours = Nil \/ eng.ours \in TxSets
    /\ eng.position = Nil \/ eng.position \in Positions
    /\ handling = Nil \/ handling \in Entries
    /\ trusted \subseteq Peers /\ trustedSnapshot \subseteq Peers
    /\ pendingTrustPurge \subseteq Peers /\ callbackDue \in BOOLEAN
    /\ epoch \in [Peers -> Nat]

\* The running tallies of updateVoteCount and unVote are the counts of the
\* votes: inserts, changes, bow-outs, stale positions and trust purges, in
\* any order, never leave a ghost vote behind.
TallyExact ==
    \A x \in DOMAIN eng.disputes :
        LET d == eng.disputes[x]
        IN  /\ d.yays = Cardinality({n \in DOMAIN d.votes : d.votes[n]})
            /\ d.nays = Cardinality({n \in DOMAIN d.votes : ~d.votes[n]})

\* Only a peer with a current position votes, and a peer that bowed out of
\* the round has none: neither replay nor a later proposal brings it back
\* (OnProposal's dead check, unvoteDeadProposalsLocked).
VotersLive ==
    /\ \A x \in DOMAIN eng.disputes :
            DOMAIN eng.disputes[x].votes \subseteq DOMAIN eng.proposals
    /\ DOMAIN eng.proposals \cap eng.dead = {}

\* A peer's vote is what the set it now proposes says, once that set is
\* held: a position that changed, or a set that came late, is not counted
\* under its old vote (updateDisputes in OnProposal, OnTxSet, updatePosition).
VotesMatchPositions ==
    \A x \in DOMAIN eng.disputes : \A n \in DOMAIN eng.disputes[x].votes :
        eng.proposals[n].set \in eng.acquired =>
            eng.disputes[x].votes[n] = (x \in eng.proposals[n].set)

\* Every vote counted was cast from a set we hold and from a position its
\* peer signed for this parent, never from one later than the position held:
\* lost trust, a failed build, a refused switch or an older proposal that
\* arrives late may leave a vote behind the position, never ahead of it nor
\* from another round (store, updateDisputes, seedDisputeVotes).
VotesSigned ==
    \A x \in DOMAIN eng.disputes : \A n \in DOMAIN eng.disputes[x].votes :
        n \in DOMAIN eng.proposals /\ \E m \in Messages :
            /\ m.node = n /\ m.set \in eng.acquired
            /\ m.pos <= eng.proposals[n].pos
            /\ eng.mode # "WrongLedger" => m.prev = eng.proposals[n].prev
            /\ eng.disputes[x].votes[n] = (x \in m.set)

\* Our vote on a dispute is whether our set has the transaction: what
\* updatePosition rebuilds, closeLedger proposes and acceptLedger builds
\* never drifts from what we vote (outside the wrong-ledger wait).
OurVoteMatchesSet ==
    \A x \in DOMAIN eng.disputes : eng.disputes[x].our = (x \in eng.ours)

\* Every transaction on which a trusted peer's held set differs from ours is
\* disputed, whichever of proposal, set and our own close came first
\* (createDisputesAgainst and its compare cache).
DisputesComplete ==
    \A n \in (DOMAIN eng.proposals \cap trusted \cap trustedSnapshot)
                \ pendingTrustPurge :
        eng.ours # Nil /\ eng.proposals[n].set \in eng.acquired =>
            SymmetricDifference(eng.proposals[n].set, eng.ours)
                \subseteq DOMAIN eng.disputes

\* A position received before its validator lost trust is gone once the
\* removal is applied, from the round and from the playback buffer: trust
\* restored later does not bring it back (recordTrustTransition,
\* purgePendingTrustLocked, OnProposal's second trust check).
NoResurrection ==
    \A n \in Peers \ pendingTrustPurge :
        /\ n \in DOMAIN eng.proposals => eng.proposals[n].epoch = epoch[n]
        /\ \A i \in DOMAIN eng.recent[n] : eng.recent[n][i].epoch = epoch[n]

\* In a round that is not waiting for its ledger, every position counted is
\* on the ledger the round extends, and so is the one we propose: neither a
\* change of ledger, playback, a failed build nor a refused switch leaves a
\* position of another round behind (OnProposal, startRoundLocked,
\* resetWrongLedgerStateLocked).
RoundOnParent ==
    eng.mode # "WrongLedger" /\ eng.phase # "Accepted" =>
        /\ \A n \in DOMAIN eng.proposals : eng.proposals[n].prev = eng.prev
        /\ eng.mode = "Proposing" /\ eng.position # Nil =>
              eng.position.prev = eng.prev

\* An observer that has moved its set to its peers' counts those peers as
\* agreeing: updateOurVote's observer rule is there to recognize consensus,
\* and countAgreement to count the positions that match ours.
AgreementOnOurs ==
    eng.phase = "Establish" /\ eng.mode # "WrongLedger" =>
        Agreeing(eng) = {n \in Proposers(eng) : eng.proposals[n].set = eng.ours}

=============================================================================
