----------------------------- MODULE Avalanche -----------------------------
(***************************************************************************)
(* One disputed transaction on one node through the establish phase: how   *)
(* the threshold our vote must clear escalates with the round's time, when *)
(* our vote flips, and when the dispute counts as stalled, which ends the  *)
(* round without agreement.                                                *)
(*                                                                         *)
(* Counters saturate at the largest value any comparison in the code asks  *)
(* about, which loses nothing.  The round's time, as a percentage of the   *)
(* previous round's, moves forward between the values of Percents.  Votes  *)
(* on other disputes of the round reset peerUnchangedCounter too and are   *)
(* the action OtherVote.  Close-time consensus, without which a stall is   *)
(* not looked at, is taken to hold.                                        *)
(***************************************************************************)
EXTENDS Integers, FiniteSets

CONSTANTS
    Peers,        \* trusted peers with a position
    Percents,     \* convergePercent values a tick may see
    MinRounds,    \* ConsensusParms.MinRounds
    StalledRounds \* ConsensusParms.StalledRounds

MinConsensusPct == 80

ASSUME ParmsAssumption ==
    /\ IsFiniteSet(Peers) /\ Percents \subseteq Nat
    /\ MinRounds \in Nat \ {0} /\ StalledRounds \in Nat /\ MinRounds <= StalledRounds

VARIABLES
    proposing,      \* mode is proposing
    votes,          \* each peer's vote on the transaction
    our,            \* OurVote
    level,          \* AvalancheState: 0 init, 1 mid, 2 late, 3 stuck
    rounds,         \* AvalancheCounter
    steady,         \* CurrentVoteCounter
    peersUnchanged, \* peerUnchangedCounter
    percent,        \* convergePercent at the last tick
    stalled,        \* disputeStalled at the last tick, if nothing changed since
    contested,      \* history: ticks on which the vote was weighed
    from,           \* history: our vote when peers' votes or our mode last changed
    flips           \* history: how often it has flipped since

vars == <<proposing, votes, our, level, rounds, steady, peersUnchanged,
          percent, stalled, contested, from, flips>>

Up(n, cap) == IF n < cap THEN n + 1 ELSE cap

-----------------------------------------------------------------------------
(* The thresholds: consensus/types.go. *)

\* AvalancheCutoff: when a level starts, what it requires, what follows it.
Cutoff(l) == CASE l = 0 -> [time |-> 0, pct |-> 50, next |-> 1]
               [] l = 1 -> [time |-> 50, pct |-> 65, next |-> 2]
               [] l = 2 -> [time |-> 85, pct |-> 70, next |-> 3]
               [] l = 3 -> [time |-> 200, pct |-> 95, next |-> 3]

\* An escalation that does not wait out its level.
AdvancedAtOnce(l, time, n) ==
    IF time >= Cutoff(Cutoff(l).next).time THEN Cutoff(l).next ELSE l

\* NeededWeight's new level: one step, after MinRounds in this one, once the
\* next one's time has come.
Advanced(l, time, n) ==
    IF n >= MinRounds /\ time >= Cutoff(Cutoff(l).next).time
    THEN Cutoff(l).next ELSE l

-----------------------------------------------------------------------------
(* The vote: rcl/proposals.go. *)

Yays == Cardinality({n \in Peers : votes[n] = "yes"})
Nays == Cardinality({n \in Peers : votes[n] = "no"})

\* Nothing to weigh: every vote cast is ours.
Unopposed == IF our THEN Nays = 0 ELSE Yays = 0

\* A contribution to the side our vote is not on.
OwnContributionAgainst == IF our THEN 0 ELSE 100

OwnContribution == IF our THEN 100 ELSE 0

\* A proposer's weight of the yes side.
Weight(own) == (Yays * 100 + own) \div (Yays + Nays + 1)

\* The vote a proposer's threshold, or for an observer the majority, yields.
NewVote(required) ==
    \/ proposing /\ Weight(OwnContribution) > required
    \/ ~proposing /\ Yays > Nays

\* More than MinConsensusPct of the votes are on one side.
OneSided(vote) ==
    LET total == Yays + Nays + (IF proposing THEN 1 ELSE 0)
        weight == ((Yays + (IF proposing /\ vote THEN 1 ELSE 0)) * 100) \div total
    IN  total # 0 /\ (weight > MinConsensusPct \/ weight < 100 - MinConsensusPct)

\* As DisputeStalled, but an unmoving side is what keeps it waiting.
DisputeStalledSwapped(l, n, vote, kept, unchanged) ==
    /\ Cutoff(Cutoff(l).next).time <= Cutoff(l).time
    /\ n >= MinRounds
    /\ proposing => kept >= MinRounds
    /\ ~(unchanged >= StalledRounds /\ proposing /\ kept < StalledRounds)
    /\ OneSided(vote)

\* disputeStalled for a dispute at level l for n rounds, with our vote kept
\* for `kept' ticks and the peers' for `unchanged'.
DisputeStalled(l, n, vote, kept, unchanged) ==
    /\ Cutoff(Cutoff(l).next).time <= Cutoff(l).time
    /\ n >= MinRounds
    /\ proposing => kept >= MinRounds
    /\ ~(unchanged < StalledRounds /\ proposing /\ kept < StalledRounds)
    /\ OneSided(vote)

-----------------------------------------------------------------------------
(* Actions. *)

\* What a change of the peers' votes or of our mode leaves alone.
Disturbed ==
    /\ from' = our /\ flips' = 0
    /\ stalled' = FALSE
    /\ UNCHANGED <<our, level, rounds, steady, percent, contested>>

\* updateDisputes or seedDisputeVotes: a peer's vote is new or has changed.
Vote(n, v) ==
    /\ votes[n] # v
    /\ votes' = [votes EXCEPT ![n] = v]
    /\ peersUnchanged' = 0
    /\ Disturbed
    /\ UNCHANGED proposing

\* unVote: a bow-out, a stale position or lost trust.
UnVote(n) ==
    /\ votes[n] # "none"
    /\ votes' = [votes EXCEPT ![n] = "none"]
    /\ Disturbed
    /\ UNCHANGED <<proposing, peersUnchanged>>

\* A vote on another dispute of the round.
OtherVote ==
    /\ peersUnchanged # 0
    /\ peersUnchanged' = 0
    /\ stalled' = FALSE
    /\ UNCHANGED <<proposing, votes, our, level, rounds, steady, percent,
                   contested, from, flips>>

\* leaveConsensusLocked.
LeaveConsensus ==
    /\ proposing
    /\ proposing' = FALSE
    /\ Disturbed
    /\ UNCHANGED <<votes, peersUnchanged>>

\* phaseEstablish: updateOurVote and then, in checkConsensusState, allStalled.
Tick(time) ==
    LET unchanged == Up(peersUnchanged, StalledRounds)
        n == Up(rounds, MinRounds)
        l == Advanced(level, time, n)
        vote == NewVote(Cutoff(l).pct)
    IN  /\ time >= percent
        /\ percent' = time
        /\ peersUnchanged' = unchanged
        /\ IF Unopposed THEN UNCHANGED <<our, level, rounds, steady, contested, flips>>
           ELSE /\ level' = l
                /\ rounds' = IF l = level THEN n ELSE 0
                /\ our' = vote
                /\ steady' = IF vote = our THEN Up(steady, StalledRounds) ELSE 0
                /\ contested' = Up(contested, 4 * MinRounds)
                /\ flips' = IF vote = our THEN flips ELSE flips + 1
        /\ stalled' = DisputeStalled(level', rounds', our', steady', unchanged)
        /\ UNCHANGED <<proposing, votes, from>>

\* createDispute, as a proposer or an observer.
Init ==
    /\ proposing \in BOOLEAN /\ our \in BOOLEAN
    /\ votes \in [Peers -> {"yes", "no", "none"}]
    /\ level = 0 /\ rounds = 0 /\ steady = 0
    /\ peersUnchanged = 0 /\ percent = 0
    /\ stalled = FALSE /\ contested = 0
    /\ from = our /\ flips = 0

Next ==
    \/ \E n \in Peers : UnVote(n) \/ \E v \in {"yes", "no"} : Vote(n, v)
    \/ OtherVote
    \/ LeaveConsensus
    \/ \E time \in Percents : Tick(time)

Spec == Init /\ [][Next]_vars

-----------------------------------------------------------------------------
(* Properties. *)

\* Types of a dispute's fields (consensus.DisputedTx) and of the counters.
TypeOK ==
    /\ proposing \in BOOLEAN /\ our \in BOOLEAN /\ stalled \in BOOLEAN
    /\ votes \in [Peers -> {"yes", "no", "none"}]
    /\ level \in 0..3 /\ rounds \in 0..MinRounds /\ steady \in 0..StalledRounds
    /\ peersUnchanged \in 0..StalledRounds /\ percent \in Percents \cup {0}
    /\ contested \in 0..(4 * MinRounds) /\ from \in BOOLEAN /\ flips \in Nat

\* While the peers' votes stand, our vote does not oscillate: a proposer may
\* take a transaction in and later, as the threshold rises, give it up, but
\* never takes it back; an observer moves at most once (updateOurVote: our
\* own yes only ever helps the side it is on, and thresholds only rise).
Settles ==
    flips <= (IF proposing /\ ~from THEN 2 ELSE 1)

\* A stalled dispute is over: as long as nothing disturbs it, later ticks
\* neither flip our vote nor withdraw the verdict on which the round was
\* accepted (disputeStalled against updateOurVote at the last level).
StallHolds ==
    [][stalled /\ votes' = votes /\ proposing' = proposing /\ peersUnchanged' # 0
        => our' = our /\ stalled']_vars

\* No dispute is stalled before it was weighed for MinRounds ticks on each of
\* the four levels, the dwell checkConvergence also asks of an expired round.
StallIsLate == stalled => contested = 4 * MinRounds
=============================================================================
