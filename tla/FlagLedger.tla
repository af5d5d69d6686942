----------------------------- MODULE FlagLedger -----------------------------
(***************************************************************************)
(* Voting around flag ledgers as one validator, Self, lives through it: on *)
(* every voting ledger 256k - 1 the validators vote on the negative UNL,   *)
(* and ledger 256k first takes the change that was pending and then stages *)
(* the agreed one; on every flag ledger 256k they vote on amendments with  *)
(* the validations of ledger 256k - 1, and ledger 256k + 1 records it.     *)
(* Self's trusted set changes at any time, and Self may restart.           *)
(*                                                                         *)
(* What the network agrees on is any combination of what validators with   *)
(* Self's trusted set, but any scores, caches and stances, would propose.  *)
(* The two rounds of a period are the only ones in which these votes have  *)
(* an effect; a period is two units of close time.                         *)
(***************************************************************************)
EXTENDS Integers, FiniteSets, FiniteSetsExt

CONSTANTS
    Validators,       \* the validators that may be trusted
    Self,             \* this node
    Scores,           \* validation counts over the last 256 ledgers
    VotesTimeout,     \* trustedVotesTimeout
    MajorityTimeout,  \* amendmentMajorityTimeout
    MinTrusted,       \* smallest trusted set (bound)
    Periods,          \* flag ledgers of a behaviour (bound)
    MaxChanges        \* trust changes and restarts of a behaviour (bound)

ASSUME FlagAssumption ==
    /\ IsFiniteSet(Validators) /\ Self \in Validators
    /\ Scores \cup {VotesTimeout, MajorityTimeout, MaxChanges} \subseteq Nat
    /\ Periods \in Nat \ {0}

Interval == 256                            \* FlagLedgerInterval
LowWaterMark == (Interval * 50) \div 100
HighWaterMark == (Interval * 80) \div 100
MinLocalValsToVote == (Interval * 90) \div 100
NewValidatorDisableSkip == Interval * 2
None == 0
Unreachable == 1000000                     \* math.MaxInt

VARIABLES
    period,   \* number k of the coming or latest flag ledger
    stage,    \* what comes next in the period
    trusted,  \* trustedSet
    neg,      \* NegativeUNL entry of the latest ledger
    newVals,  \* voter.newValidators: sequence a validator was added at
    prevSet,  \* previousTrustedSet; {} before it is seeded
    enabled,  \* the amendment is enabled in the latest ledger
    majority, \* time the ledger recorded its majority, or None
    cache,    \* trustedVotes.recordedVotes
    changes,  \* trust changes and restarts so far
    added,    \* history: sequence a validator was first seen newly trusted
    lastSeen  \* history: latest validation counted from a trusted validator

vars == <<period, stage, trusted, neg, newVals, prevSet, enabled, majority,
          cache, changes, added, lastSeen>>

-----------------------------------------------------------------------------
(* Quorum: adaptor/trust_oracle.go. *)

\* Four fifths of the validators that are not disabled, three fifths of all.
ComputeQuorum(n, disabled) ==
    IF n = 0 THEN 0
    ELSE IF n <= disabled THEN Unreachable
    ELSE Max({((n - disabled) * 4 + 4) \div 5, (n * 3 + 4) \div 5})

Quorum(unl, disabled) == ComputeQuorum(Cardinality(unl), Cardinality(unl \cap disabled))

-----------------------------------------------------------------------------
(* The negative UNL: negativeunlvote, ledger/negativeunl, tx/pseudo. *)

\* Apply in ledger/negativeunl: what is pending takes effect.
UpdateNegativeUNL(sle) ==
    [disabled |-> (sle.disabled \ sle.toReEnable) \cup sle.toDisable,
     toDisable |-> {}, toReEnable |-> {}]

\* The negative UNL that an upcoming flag ledger will see, and without what
\* is pending.
CurrentNegUNL(sle) == sle.disabled

EffectiveNegUNL(sle) == (sle.disabled \cup sle.toDisable) \ sle.toReEnable

\* UNLModify.Apply: whether it succeeds, and what it leaves.
DisableOK(sle, v) ==
    sle.toDisable = {} /\ v \notin sle.toReEnable /\ v \notin sle.disabled
ReEnableOK(sle, v) ==
    sle.toReEnable = {} /\ v \notin sle.toDisable /\ v \in sle.disabled

\* The same for a transaction that may be missing: tx holds its validator.
ApplyDisable(sle, tx) ==
    IF \E v \in tx : DisableOK(sle, v) THEN [sle EXCEPT !.toDisable = tx] ELSE sle
ApplyReEnable(sle, tx) ==
    IF \E v \in tx : ReEnableOK(sle, v) THEN [sle EXCEPT !.toReEnable = tx] ELSE sle

MaxListed(unl) == (Cardinality(unl) + 3) \div 4

\* The next one with room for one more.
FindCandidatesAtLimit(unl, negUNL, score, new) ==
    LET canAdd == Cardinality(unl \cap negUNL) <= MaxListed(unl)
        scored == {v \in unl \cap negUNL : score[v] > HighWaterMark}
    IN  [toDisable |-> {v \in unl \ (negUNL \cup new) : canAdd /\ score[v] < LowWaterMark},
         toReEnable |-> IF scored # {} THEN scored ELSE negUNL \ unl]

\* findAllCandidates: whom to disable and whom to re-enable.
FindAllCandidates(unl, negUNL, score, new) ==
    LET canAdd == Cardinality(unl \cap negUNL) < MaxListed(unl)
        scored == {v \in unl \cap negUNL : score[v] > HighWaterMark}
    IN  [toDisable |-> {v \in unl \ (negUNL \cup new) : canAdd /\ score[v] < LowWaterMark},
         toReEnable |-> IF scored # {} THEN scored ELSE negUNL \ unl]

\* DoVoting gets past its checks of our own validation count.
MayVote(count) == count > MinLocalValsToVote /\ count <= Interval

\* The next one a ledger early.
PurgeEarly(new, seq) ==
    [v \in Validators |-> IF new[v] # None /\ seq - new[v] >= NewValidatorDisableSkip
                          THEN None ELSE new[v]]

\* purgeNewValidators: the grace periods that remain at an upcoming ledger.
Purge(new, seq) ==
    [v \in Validators |-> IF new[v] # None /\ seq - new[v] > NewValidatorDisableSkip
                          THEN None ELSE new[v]]
New(new) == {v \in Validators : new[v] # None}

-----------------------------------------------------------------------------
(* Amendments: adaptor/trusted_votes.go, amendmentvote, tx/pseudo. *)

Unseated == [timeout |-> None, up |-> FALSE]
Unseen == [time |-> None, up |-> FALSE]

Threshold(n) == Max({1, (n * 80) \div 100})
Passes(votes, n) == IF n = 1 THEN votes >= Threshold(n) ELSE votes > Threshold(n)

\* Expiry a moment early.
RecordVotesEarly(entries, time, ballots) ==
    LET seated == [v \in Validators |->
            IF v \in DOMAIN ballots
            THEN [timeout |-> time + VotesTimeout, up |-> ballots[v]] ELSE entries[v]]
    IN  [v \in Validators |->
            IF seated[v].timeout # None /\ time >= seated[v].timeout
            THEN Unseated ELSE seated[v]]

\* recordVotes of the validations ballots, a function from their signers to
\* whether they vote for the amendment.
RecordVotes(entries, time, ballots) ==
    LET seated == [v \in Validators |->
            IF v \in DOMAIN ballots
            THEN [timeout |-> time + VotesTimeout, up |-> ballots[v]] ELSE entries[v]]
    IN  [v \in Validators |->
            IF seated[v].timeout # None /\ time > seated[v].timeout
            THEN Unseated ELSE seated[v]]

\* Decide for one amendment: "none" or the pseudo-transaction it proposes.
Decide(votes, n, time, voteUp) ==
    CASE enabled -> "none"
      [] ~enabled /\ Passes(votes, n) /\ majority = None /\ voteUp -> "got"
      [] ~enabled /\ ~Passes(votes, n) /\ majority # None -> "lost"
      [] ~enabled /\ Passes(votes, n) /\ majority # None /\ voteUp
            /\ majority + MajorityTimeout <= time -> "enable"
      [] OTHER -> "none"

\* EnableAmendment.Apply succeeds.
AmendmentOK(tx) ==
    /\ ~enabled /\ tx # "none"
    /\ tx = "got" => majority = None
    /\ tx = "lost" => majority # None

-----------------------------------------------------------------------------
(* Rounds. *)

\* Close times of ledgers 256k - 1 and 256k.
VotingClose == 2 * period
FlagClose == 2 * period + 1
Upcoming == IF stage \in {"start_voting", "close_voting"}
            THEN period * Interval ELSE period * Interval + 1

\* startRound: driveNegativeUNLNewValidatorsLocked.
DriveNewValidators ==
    LET fresh == IF prevSet = {} THEN {} ELSE trusted \ prevSet
        stamp(f) == [v \in Validators |-> IF v \in fresh /\ f[v] = None THEN Upcoming ELSE f[v]]
    IN  /\ newVals' = stamp(newVals)
        /\ added' = stamp(added)
        /\ prevSet' = trusted

StartRound(from, to) ==
    /\ stage = from /\ stage' = to
    /\ DriveNewValidators
    /\ UNCHANGED <<period, trusted, neg, enabled, majority, cache, changes, lastSeen>>

StartVotingRound == StartRound("start_voting", "close_voting")
StartFlagRound == StartRound("start_flag", "close_flag")

\* What a validator that trusts whom we trust may propose for this ledger.
Proposable ==
    LET sets == {FindAllCandidates(trusted, EffectiveNegUNL(neg), s, {}) : s \in [trusted -> Scores]}
    IN  [toDisable |-> UNION {c.toDisable : c \in sets},
         toReEnable |-> UNION {c.toReEnable : c \in sets}]

Optional(S) == {{}} \cup {{x} : x \in S}

\* Ledger 256k is built: the pending change first, then the transactions.
CloseVotingRound ==
    /\ stage = "close_voting" /\ stage' = "start_flag"
    /\ \E p \in {Proposable} : \E d \in Optional(p.toDisable), r \in Optional(p.toReEnable) :
         neg' = ApplyReEnable(ApplyDisable(UpdateNegativeUNL(neg), d), r)
    /\ \E votes \in {MayVote(count) : count \in Scores} :
         newVals' = IF Self \in trusted /\ votes THEN Purge(newVals, Upcoming) ELSE newVals
    /\ UNCHANGED <<period, trusted, prevSet, enabled, majority, cache, changes, added, lastSeen>>

\* GenerateFlagLedgerPseudoTxs with the validations of ledger 256k - 1.
RecordBallots ==
    \E signers \in SUBSET (trusted \ neg.disabled) :
        /\ Cardinality(signers) >= Quorum(trusted, neg.disabled)
        /\ \E ballots \in [signers -> BOOLEAN] :
             /\ cache' = RecordVotes(cache, VotingClose, ballots)
             /\ lastSeen' = [v \in Validators |-> IF v \in signers
                    THEN [time |-> VotingClose, up |-> ballots[v]] ELSE lastSeen[v]]

Decisions == {Decide(votes, n, VotingClose, voteUp) :
                 votes, n \in 0 .. Cardinality(trusted), voteUp \in BOOLEAN}

\* Ledger 256k + 1 is built.  Self records the votes if it proposes and its
\* validations reach the quorum.
CloseFlagRound ==
    /\ stage = "close_flag" /\ stage' = "start_voting"
    /\ period < Periods /\ period' = period + 1
    /\ RecordBallots \/ UNCHANGED <<cache, lastSeen>>
    /\ \E tx \in Decisions :
         IF AmendmentOK(tx)
         THEN /\ majority' = IF tx = "got" THEN FlagClose ELSE None
              /\ enabled' = (tx = "enable")
         ELSE UNCHANGED <<enabled, majority>>
    /\ UNCHANGED <<trusted, neg, newVals, prevSet, changes, added>>

\* SetTrustedValidators, with trustedVotes.trustChanged.
SetTrusted(unl) ==
    /\ changes < MaxChanges /\ changes' = changes + 1
    /\ unl # trusted
    /\ trusted' = unl
    /\ cache' = [v \in Validators |-> IF v \in unl THEN cache[v] ELSE Unseated]
    /\ lastSeen' = [v \in Validators |-> IF v \in unl THEN lastSeen[v] ELSE Unseen]
    /\ UNCHANGED <<period, stage, neg, newVals, prevSet, enabled, majority, added>>

\* Self comes back with its configured trusted set and nothing else, and
\* starts the round again.
Restart ==
    /\ changes < MaxChanges /\ changes' = changes + 1
    /\ newVals' = [v \in Validators |-> None]
    /\ added' = [v \in Validators |-> None]
    /\ prevSet' = {}
    /\ cache' = [v \in Validators |-> Unseated]
    /\ lastSeen' = [v \in Validators |-> Unseen]
    /\ stage' = CASE stage = "close_voting" -> "start_voting"
                  [] stage = "close_flag" -> "start_flag" [] OTHER -> stage
    /\ UNCHANGED <<period, trusted, neg, enabled, majority>>

Init ==
    /\ period = 1 /\ stage = "start_voting"
    /\ trusted \in {t \in SUBSET Validators : Self \in t /\ Cardinality(t) >= MinTrusted}
    /\ neg = [disabled |-> {}, toDisable |-> {}, toReEnable |-> {}]
    /\ newVals = [v \in Validators |-> None]
    /\ prevSet = {}
    /\ enabled = FALSE
    /\ majority = None
    /\ cache = [v \in Validators |-> Unseated]
    /\ changes = 0
    /\ added = newVals
    /\ lastSeen = [v \in Validators |-> Unseen]

Next ==
    \/ StartVotingRound \/ CloseVotingRound \/ StartFlagRound \/ CloseFlagRound
    \/ \E unl \in SUBSET Validators : Self \in unl /\ Cardinality(unl) >= MinTrusted /\ SetTrusted(unl)
    \/ Restart

Spec == Init /\ [][Next]_vars

-----------------------------------------------------------------------------
(* Properties. *)

\* The state is well formed, the ledger's entry among it: no validator is
\* staged for both changes, none is disabled twice, none re-enabled that is
\* not disabled (UNLModify.Apply, and Apply of ledger/negativeunl).
TypeOK ==
    /\ period \in 1 .. Periods
    /\ stage \in {"start_voting", "close_voting", "start_flag", "close_flag"}
    /\ trusted \subseteq Validators /\ prevSet \subseteq Validators
    /\ newVals \in [Validators -> 0 .. Upcoming] /\ added \in [Validators -> 0 .. Upcoming]
    /\ cache \in [Validators -> [timeout : 0 .. FlagClose + VotesTimeout, up : BOOLEAN]]
    /\ lastSeen \in [Validators -> [time : 0 .. FlagClose, up : BOOLEAN]]
    /\ enabled \in BOOLEAN /\ majority \in 0 .. FlagClose
    /\ changes \in 0 .. MaxChanges
    /\ neg \in [disabled : SUBSET Validators, toDisable : Optional(Validators),
               toReEnable : Optional(Validators)]
    /\ neg.toDisable \cap neg.disabled = {} /\ neg.toReEnable \subseteq neg.disabled

\* Everything DoVoting could propose for the ledger being closed, given a
\* score of each trusted validator.
OwnCandidates ==
    {FindAllCandidates(trusted, EffectiveNegUNL(neg), s, New(Purge(newVals, Upcoming))) :
        s \in {t \in [trusted -> Scores] : MayVote(t[Self])}}

\* A proposal is made a ledger before the pending change takes effect: what
\* DoVoting proposes on any scores still applies to the entry as it will be
\* then, the two changes together, and an amendment change always applies.
VotesApply ==
    /\ stage = "close_voting" =>
         LET sle == UpdateNegativeUNL(neg)
         IN  \A c \in OwnCandidates :
               /\ \A d \in c.toDisable : DisableOK(sle, d)
               /\ \A r \in c.toReEnable : ReEnableOK(sle, r)
               /\ \A d \in c.toDisable, r \in c.toReEnable :
                     /\ ReEnableOK(ApplyDisable(sle, {d}), r)
                     /\ DisableOK(ApplyReEnable(sle, {r}), d)
    /\ stage = "close_flag" => \A tx \in Decisions \ {"none"} : AmendmentOK(tx)

Listed == trusted \cap EffectiveNegUNL(neg)

\* A validator first seen newly trusted when ledger a was upcoming is not
\* proposed for disabling through ledger a + 512, whatever rounds Self voted
\* or abstained in and however the trusted set changed (newValidators).
GracePeriod ==
    stage = "close_voting" =>
        \A c \in OwnCandidates : \A v \in c.toDisable :
            added[v] = None \/ Upcoming - added[v] > NewValidatorDisableSkip

\* Voting on the negative UNL never takes the quorum out of reach: when one
\* more of three or more trusted validators is listed, those left can reach
\* the quorum by themselves once every listed one is disabled, and two quorums
\* share a validator (findAllCandidates, computeQuorum).  A change of the
\* trusted set can leave more of it listed than voting would list.
QuorumReachable ==
    [][LET n == Cardinality(trusted)
           quorum == Quorum(trusted, Listed')
       IN  trusted' = trusted /\ n >= 3 /\ Cardinality(Listed') > Cardinality(Listed)
             => quorum <= Cardinality(trusted \ Listed') /\ 2 * quorum > n]_vars

\* When Self tallies amendment votes it counts exactly the latest vote of each
\* trusted validator whose validation it recorded since it started and since
\* it trusts it, at most VotesTimeout ago (trustedVotes).
VotesCounted ==
    [][stage = "close_flag" /\ stage' # stage /\ (\E v \in Validators : lastSeen'[v].time = VotingClose)
         => \A v \in Validators :
              cache'[v] = IF lastSeen'[v].time # None /\ VotingClose - lastSeen'[v].time <= VotesTimeout
                          THEN [timeout |-> lastSeen'[v].time + VotesTimeout, up |-> lastSeen'[v].up]
                          ELSE Unseated]_vars
=============================================================================
