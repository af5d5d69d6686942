-------------------------- MODULE FlagLedgerProofs --------------------------
(***************************************************************************)
(* The properties of FlagLedger, for any validators, any validation        *)
(* counts, any timeouts and any number of periods.                         *)
(***************************************************************************)
EXTENDS FlagLedger, FiniteSetTheorems, TLAPS

\* Leaves without arithmetic are for Zenon, which is the default.
USE Zenon

Stages == {"start_voting", "close_voting", "start_flag", "close_flag"}

Entries == [disabled : SUBSET Validators, toDisable : Optional(Validators),
            toReEnable : Optional(Validators)]

WellFormed(sle) ==
    /\ sle \in Entries
    /\ sle.toDisable \cap sle.disabled = {} /\ sle.toReEnable \subseteq sle.disabled

-----------------------------------------------------------------------------
(* Numbers. *)

\* The ledgers and the close times of a period.
LEMMA Clock ==
    ASSUME period \in Nat \ {0}, stage \in Stages
    PROVE  /\ Upcoming \in Nat /\ Upcoming > 0
           /\ VotingClose \in Nat /\ VotingClose > 1 /\ FlagClose = VotingClose + 1
           /\ Upcoming \in {period * 256, period * 256 + 1}
  BY SMTT(30) DEF Upcoming, VotingClose, FlagClose, Interval, Stages

\* The upcoming ledger and the close time never go back.
LEMMA ClockForward ==
    ASSUME TypeOK, [Next]_vars
    PROVE  /\ period' \in Nat \ {0} /\ stage' \in Stages
           /\ Upcoming' >= Upcoming /\ VotingClose' >= VotingClose
<1>1. period \in Nat \ {0} /\ stage \in Stages
  BY SMTT(30) DEF TypeOK, Stages
<1>2. CASE StartVotingRound \/ StartFlagRound
  BY <1>1, <1>2, SMTT(30) DEF StartVotingRound, StartFlagRound, StartRound, Stages, Upcoming, VotingClose, Interval
<1>3. CASE CloseVotingRound
  BY <1>1, <1>3, SMTT(30) DEF CloseVotingRound, Stages, Upcoming, VotingClose, Interval
<1>4. CASE CloseFlagRound
  BY <1>1, <1>4, SMTT(30) DEF CloseFlagRound, Stages, Upcoming, VotingClose, Interval
<1>5. CASE Restart
  BY <1>1, <1>5, SMTT(30) DEF Restart, Stages, Upcoming, VotingClose, Interval
<1>6. ASSUME NEW unl \in SUBSET Validators, SetTrusted(unl)
      PROVE  period' = period /\ stage' = stage
  BY <1>6 DEF SetTrusted
<1>7. CASE period' = period /\ stage' = stage
  BY <1>1, <1>7, SMTT(30) DEF Stages, Upcoming, VotingClose, Interval
<1> QED
  BY <1>2, <1>3, <1>4, <1>5, <1>6, <1>7 DEF Next, vars

-----------------------------------------------------------------------------
(* The negative UNL entry. *)

\* What is pending takes effect as the vote before it expected.
LEMMA UpdatedEntry ==
    ASSUME NEW sle, WellFormed(sle)
    PROVE  /\ WellFormed(UpdateNegativeUNL(sle))
           /\ UpdateNegativeUNL(sle).disabled = EffectiveNegUNL(sle)
           /\ UpdateNegativeUNL(sle).toDisable = {}
           /\ UpdateNegativeUNL(sle).toReEnable = {}
<1>1. /\ sle.disabled \subseteq Validators
      /\ sle.toDisable \in Optional(Validators) /\ sle.toReEnable \in Optional(Validators)
      /\ sle.toDisable \cap sle.disabled = {} /\ sle.toReEnable \subseteq sle.disabled
  BY DEF WellFormed, Entries
<1>2. sle.toDisable \subseteq Validators
  BY <1>1 DEF Optional
<1>3. {} \in Optional(Validators)
  BY DEF Optional
<1> QED
  BY <1>1, <1>2, <1>3 DEF UpdateNegativeUNL, EffectiveNegUNL, WellFormed, Entries

\* A transaction that disables changes only what is to be disabled, and one
\* that does not apply nothing.
LEMMA DisabledEntry ==
    ASSUME NEW sle, WellFormed(sle), NEW tx \in Optional(Validators)
    PROVE  /\ WellFormed(ApplyDisable(sle, tx))
           /\ ApplyDisable(sle, tx).disabled = sle.disabled
           /\ ApplyDisable(sle, tx).toReEnable = sle.toReEnable
           /\ \/ ApplyDisable(sle, tx).toDisable = sle.toDisable
              \/ ApplyDisable(sle, tx).toDisable = tx
<1> DEFINE new == [sle EXCEPT !.toDisable = tx]
<1>1. sle \in Entries
  BY DEF WellFormed
<1>2. /\ new \in Entries /\ new.disabled = sle.disabled
      /\ new.toReEnable = sle.toReEnable /\ new.toDisable = tx
  BY <1>1 DEF Entries
<1>3. CASE \E v \in tx : DisableOK(sle, v)
  <2>1. tx \cap sle.disabled = {}
    BY <1>3 DEF DisableOK, Optional
  <2>2. ApplyDisable(sle, tx) = new
    BY <1>3 DEF ApplyDisable
  <2> HIDE DEF new
  <2> QED
    BY <1>2, <2>1, <2>2 DEF WellFormed
<1>4. CASE ~\E v \in tx : DisableOK(sle, v)
  BY <1>4 DEF ApplyDisable
<1> QED
  BY <1>3, <1>4

\* The same for a transaction that re-enables.
LEMMA ReEnabledEntry ==
    ASSUME NEW sle, WellFormed(sle), NEW tx \in Optional(Validators)
    PROVE  /\ WellFormed(ApplyReEnable(sle, tx))
           /\ ApplyReEnable(sle, tx).disabled = sle.disabled
           /\ ApplyReEnable(sle, tx).toDisable = sle.toDisable
           /\ \/ ApplyReEnable(sle, tx).toReEnable = sle.toReEnable
              \/ ApplyReEnable(sle, tx).toReEnable = tx
<1> DEFINE new == [sle EXCEPT !.toReEnable = tx]
<1>1. sle \in Entries
  BY DEF WellFormed
<1>2. /\ new \in Entries /\ new.disabled = sle.disabled
      /\ new.toDisable = sle.toDisable /\ new.toReEnable = tx
  BY <1>1 DEF Entries
<1>3. CASE \E v \in tx : ReEnableOK(sle, v)
  <2>1. tx \subseteq sle.disabled
    BY <1>3 DEF ReEnableOK, Optional
  <2>2. ApplyReEnable(sle, tx) = new
    BY <1>3 DEF ApplyReEnable
  <2> HIDE DEF new
  <2> QED
    BY <1>2, <2>1, <2>2 DEF WellFormed
<1>4. CASE ~\E v \in tx : ReEnableOK(sle, v)
  BY <1>4 DEF ApplyReEnable
<1> QED
  BY <1>3, <1>4

\* Whom a vote may name: those to disable are not listed, and may be added to
\* the list; those to re-enable are listed.
LEMMA Candidates ==
    ASSUME NEW unl, NEW negUNL, NEW score, NEW new
    PROVE  LET c == FindAllCandidates(unl, negUNL, score, new)
           IN  /\ \A v \in c.toDisable :
                     /\ v \in unl /\ v \notin negUNL /\ v \notin new
                     /\ Cardinality(unl \cap negUNL) < MaxListed(unl)
               /\ c.toReEnable \subseteq negUNL
  BY DEF FindAllCandidates

\* The next entry: what was pending took effect, and at most one validator
\* that may be added to the list is staged.
LEMMA NextEntry ==
    ASSUME TypeOK, CloseVotingRound
    PROVE  /\ WellFormed(neg')
           /\ neg'.disabled = EffectiveNegUNL(neg)
           /\ \/ neg'.toDisable = {}
              \/ \E v \in trusted :
                    /\ neg'.toDisable = {v}
                    /\ Cardinality(Listed) < MaxListed(trusted)
<1>1. WellFormed(neg) /\ trusted \subseteq Validators
  BY DEF TypeOK, WellFormed, Entries
<1>2. PICK d \in Optional(Proposable.toDisable), r \in Optional(Proposable.toReEnable) :
        neg' = ApplyReEnable(ApplyDisable(UpdateNegativeUNL(neg), d), r)
  BY DEF CloseVotingRound
<1>3. ASSUME NEW v \in Proposable.toDisable
      PROVE  v \in trusted /\ Cardinality(Listed) < MaxListed(trusted)
  <2>1. PICK s \in [trusted -> Scores] :
          v \in FindAllCandidates(trusted, EffectiveNegUNL(neg), s, {}).toDisable
    BY <1>3 DEF Proposable
  <2> QED
    BY <2>1, Candidates DEF Listed
<1>4. ASSUME NEW v \in Proposable.toReEnable
      PROVE  v \in EffectiveNegUNL(neg)
  <2>1. PICK s \in [trusted -> Scores] :
          v \in FindAllCandidates(trusted, EffectiveNegUNL(neg), s, {}).toReEnable
    BY <1>4 DEF Proposable
  <2> QED
    BY <2>1, Candidates
<1>5. EffectiveNegUNL(neg) \subseteq Validators
  BY <1>1 DEF WellFormed, Entries, Optional, EffectiveNegUNL
<1>6. d \in Optional(Validators) /\ r \in Optional(Validators)
  BY <1>1, <1>3, <1>4, <1>5 DEF Optional
<1> DEFINE a == UpdateNegativeUNL(neg)
           b == ApplyDisable(a, d)
<1>7. WellFormed(a) /\ a.disabled = EffectiveNegUNL(neg) /\ a.toDisable = {}
  BY <1>1, UpdatedEntry
<1> HIDE DEF a
<1>8. WellFormed(b) /\ b.disabled = a.disabled /\ (b.toDisable = {} \/ b.toDisable = d)
  BY <1>6, <1>7, DisabledEntry
<1>9. neg' = ApplyReEnable(b, r)
  BY <1>2 DEF a
<1> HIDE DEF b
<1>10. /\ WellFormed(neg') /\ neg'.disabled = b.disabled /\ neg'.toDisable = b.toDisable
  BY <1>6, <1>8, <1>9, ReEnabledEntry
<1> QED
  BY <1>3, <1>7, <1>8, <1>10 DEF Optional

-----------------------------------------------------------------------------
(* Types. *)

\* What the typing of the other variables asks of a step, given the clock.
LEMMA TypedStep ==
    ASSUME TypeOK, [Next]_vars, period' <= Periods,
           trusted' \subseteq Validators, prevSet' \subseteq Validators,
           newVals' \in [Validators -> 0 .. Upcoming'],
           added' \in [Validators -> 0 .. Upcoming'],
           cache' \in [Validators -> [timeout : 0 .. FlagClose' + VotesTimeout, up : BOOLEAN]],
           lastSeen' \in [Validators -> [time : 0 .. FlagClose', up : BOOLEAN]],
           enabled' \in BOOLEAN, majority' \in 0 .. FlagClose',
           changes' \in 0 .. MaxChanges, WellFormed(neg')
    PROVE  TypeOK'
<1>1. period' \in 1 .. Periods /\ stage' \in Stages
  BY ClockForward, FlagAssumption, SMTT(30)
<1> QED
  BY <1>1 DEF TypeOK, Stages, WellFormed, Entries

\* A variable that a step leaves alone keeps its type while the clock moves.
LEMMA TypeFrame ==
    ASSUME TypeOK, [Next]_vars
    PROVE  /\ newVals \in [Validators -> 0 .. Upcoming']
           /\ added \in [Validators -> 0 .. Upcoming']
           /\ cache \in [Validators -> [timeout : 0 .. FlagClose' + VotesTimeout, up : BOOLEAN]]
           /\ lastSeen \in [Validators -> [time : 0 .. FlagClose', up : BOOLEAN]]
           /\ majority \in 0 .. FlagClose' /\ FlagClose \in 0 .. FlagClose'
           /\ VotingClose \in 0 .. FlagClose' /\ WellFormed(neg)
           /\ VotingClose + VotesTimeout \in 0 .. FlagClose' + VotesTimeout
           /\ 0 \in 0 .. FlagClose' /\ 0 \in 0 .. FlagClose' + VotesTimeout /\ 0 \in 0 .. Upcoming'
           /\ FlagClose' + VotesTimeout \in Nat /\ Upcoming' \in Nat
<1>1. period \in Nat \ {0} /\ stage \in Stages
  BY SMTT(30) DEF TypeOK, Stages
<1>2. /\ Upcoming \in Nat /\ VotingClose \in Nat /\ FlagClose = VotingClose + 1
  BY <1>1, Clock
<1>3. /\ Upcoming' \in Nat /\ VotingClose' \in Nat /\ FlagClose' = VotingClose' + 1
      /\ Upcoming' >= Upcoming /\ VotingClose' >= VotingClose
  <2>1. period' \in Nat /\ Upcoming' >= Upcoming /\ VotingClose' >= VotingClose
    BY ClockForward
  <2>2. Upcoming' = period' * 256 \/ Upcoming' = period' * 256 + 1
    BY DEF Upcoming, Interval
  <2>3. VotingClose' = 2 * period' /\ FlagClose' = 2 * period' + 1
    BY DEF VotingClose, FlagClose
  <2>4. Upcoming' \in Nat
    BY <2>1, <2>2, SMTT(30)
  <2>5. VotingClose' \in Nat
    <3>1. \A p \in Nat : 2 * p \in Nat
      BY SMTT(30)
    <3>2. period' \in Nat
      BY <2>1
    <3> QED
      BY <3>1, <3>2 DEF VotingClose
  <2>6. FlagClose' = VotingClose' + 1
    BY <2>3
  <2> QED
    BY <2>1, <2>4, <2>5, <2>6
<1>4. VotesTimeout \in Nat
  BY FlagAssumption
<1>5. 0 \in 0 .. Upcoming' /\ \A x \in 0 .. Upcoming : x \in 0 .. Upcoming'
  BY <1>2, <1>3, SMTT(30)
<1>6. /\ \A x \in 0 .. FlagClose : x \in 0 .. FlagClose'
      /\ \A x \in 0 .. FlagClose + VotesTimeout : x \in 0 .. FlagClose' + VotesTimeout
      /\ FlagClose \in 0 .. FlagClose' /\ VotingClose \in 0 .. FlagClose'
      /\ VotingClose + VotesTimeout \in 0 .. FlagClose' + VotesTimeout
      /\ 0 \in 0 .. FlagClose' /\ 0 \in 0 .. FlagClose' + VotesTimeout
      /\ FlagClose' + VotesTimeout \in Nat
  <2> DEFINE a == VotingClose
             b == VotingClose'
  <2>1. a \in Nat /\ b \in Nat /\ a <= b /\ FlagClose = a + 1 /\ FlagClose' = b + 1
    BY <1>2, <1>3
  <2> HIDE DEF a, b
  <2>2. /\ \A x \in 0 .. a + 1 : x \in 0 .. b + 1
        /\ \A x \in 0 .. a + 1 + VotesTimeout : x \in 0 .. b + 1 + VotesTimeout
        /\ a + 1 \in 0 .. b + 1 /\ a \in 0 .. b + 1
        /\ a + VotesTimeout \in 0 .. b + 1 + VotesTimeout
        /\ 0 \in 0 .. b + 1 /\ 0 \in 0 .. b + 1 + VotesTimeout /\ b + 1 + VotesTimeout \in Nat
    BY <2>1, <1>4, SMTT(30)
  <2> QED
    BY <2>1, <2>2 DEF a
<1>7. /\ newVals \in [Validators -> 0 .. Upcoming'] /\ added \in [Validators -> 0 .. Upcoming']
  BY <1>5 DEF TypeOK
<1>8. cache \in [Validators -> [timeout : 0 .. FlagClose' + VotesTimeout, up : BOOLEAN]]
  BY <1>6 DEF TypeOK
<1>9. lastSeen \in [Validators -> [time : 0 .. FlagClose', up : BOOLEAN]]
  BY <1>6 DEF TypeOK
<1> QED
  BY <1>3, <1>5, <1>6, <1>7, <1>8, <1>9 DEF TypeOK, WellFormed, Entries

\* A round that starts stamps the newly trusted with the upcoming ledger.
LEMMA StartTyped ==
    ASSUME TypeOK, StartVotingRound \/ StartFlagRound
    PROVE  TypeOK'
<1>1. [Next]_vars
  BY DEF Next
<1>2. /\ DriveNewValidators /\ Upcoming' = Upcoming
      /\ UNCHANGED <<period, trusted, neg, enabled, majority, cache, changes, lastSeen>>
  BY DEF StartVotingRound, StartFlagRound, StartRound, Upcoming
<1>3. Upcoming \in 0 .. Upcoming'
  BY <1>2, Clock, SMTT(30) DEF TypeOK, Stages
<1>4. /\ newVals' \in [Validators -> 0 .. Upcoming'] /\ added' \in [Validators -> 0 .. Upcoming']
      /\ prevSet' = trusted
  BY <1>1, <1>2, <1>3, TypeFrame DEF DriveNewValidators
<1>5. /\ period' <= Periods /\ trusted \subseteq Validators /\ enabled \in BOOLEAN
      /\ changes \in 0 .. MaxChanges
  BY <1>2, FlagAssumption, SMTT(30) DEF TypeOK
<1> QED
  BY <1>1, <1>2, <1>4, <1>5, TypeFrame, TypedStep

\* A purge only forgets.
LEMMA PurgeTyped ==
    ASSUME NEW new, NEW n \in Nat, NEW seq \in Nat, new \in [Validators -> 0 .. n]
    PROVE  /\ Purge(new, seq) \in [Validators -> 0 .. n]
           /\ \A v \in Validators :
                 \/ Purge(new, seq)[v] = new[v]
                 \/ Purge(new, seq)[v] = None /\ seq - new[v] > 512
  BY SMTT(30) DEF Purge, None, NewValidatorDisableSkip, Interval

LEMMA CloseVotingTyped ==
    ASSUME TypeOK, CloseVotingRound
    PROVE  TypeOK'
<1>1. [Next]_vars
  BY DEF Next
<1>2. UNCHANGED <<period, trusted, prevSet, enabled, majority, cache, changes, added, lastSeen>>
  BY DEF CloseVotingRound
<1>3. newVals' = newVals \/ newVals' = Purge(newVals, Upcoming)
  BY DEF CloseVotingRound
<1>4. Upcoming \in Nat /\ Upcoming' \in Nat
  BY <1>2, Clock, SMTT(30) DEF TypeOK, Stages, CloseVotingRound, Upcoming, Interval
<1>5. newVals' \in [Validators -> 0 .. Upcoming']
  BY <1>1, <1>3, <1>4, TypeFrame, PurgeTyped, SMTT(30)
<1>6. /\ period' <= Periods /\ trusted \subseteq Validators /\ enabled \in BOOLEAN
      /\ changes \in 0 .. MaxChanges /\ prevSet \subseteq Validators
  BY <1>2, FlagAssumption, SMTT(30) DEF TypeOK
<1> QED
  BY <1>1, <1>2, <1>5, <1>6, TypeFrame, TypedStep, NextEntry

\* The votes new that ballots of signers at a time make of the votes c.
VotesOf(new, c, time, signers, ballots) ==
    /\ \A v \in signers : new[v] = [timeout |-> time + VotesTimeout, up |-> ballots[v]]
    /\ \A v \in Validators \ signers :
          new[v] = IF c[v].timeout # None /\ time > c[v].timeout THEN Unseated ELSE c[v]

\* What recordVotes leaves of each validator's vote.
LEMMA RecordedVotes ==
    ASSUME NEW n \in Nat, NEW c, c \in [Validators -> [timeout : 0 .. n, up : BOOLEAN]],
           NEW time \in Nat, time + VotesTimeout \in 0 .. n,
           NEW signers \in SUBSET Validators, NEW ballots \in [signers -> BOOLEAN]
    PROVE  /\ RecordVotes(c, time, ballots) \in [Validators -> [timeout : 0 .. n, up : BOOLEAN]]
           /\ VotesOf(RecordVotes(c, time, ballots), c, time, signers, ballots)
<1> DEFINE seated == [v \in Validators |->
              IF v \in DOMAIN ballots
              THEN [timeout |-> time + VotesTimeout, up |-> ballots[v]] ELSE c[v]]
           new == RecordVotes(c, time, ballots)
<1>1. VotesTimeout \in Nat /\ DOMAIN ballots = signers
  BY FlagAssumption
<1>2. new = [v \in Validators |-> IF seated[v].timeout # None /\ time > seated[v].timeout
                                  THEN Unseated ELSE seated[v]]
  BY DEF RecordVotes
<1>3. ASSUME NEW v \in signers
      PROVE  seated[v] = [timeout |-> time + VotesTimeout, up |-> ballots[v]] /\ v \in Validators
  BY <1>1
<1>4. ASSUME NEW v \in Validators \ signers
      PROVE  seated[v] = c[v]
  BY <1>1
<1> HIDE DEF seated, new
<1>5. ASSUME NEW v \in signers
      PROVE  new[v] = [timeout |-> time + VotesTimeout, up |-> ballots[v]]
  <2>1. seated[v].timeout = time + VotesTimeout
    <3> DEFINE t == time + VotesTimeout
    <3>1. seated[v] = [timeout |-> t, up |-> ballots[v]]
      BY <1>3
    <3> HIDE DEF t
    <3>2. seated[v].timeout = t
      BY <3>1, SMTT(30)
    <3> QED
      BY <3>2 DEF t
  <2>2. ~(time > time + VotesTimeout)
    BY <1>1, SMTT(30)
  <2> QED
    BY <1>2, <1>3, <2>1, <2>2
<1>6. ASSUME NEW v \in Validators \ signers
      PROVE  new[v] = IF c[v].timeout # None /\ time > c[v].timeout THEN Unseated ELSE c[v]
  BY <1>2, <1>4
<1>7. ASSUME NEW v \in Validators
      PROVE  new[v] \in [timeout : 0 .. n, up : BOOLEAN]
  <2>1. CASE v \in signers
    <3> DEFINE t == time + VotesTimeout
    <3>1. t \in 0 .. n /\ new[v] = [timeout |-> t, up |-> ballots[v]] /\ ballots[v] \in BOOLEAN
      BY <1>5, <2>1
    <3> HIDE DEF t
    <3> QED
      BY <3>1, SMTT(30)
  <2>2. CASE v \notin signers
    <3>1. c[v] \in [timeout : 0 .. n, up : BOOLEAN] /\ Unseated \in [timeout : 0 .. n, up : BOOLEAN]
      BY SMTT(30) DEF Unseated, None
    <3> QED
      BY <1>6, <2>2, <3>1
  <2> QED
    BY <2>1, <2>2
<1>8. new \in [Validators -> [timeout : 0 .. n, up : BOOLEAN]]
  <2>1. /\ DOMAIN new = Validators
        /\ new = [v \in Validators |-> new[v]]
    BY <1>2
  <2> QED
    BY <1>7, <2>1
<1>9. VotesOf(new, c, time, signers, ballots)
  BY <1>5, <1>6 DEF VotesOf
<1> QED
  BY <1>8, <1>9 DEF new

\* Ballots that are recorded: who signed and how.
LEMMA Recorded ==
    ASSUME TypeOK, RecordBallots
    PROVE  \E signers \in SUBSET Validators : \E ballots \in [signers -> BOOLEAN] :
              /\ cache' = RecordVotes(cache, VotingClose, ballots)
              /\ lastSeen' = [v \in Validators |-> IF v \in signers
                    THEN [time |-> VotingClose, up |-> ballots[v]] ELSE lastSeen[v]]
<1>1. trusted \ neg.disabled \subseteq Validators
  BY DEF TypeOK
<1> QED
  BY <1>1 DEF RecordBallots

LEMMA CloseFlagTyped ==
    ASSUME TypeOK, CloseFlagRound
    PROVE  TypeOK'
<1>1. [Next]_vars
  BY DEF Next
<1>2. UNCHANGED <<trusted, neg, newVals, prevSet, changes, added>>
  BY DEF CloseFlagRound
<1>3. period' <= Periods
  BY FlagAssumption, SMTT(30) DEF CloseFlagRound, TypeOK
<1>4. /\ trusted \subseteq Validators /\ prevSet \subseteq Validators
      /\ changes \in 0 .. MaxChanges /\ enabled \in BOOLEAN
  BY DEF TypeOK
<1>5. enabled' \in BOOLEAN /\ majority' \in 0 .. FlagClose'
  <2>1. FlagClose \in 0 .. FlagClose' /\ None \in 0 .. FlagClose' /\ majority \in 0 .. FlagClose'
    BY <1>1, TypeFrame DEF None
  <2>2. \/ enabled' = enabled /\ majority' = majority
        \/ enabled' \in BOOLEAN /\ majority' = FlagClose
        \/ enabled' \in BOOLEAN /\ majority' = None
    BY DEF CloseFlagRound
  <2> QED
    BY <1>4, <2>1, <2>2
<1> DEFINE top == FlagClose' + VotesTimeout
<1>6. /\ cache' \in [Validators -> [timeout : 0 .. top, up : BOOLEAN]]
      /\ lastSeen' \in [Validators -> [time : 0 .. FlagClose', up : BOOLEAN]]
  <2>1. CASE UNCHANGED <<cache, lastSeen>>
    BY <1>1, <2>1, TypeFrame
  <2>2. CASE RecordBallots
    <3>0. PICK signers \in SUBSET Validators : \E ballots \in [signers -> BOOLEAN] :
              /\ cache' = RecordVotes(cache, VotingClose, ballots)
              /\ lastSeen' = [v \in Validators |-> IF v \in signers
                    THEN [time |-> VotingClose, up |-> ballots[v]] ELSE lastSeen[v]]
      BY <2>2, Recorded
    <3>1. PICK ballots \in [signers -> BOOLEAN] :
              /\ cache' = RecordVotes(cache, VotingClose, ballots)
              /\ lastSeen' = [v \in Validators |-> IF v \in signers
                    THEN [time |-> VotingClose, up |-> ballots[v]] ELSE lastSeen[v]]
      BY <3>0
    <3>2. /\ VotingClose \in Nat /\ VotingClose \in 0 .. FlagClose'
          /\ VotingClose + VotesTimeout \in 0 .. top
          /\ cache \in [Validators -> [timeout : 0 .. top, up : BOOLEAN]]
          /\ lastSeen \in [Validators -> [time : 0 .. FlagClose', up : BOOLEAN]]
      BY <1>1, TypeFrame, Clock, SMTT(30) DEF TypeOK, Stages
    <3>3. top \in Nat
      BY <1>1, TypeFrame
    <3> HIDE DEF top
    <3>4. cache' \in [Validators -> [timeout : 0 .. top, up : BOOLEAN]]
      BY <3>1, <3>2, <3>3, RecordedVotes
    <3>5. lastSeen' \in [Validators -> [time : 0 .. FlagClose', up : BOOLEAN]]
      BY <3>1, <3>2
    <3> QED
      BY <3>4, <3>5
  <2> QED
    BY <2>1, <2>2 DEF CloseFlagRound
<1> QED
  BY <1>1, <1>2, <1>3, <1>4, <1>5, <1>6, TypeFrame, TypedStep

\* Trust changes and restarts are counted up to their bound.
LEMMA Counted ==
    ASSUME NEW n \in 0 .. MaxChanges, n < MaxChanges
    PROVE  n + 1 \in 0 .. MaxChanges
  BY FlagAssumption, SMTT(30)

LEMMA SetTrustedTyped ==
    ASSUME TypeOK, NEW unl \in SUBSET Validators, Self \in unl,
           Cardinality(unl) >= MinTrusted, SetTrusted(unl)
    PROVE  TypeOK'
<1>1. [Next]_vars
  BY DEF Next
<1>2. /\ UNCHANGED <<period, stage, neg, newVals, prevSet, enabled, majority, added>>
      /\ trusted' = unl /\ changes' \in 0 .. MaxChanges
  BY Counted DEF SetTrusted, TypeOK
<1> DEFINE top == FlagClose' + VotesTimeout
<1>3. /\ cache \in [Validators -> [timeout : 0 .. top, up : BOOLEAN]]
      /\ lastSeen \in [Validators -> [time : 0 .. FlagClose', up : BOOLEAN]]
      /\ 0 \in 0 .. top /\ 0 \in 0 .. FlagClose'
  BY <1>1, TypeFrame
<1> HIDE DEF top
<1>4. cache' \in [Validators -> [timeout : 0 .. top, up : BOOLEAN]]
  BY <1>3 DEF SetTrusted, Unseated, None
<1>5. lastSeen' \in [Validators -> [time : 0 .. FlagClose', up : BOOLEAN]]
  BY <1>3 DEF SetTrusted, Unseen, None
<1>6. period' <= Periods /\ prevSet \subseteq Validators /\ enabled \in BOOLEAN
  BY <1>2, FlagAssumption, SMTT(30) DEF TypeOK
<1> QED
  BY <1>1, <1>2, <1>4, <1>5, <1>6, TypeFrame, TypedStep DEF top

LEMMA RestartTyped ==
    ASSUME TypeOK, Restart
    PROVE  TypeOK'
<1>1. [Next]_vars
  BY DEF Next
<1>2. /\ UNCHANGED <<period, trusted, neg, enabled, majority>>
      /\ prevSet' = {} /\ changes' \in 0 .. MaxChanges
  BY Counted DEF Restart, TypeOK
<1> DEFINE top == FlagClose' + VotesTimeout
<1>3. 0 \in 0 .. top /\ 0 \in 0 .. FlagClose' /\ 0 \in 0 .. Upcoming'
  BY <1>1, TypeFrame
<1> HIDE DEF top
<1>4. /\ cache' \in [Validators -> [timeout : 0 .. top, up : BOOLEAN]]
      /\ lastSeen' \in [Validators -> [time : 0 .. FlagClose', up : BOOLEAN]]
  BY <1>3 DEF Restart, Unseated, Unseen, None
<1>5. /\ newVals' \in [Validators -> 0 .. Upcoming'] /\ added' \in [Validators -> 0 .. Upcoming']
  BY <1>3 DEF Restart, None
<1>6. period' <= Periods /\ trusted \subseteq Validators /\ enabled \in BOOLEAN
  BY <1>2, FlagAssumption, SMTT(30) DEF TypeOK
<1> QED
  BY <1>1, <1>2, <1>4, <1>5, <1>6, TypeFrame, TypedStep DEF top

LEMMA InitTyped ==
    ASSUME Init
    PROVE  TypeOK
<1>1. period = 1 /\ stage = "start_voting"
  BY DEF Init
<1>2. Upcoming = 256 /\ FlagClose = 3
  BY <1>1, SMTT(30) DEF Upcoming, FlagClose, Interval
<1>3. 0 \in 0 .. FlagClose + VotesTimeout /\ 0 \in 0 .. FlagClose /\ 0 \in 0 .. Upcoming
  BY <1>2, FlagAssumption, SMTT(30)
<1>4. /\ newVals \in [Validators -> 0 .. Upcoming] /\ added \in [Validators -> 0 .. Upcoming]
  BY <1>3 DEF Init, None
<1>5. /\ cache \in [Validators -> [timeout : 0 .. FlagClose + VotesTimeout, up : BOOLEAN]]
      /\ lastSeen \in [Validators -> [time : 0 .. FlagClose, up : BOOLEAN]]
  BY <1>3 DEF Init, Unseated, Unseen, None
<1>6. /\ neg \in Entries /\ neg.toDisable \cap neg.disabled = {} /\ neg.toReEnable \subseteq neg.disabled
  BY DEF Init, Entries, Optional
<1>7. /\ period \in 1 .. Periods /\ majority \in 0 .. FlagClose /\ changes \in 0 .. MaxChanges
  BY <1>2, FlagAssumption, SMTT(30) DEF Init, None
<1> QED
  BY <1>4, <1>5, <1>6, <1>7 DEF TypeOK, Init, Entries

LEMMA TypeStep ==
    ASSUME TypeOK, [Next]_vars
    PROVE  TypeOK'
<1>1. CASE UNCHANGED vars
  BY <1>1 DEF vars, TypeOK, Upcoming, FlagClose
<1> QED
  BY <1>1, StartTyped, CloseVotingTyped, CloseFlagTyped, SetTrustedTyped, RestartTyped DEF Next

\* Every step keeps the ledger's entry and the caches well formed: no
\* validator is staged for both changes, and only a disabled one is staged
\* for re-enabling (UNLModify.Apply, negativeunl.Apply).
THEOREM TypeCorrect == Spec => []TypeOK
  BY InitTyped, TypeStep, PTL DEF Spec

-----------------------------------------------------------------------------
(* Grace periods. *)

\* A grace period that was forgotten is over, one that was renewed is longer,
\* and there is none for a validator that was never seen newly trusted.
GraceInv ==
    \A v \in Validators :
        /\ newVals[v] # None => added[v] # None /\ newVals[v] >= added[v]
        /\ newVals[v] = None /\ added[v] # None => Upcoming - added[v] > NewValidatorDisableSkip

\* A step that leaves the grace periods alone lets them run out.
LEMMA GraceFrame ==
    ASSUME TypeOK, GraceInv, [Next]_vars, UNCHANGED <<newVals, added>>
    PROVE  GraceInv'
<1>1. Upcoming \in Nat /\ Upcoming' \in Nat /\ Upcoming' >= Upcoming
  <2>1. Upcoming \in Nat
    BY Clock, SMTT(30) DEF TypeOK, Stages
  <2>2. Upcoming' \in Nat
    BY TypeFrame
  <2> QED
    BY <2>1, <2>2, ClockForward
<1>2. ASSUME NEW v \in Validators, Upcoming - added[v] > NewValidatorDisableSkip
      PROVE  Upcoming' - added[v] > NewValidatorDisableSkip
  <2>1. added[v] \in Nat
    BY SMTT(30) DEF TypeOK
  <2> QED
    BY <1>1, <1>2, <2>1, SMTT(30) DEF NewValidatorDisableSkip, Interval
<1> QED
  BY <1>2 DEF GraceInv

LEMMA GraceStep ==
    ASSUME TypeOK, GraceInv, [Next]_vars
    PROVE  GraceInv'
<1> DEFINE up == Upcoming
<1>1. up \in Nat /\ up > 0
  BY Clock, SMTT(30) DEF TypeOK, Stages
<1>2. \A v \in Validators : newVals[v] \in 0 .. up /\ added[v] \in 0 .. up
  BY DEF TypeOK
<1>3. CASE StartVotingRound \/ StartFlagRound
  <2>1. DriveNewValidators /\ Upcoming' = up
    BY <1>3 DEF StartVotingRound, StartFlagRound, StartRound, Upcoming
  <2>2. PICK fresh : \A v \in Validators :
          /\ newVals'[v] = IF v \in fresh /\ newVals[v] = None THEN up ELSE newVals[v]
          /\ added'[v] = IF v \in fresh /\ added[v] = None THEN up ELSE added[v]
    BY <2>1 DEF DriveNewValidators
  <2> HIDE DEF up
  <2>3. ASSUME NEW v \in Validators
        PROVE  /\ newVals'[v] # None => added'[v] # None /\ newVals'[v] >= added'[v]
               /\ newVals'[v] = None /\ added'[v] # None => up - added'[v] > NewValidatorDisableSkip
    <3>1. /\ newVals[v] # None => added[v] # None /\ newVals[v] >= added[v]
          /\ newVals[v] = None /\ added[v] # None => up - added[v] > NewValidatorDisableSkip
      BY DEF GraceInv, up
    <3> QED
      BY <1>1, <1>2, <2>2, <3>1, SMTT(30) DEF None
  <2> QED
    BY <2>1, <2>3 DEF GraceInv
<1>4. CASE CloseVotingRound
  <2>1. added' = added /\ (newVals' = newVals \/ newVals' = Purge(newVals, up))
    BY <1>4 DEF CloseVotingRound
  <2>2. Upcoming' = up + 1
    <3>1. stage = "close_voting" /\ stage' = "start_flag" /\ period' = period
      BY <1>4 DEF CloseVotingRound
    <3>2. up = period * Interval
      BY <3>1 DEF Upcoming
    <3>3. Upcoming' = period' * Interval + 1
      BY <3>1 DEF Upcoming
    <3> QED
      BY <3>1, <3>2, <3>3
  <2>5. Upcoming' \in Nat
    BY TypeFrame
  <2> HIDE DEF up
  <2>6. \A x \in Nat : up - x > 512 => Upcoming' - x > 512
    <3> DEFINE next == Upcoming'
    <3>1. next \in Nat /\ next = up + 1
      BY <2>2, <2>5
    <3> HIDE DEF next
    <3>2. \A x \in Nat : up - x > 512 => next - x > 512
      BY <1>1, <3>1, SMTT(30)
    <3> QED
      BY <3>2 DEF next
  <2>3. ASSUME NEW v \in Validators
        PROVE  newVals'[v] = newVals[v] \/ (newVals'[v] = None /\ up - newVals[v] > 512)
    <3>1. newVals \in [Validators -> 0 .. up]
      BY DEF TypeOK, up
    <3>2. \/ Purge(newVals, up)[v] = newVals[v]
          \/ Purge(newVals, up)[v] = None /\ up - newVals[v] > 512
      BY <1>1, <3>1, PurgeTyped
    <3> QED
      BY <2>1, <3>2
  <2>4. ASSUME NEW v \in Validators
        PROVE  /\ newVals'[v] # None => added'[v] # None /\ newVals'[v] >= added'[v]
               /\ newVals'[v] = None /\ added'[v] # None => Upcoming' - added'[v] > NewValidatorDisableSkip
    <3>1. /\ newVals[v] # None => added[v] # None /\ newVals[v] >= added[v]
          /\ newVals[v] = None /\ added[v] # None => up - added[v] > NewValidatorDisableSkip
      BY DEF GraceInv, up
    <3>2. newVals[v] \in Nat /\ added[v] \in Nat /\ NewValidatorDisableSkip = 512
      BY <1>2, SMTT(30) DEF NewValidatorDisableSkip, Interval
    <3>3. CASE newVals'[v] = newVals[v]
      BY <2>1, <2>6, <3>1, <3>2, <3>3, SMTT(30)
    <3>4. CASE newVals'[v] = None /\ up - newVals[v] > 512
      <4>1. added[v] = None \/ up - added[v] > 512
        BY <1>1, <3>1, <3>2, <3>4, SMTT(30)
      <4> QED
        BY <2>1, <2>6, <3>2, <3>4, <4>1
    <3> QED
      BY <2>3, <3>3, <3>4
  <2> QED
    BY <2>4 DEF GraceInv
<1>5. CASE Restart
  BY <1>5 DEF Restart, GraceInv
<1>6. CASE CloseFlagRound
  BY <1>6, GraceFrame DEF CloseFlagRound
<1>7. ASSUME NEW unl \in SUBSET Validators, SetTrusted(unl)
      PROVE  GraceInv'
  BY <1>7, GraceFrame DEF SetTrusted
<1>8. CASE UNCHANGED vars
  BY <1>8, GraceFrame DEF vars
<1> QED
  BY <1>3, <1>4, <1>5, <1>6, <1>7, <1>8 DEF Next

\* Whom Self may propose to disable is not in a grace period that remains.
LEMMA OwnCandidate ==
    ASSUME NEW c \in OwnCandidates
    PROVE  /\ \A v \in c.toDisable :
                 /\ v \in trusted /\ v \notin EffectiveNegUNL(neg)
                 /\ v \notin New(Purge(newVals, Upcoming))
           /\ c.toReEnable \subseteq EffectiveNegUNL(neg)
<1>1. PICK s : c = FindAllCandidates(trusted, EffectiveNegUNL(neg), s, New(Purge(newVals, Upcoming)))
  BY DEF OwnCandidates
<1> QED
  BY <1>1 DEF FindAllCandidates

\* A validator that was newly trusted when ledger a was upcoming is not
\* proposed for disabling through ledger a + 512, whatever rounds Self voted
\* or abstained in and however often the trusted set changed
\* (newValidators, purgeNewValidators).
THEOREM GraceCorrect == Spec => []GracePeriod
<1>1. Init => GraceInv
  BY DEF Init, GraceInv
<1>2. TypeOK /\ GraceInv /\ [Next]_vars => GraceInv'
  BY GraceStep
<1>3. TypeOK /\ GraceInv => GracePeriod
  <2> SUFFICES ASSUME TypeOK, GraceInv, NEW c \in OwnCandidates, NEW v \in c.toDisable,
                      added[v] # None
               PROVE  Upcoming - added[v] > NewValidatorDisableSkip
    BY DEF GracePeriod
  <2>1. v \in Validators /\ v \notin New(Purge(newVals, Upcoming))
    BY OwnCandidate DEF TypeOK
  <2>2. Purge(newVals, Upcoming)[v] = None
    BY <2>1 DEF New
  <2>3. Upcoming \in Nat /\ newVals[v] \in Nat /\ added[v] \in Nat
    BY <2>1, Clock, SMTT(30) DEF TypeOK, Stages
  <2>4. newVals[v] = None \/ Upcoming - newVals[v] > NewValidatorDisableSkip
    BY <2>1, <2>2 DEF Purge
  <2>5. /\ newVals[v] # None => newVals[v] >= added[v]
        /\ newVals[v] = None => Upcoming - added[v] > NewValidatorDisableSkip
    BY <2>1 DEF GraceInv
  <2> QED
    BY <2>3, <2>4, <2>5, SMTT(30) DEF NewValidatorDisableSkip, Interval
<1> QED
  BY <1>1, <1>2, <1>3, TypeCorrect, PTL DEF Spec

-----------------------------------------------------------------------------
(* What is voted applies. *)

\* What DoVoting proposes, on any scores, applies to the entry that the
\* pending change will have left, both proposals together; and what Decide
\* proposes is never refused (UNLModify.Apply, EnableAmendment.Apply).
THEOREM ApplyCorrect == Spec => []VotesApply
<1>1. TypeOK => VotesApply
  <2> SUFFICES ASSUME TypeOK PROVE VotesApply
    OBVIOUS
  <2> DEFINE sle == UpdateNegativeUNL(neg)
             listed == EffectiveNegUNL(neg)
  <2>1. ASSUME NEW c \in OwnCandidates
        PROVE  /\ \A d \in c.toDisable : DisableOK(sle, d)
               /\ \A r \in c.toReEnable : ReEnableOK(sle, r)
               /\ \A d \in c.toDisable, r \in c.toReEnable :
                     /\ ReEnableOK(ApplyDisable(sle, {d}), r)
                     /\ DisableOK(ApplyReEnable(sle, {r}), d)
    <3>1. /\ WellFormed(sle) /\ sle.disabled = listed
          /\ sle.toDisable = {} /\ sle.toReEnable = {}
      BY UpdatedEntry DEF TypeOK, WellFormed, Entries
    <3>2. /\ \A d \in c.toDisable : d \in Validators /\ d \notin listed
          /\ c.toReEnable \subseteq listed
      BY OwnCandidate DEF TypeOK
    <3>3. listed \subseteq Validators
      BY <3>1 DEF WellFormed, Entries
    <3> HIDE DEF sle, listed
    <3>4. \A d \in c.toDisable : DisableOK(sle, d)
      BY <3>1, <3>2 DEF DisableOK
    <3>5. \A r \in c.toReEnable : ReEnableOK(sle, r)
      BY <3>1, <3>2 DEF ReEnableOK
    <3>6. ASSUME NEW d \in c.toDisable, NEW r \in c.toReEnable
          PROVE  /\ ReEnableOK(ApplyDisable(sle, {d}), r)
                 /\ DisableOK(ApplyReEnable(sle, {r}), d)
      <4>1. d # r /\ {d} \in Optional(Validators) /\ {r} \in Optional(Validators)
        BY <3>2, <3>3 DEF Optional
      <4> DEFINE a == ApplyDisable(sle, {d})
                 b == ApplyReEnable(sle, {r})
      <4>2. /\ a.disabled = listed /\ a.toReEnable = {}
            /\ a.toDisable = {} \/ a.toDisable = {d}
        BY <3>1, <4>1, DisabledEntry
      <4>3. /\ b.disabled = listed /\ b.toDisable = {}
            /\ b.toReEnable = {} \/ b.toReEnable = {r}
        BY <3>1, <4>1, ReEnabledEntry
      <4> HIDE DEF a, b
      <4>4. ReEnableOK(a, r)
        BY <3>2, <4>1, <4>2 DEF ReEnableOK
      <4>5. DisableOK(b, d)
        BY <3>2, <4>1, <4>3 DEF DisableOK
      <4> QED
        BY <4>4, <4>5 DEF a, b
    <3> QED
      BY <3>4, <3>5, <3>6
  <2>2. ASSUME NEW tx \in Decisions, tx # "none" PROVE AmendmentOK(tx)
    <3>1. PICK votes, n \in 0 .. Cardinality(trusted), voteUp \in BOOLEAN :
            tx = Decide(votes, n, VotingClose, voteUp)
      BY SMTT(30) DEF Decisions
    <3> QED
      BY <2>2, <3>1 DEF Decide, AmendmentOK
  <2> QED
    BY <2>1, <2>2 DEF VotesApply
<1> QED
  BY <1>1, TypeCorrect, PTL

-----------------------------------------------------------------------------
(* Amendment votes. *)

\* The cache holds the latest vote recorded from a validator until it times
\* out, and nothing from one that has none.
Held(vote, seen) ==
    IF seen.time = None THEN vote = Unseated
    ELSE \/ vote = [timeout |-> seen.time + VotesTimeout, up |-> seen.up]
         \/ vote = Unseated /\ VotingClose - seen.time > VotesTimeout

\* The votes of the coming flag ledger are not recorded yet.
VotesInv ==
    \A v \in Validators : Held(cache[v], lastSeen[v]) /\ lastSeen[v].time < VotingClose

\* A vote that was held or dropped rightly still is when the clock moves.
LEMMA HeldFrame ==
    ASSUME TypeOK, [Next]_vars, NEW v \in Validators, Held(cache[v], lastSeen[v]),
           lastSeen[v].time < VotingClose, cache'[v] = cache[v], lastSeen'[v] = lastSeen[v]
    PROVE  (Held(cache[v], lastSeen[v]) /\ lastSeen[v].time < VotingClose)'
<1>1. lastSeen[v].time \in Nat /\ VotingClose \in Nat /\ VotesTimeout \in Nat
  BY Clock, FlagAssumption, SMTT(30) DEF TypeOK, Stages
<1>2. VotingClose' \in Nat /\ VotingClose' >= VotingClose
  <2>1. VotingClose' \in Nat
    <3>1. \A p \in Nat : 2 * p \in Nat
      BY SMTT(30)
    <3>2. period' \in Nat
      BY ClockForward
    <3> QED
      BY <3>1, <3>2 DEF VotingClose
  <2> QED
    BY <2>1, ClockForward
<1>3. VotingClose - lastSeen[v].time > VotesTimeout => VotingClose' - lastSeen[v].time > VotesTimeout
  <2> DEFINE a == VotingClose
             b == VotingClose'
             t == lastSeen[v].time
  <2>1. a \in Nat /\ b \in Nat /\ b >= a /\ t \in Nat
    BY <1>1, <1>2
  <2> HIDE DEF a, b, t
  <2>2. a - t > VotesTimeout => b - t > VotesTimeout
    BY <1>1, <2>1, SMTT(30)
  <2> QED
    BY <2>2 DEF a, b, t
<1>4. lastSeen'[v].time < VotingClose'
  BY <1>1, <1>2, SMTT(30)
<1> QED
  BY <1>3, <1>4 DEF Held

\* After votes are recorded at the close of the voting ledger the cache holds
\* exactly what is not yet VotesTimeout old.
LEMMA RecordedExact ==
    ASSUME TypeOK, VotesInv, RecordBallots
    PROVE  \A v \in Validators :
              cache'[v] = IF lastSeen'[v].time # None /\ VotingClose - lastSeen'[v].time <= VotesTimeout
                          THEN [timeout |-> lastSeen'[v].time + VotesTimeout, up |-> lastSeen'[v].up]
                          ELSE Unseated
<1>1. PICK signers \in SUBSET Validators : \E ballots \in [signers -> BOOLEAN] :
          /\ cache' = RecordVotes(cache, VotingClose, ballots)
          /\ lastSeen' = [v \in Validators |-> IF v \in signers
                THEN [time |-> VotingClose, up |-> ballots[v]] ELSE lastSeen[v]]
  BY Recorded
<1>2. PICK ballots \in [signers -> BOOLEAN] :
          /\ cache' = RecordVotes(cache, VotingClose, ballots)
          /\ lastSeen' = [v \in Validators |-> IF v \in signers
                THEN [time |-> VotingClose, up |-> ballots[v]] ELSE lastSeen[v]]
  BY <1>1
<1> DEFINE now == VotingClose
           n == FlagClose + VotesTimeout
<1>3. /\ now \in Nat /\ now > 1 /\ VotesTimeout \in Nat
      /\ n \in Nat /\ now + VotesTimeout \in 0 .. n
      /\ cache \in [Validators -> [timeout : 0 .. n, up : BOOLEAN]]
  <2>1. now \in Nat /\ now > 1 /\ FlagClose = now + 1 /\ VotesTimeout \in Nat
    BY Clock, FlagAssumption, SMTT(30) DEF TypeOK, Stages
  <2>2. n = now + 1 + VotesTimeout
    BY <2>1
  <2>3. cache \in [Validators -> [timeout : 0 .. n, up : BOOLEAN]]
    BY DEF TypeOK
  <2> HIDE DEF now, n
  <2> QED
    BY <2>1, <2>2, <2>3, SMTT(30)
<1>4. /\ \A v \in signers : cache'[v] = [timeout |-> now + VotesTimeout, up |-> ballots[v]]
      /\ \A v \in Validators \ signers :
            cache'[v] = IF cache[v].timeout # None /\ now > cache[v].timeout THEN Unseated ELSE cache[v]
  <2>1. cache' = RecordVotes(cache, now, ballots)
    BY <1>2
  <2> HIDE DEF now, n
  <2>2. VotesOf(RecordVotes(cache, now, ballots), cache, now, signers, ballots)
    BY <1>3, RecordedVotes
  <2> QED
    BY <2>1, <2>2 DEF VotesOf
<1>5. lastSeen \in [Validators -> [time : 0 .. FlagClose, up : BOOLEAN]] /\ FlagClose = now + 1
  BY Clock, SMTT(30) DEF TypeOK, Stages
<1>6. \A v \in Validators : Held(cache[v], lastSeen[v])
  BY DEF VotesInv
<1>7. lastSeen' = [v \in Validators |-> IF v \in signers
                      THEN [time |-> now, up |-> ballots[v]] ELSE lastSeen[v]]
  BY <1>2
<1>8. ASSUME NEW v \in signers
      PROVE  /\ lastSeen'[v].time = now /\ lastSeen'[v].up = ballots[v]
             /\ now # None /\ now - now <= VotesTimeout
  <2> HIDE DEF now
  <2>1. lastSeen'[v].time = now /\ lastSeen'[v].up = ballots[v]
    BY <1>7
  <2>2. now # None /\ now - now <= VotesTimeout
    BY <1>3, SMTT(30) DEF None
  <2> QED
    BY <2>1, <2>2
<1>9. ASSUME NEW v \in Validators \ signers
      PROVE  cache'[v] = IF lastSeen[v].time # None /\ now - lastSeen[v].time <= VotesTimeout
                         THEN [timeout |-> lastSeen[v].time + VotesTimeout, up |-> lastSeen[v].up]
                         ELSE Unseated
  <2> DEFINE t == lastSeen[v].time
             late == t + VotesTimeout
  <2>1. t \in Nat
    BY <1>5, <1>3, SMTT(30)
  <2>2. IF t = None THEN cache[v] = Unseated
        ELSE \/ cache[v] = [timeout |-> late, up |-> lastSeen[v].up]
             \/ cache[v] = Unseated /\ now - t > VotesTimeout
    BY <1>6 DEF Held
  <2>3. cache'[v] = IF cache[v].timeout # None /\ now > cache[v].timeout THEN Unseated ELSE cache[v]
    BY <1>4
  <2> HIDE DEF now, t
  <2>4. late \in Nat /\ (t # None => late # None) /\ (now > late <=> ~(now - t <= VotesTimeout))
    BY <1>3, <2>1, SMTT(30) DEF None
  <2>5. now - t > VotesTimeout => ~(now - t <= VotesTimeout)
    BY <1>3, <2>1, SMTT(30)
  <2> HIDE DEF late
  <2>6. cache'[v] = IF t # None /\ now - t <= VotesTimeout
                    THEN [timeout |-> late, up |-> lastSeen[v].up] ELSE Unseated
    BY <2>2, <2>3, <2>4, <2>5, SMTT(30) DEF Unseated
  <2> QED
    BY <2>6 DEF t, late
<1>10. ASSUME NEW v \in Validators \ signers PROVE lastSeen'[v] = lastSeen[v]
  BY <1>7
<1> HIDE DEF now
<1>11. \A v \in Validators :
          cache'[v] = IF lastSeen'[v].time # None /\ now - lastSeen'[v].time <= VotesTimeout
                      THEN [timeout |-> lastSeen'[v].time + VotesTimeout, up |-> lastSeen'[v].up]
                      ELSE Unseated
  BY <1>4, <1>8, <1>9, <1>10, SMTT(30)
<1> QED
  BY <1>11 DEF now

LEMMA VotesStep ==
    ASSUME TypeOK, VotesInv, [Next]_vars
    PROVE  VotesInv'
<1>1. ASSUME UNCHANGED <<cache, lastSeen>> PROVE VotesInv'
  BY <1>1, HeldFrame DEF VotesInv
<1>2. CASE CloseFlagRound /\ RecordBallots
  <2> DEFINE now == VotingClose
             next == VotingClose'
  <2>1. now \in Nat /\ now > 1 /\ VotesTimeout \in Nat
    BY Clock, FlagAssumption, SMTT(30) DEF TypeOK, Stages
  <2>2. next = now + 2
    <3>1. period \in Nat /\ period' = period + 1
      BY <1>2, SMTT(30) DEF TypeOK, CloseFlagRound
    <3>2. next = 2 * period' /\ now = 2 * period
      BY DEF VotingClose
    <3> HIDE DEF next, now
    <3> QED
      BY <3>1, <3>2, SMTT(30)
  <2>3. \A v \in Validators :
            cache'[v] = IF lastSeen'[v].time # None /\ now - lastSeen'[v].time <= VotesTimeout
                        THEN [timeout |-> lastSeen'[v].time + VotesTimeout, up |-> lastSeen'[v].up]
                        ELSE Unseated
    BY <1>2, RecordedExact
  <2>4. ASSUME NEW v \in Validators
        PROVE  lastSeen'[v].time \in Nat /\ lastSeen'[v].time <= now
    <3>1. PICK signers \in SUBSET Validators : \E ballots \in [signers -> BOOLEAN] :
            lastSeen' = [w \in Validators |-> IF w \in signers
                  THEN [time |-> now, up |-> ballots[w]] ELSE lastSeen[w]]
      BY <1>2, Recorded
    <3>2. lastSeen'[v].time = now \/ lastSeen'[v].time = lastSeen[v].time
      BY <3>1, SMTT(30)
    <3>3. lastSeen[v].time \in Nat /\ lastSeen[v].time < now
      BY SMTT(30) DEF VotesInv, TypeOK
    <3> HIDE DEF now
    <3> QED
      BY <2>1, <3>2, <3>3, SMTT(30)
  <2> HIDE DEF now, next
  <2>5. ASSUME NEW v \in Validators
        PROVE  /\ lastSeen'[v].time < next
               /\ IF lastSeen'[v].time = None THEN cache'[v] = Unseated
                  ELSE \/ cache'[v] = [timeout |-> lastSeen'[v].time + VotesTimeout, up |-> lastSeen'[v].up]
                       \/ cache'[v] = Unseated /\ next - lastSeen'[v].time > VotesTimeout
    <3> DEFINE t == lastSeen'[v].time
    <3>1. t \in Nat /\ t <= now
      BY <2>4
    <3>2. cache'[v] = IF t # None /\ now - t <= VotesTimeout
                      THEN [timeout |-> t + VotesTimeout, up |-> lastSeen'[v].up] ELSE Unseated
      BY <2>3
    <3> HIDE DEF t
    <3>3. t < next /\ (~(now - t <= VotesTimeout) => next - t > VotesTimeout)
      BY <2>1, <2>2, <3>1, SMTT(30)
    <3>4. IF t = None THEN cache'[v] = Unseated
          ELSE \/ cache'[v] = [timeout |-> t + VotesTimeout, up |-> lastSeen'[v].up]
               \/ cache'[v] = Unseated /\ next - t > VotesTimeout
      BY <3>2, <3>3
    <3> QED
      BY <3>3, <3>4 DEF t
  <2> QED
    BY <2>5 DEF VotesInv, Held, next
<1>3. ASSUME NEW unl \in SUBSET Validators, SetTrusted(unl)
      PROVE  VotesInv'
  <2>1. \A v \in unl : cache'[v] = cache[v] /\ lastSeen'[v] = lastSeen[v]
    BY <1>3 DEF SetTrusted
  <2>2. ASSUME NEW v \in unl
        PROVE  (Held(cache[v], lastSeen[v]) /\ lastSeen[v].time < VotingClose)'
    BY <2>1, HeldFrame DEF VotesInv
  <2>3. ASSUME NEW v \in Validators \ unl
        PROVE  (Held(cache[v], lastSeen[v]) /\ lastSeen[v].time < VotingClose)'
    <3>1. cache'[v] = Unseated /\ lastSeen'[v] = Unseen
      BY <1>3 DEF SetTrusted
    <3>2. 0 < VotingClose'
      <4>1. VotingClose' = VotingClose
        BY <1>3 DEF SetTrusted, VotingClose
      <4> QED
        BY <4>1, Clock, SMTT(30) DEF TypeOK, Stages
    <3> QED
      BY <3>1, <3>2, SMTT(30) DEF Held, Unseen, None
  <2> QED
    BY <2>2, <2>3 DEF VotesInv
<1>4. CASE Restart
  <2>1. \A v \in Validators : cache'[v] = Unseated /\ lastSeen'[v] = Unseen
    BY <1>4 DEF Restart
  <2>2. 0 < VotingClose'
    <3>1. VotingClose' = VotingClose
      BY <1>4 DEF Restart, VotingClose
    <3> QED
      BY <3>1, Clock, SMTT(30) DEF TypeOK, Stages
  <2> QED
    BY <2>1, <2>2, SMTT(30) DEF VotesInv, Held, Unseen, None
<1>5. CASE StartVotingRound \/ StartFlagRound
  BY <1>1, <1>5 DEF StartVotingRound, StartFlagRound, StartRound
<1>6. CASE CloseVotingRound
  BY <1>1, <1>6 DEF CloseVotingRound
<1>7. CASE CloseFlagRound
  BY <1>1, <1>2, <1>7 DEF CloseFlagRound
<1>8. CASE UNCHANGED vars
  BY <1>1, <1>8 DEF vars
<1> QED
  BY <1>3, <1>4, <1>5, <1>6, <1>7, <1>8 DEF Next

\* Whenever Self tallies amendment votes it counts exactly the latest vote of
\* each trusted validator recorded since it started and since it trusts it,
\* at most VotesTimeout ago (recordVotes, trustChanged).
THEOREM CountedCorrect == Spec => VotesCounted
<1>1. Init => VotesInv
  <2> SUFFICES ASSUME Init PROVE VotesInv
    OBVIOUS
  <2>1. \A v \in Validators : cache[v] = Unseated /\ lastSeen[v] = Unseen
    BY DEF Init
  <2>2. 0 < VotingClose
    BY SMTT(30) DEF Init, VotingClose
  <2> QED
    BY <2>1, <2>2, SMTT(30) DEF VotesInv, Held, Unseen, None
<1>2. TypeOK /\ VotesInv /\ [Next]_vars => VotesInv'
  BY VotesStep
<1> DEFINE Exact == \A v \in Validators :
              cache'[v] = IF lastSeen'[v].time # None /\ VotingClose - lastSeen'[v].time <= VotesTimeout
                          THEN [timeout |-> lastSeen'[v].time + VotesTimeout, up |-> lastSeen'[v].up]
                          ELSE Unseated
           Tallied == stage = "close_flag" /\ stage' # stage
                        /\ (\E v \in Validators : lastSeen'[v].time = VotingClose)
<1>3. TypeOK /\ VotesInv /\ [Next]_vars => [Tallied => Exact]_vars
  <2> SUFFICES ASSUME TypeOK, VotesInv, Next, Tallied PROVE Exact
    OBVIOUS
  <2>1. VotingClose \in Nat /\ VotingClose > 1
    BY Clock, SMTT(30) DEF TypeOK, Stages
  <2>2. CASE CloseFlagRound /\ RecordBallots
    BY <2>2, RecordedExact
  <2>3. CASE UNCHANGED lastSeen
    <3>1. \A v \in Validators : lastSeen[v].time < VotingClose /\ lastSeen[v].time \in Nat
      BY SMTT(30) DEF VotesInv, TypeOK
    <3> QED
      BY <2>1, <2>3, <3>1, SMTT(30)
  <2>4. CASE Restart
    <3>1. \A v \in Validators : lastSeen'[v].time = 0
      BY <2>4 DEF Restart, Unseen, None
    <3> QED
      BY <2>1, <3>1, SMTT(30)
  <2>5. ASSUME NEW unl, SetTrusted(unl) PROVE FALSE
    BY <2>5 DEF SetTrusted
  <2> QED
    BY <2>2, <2>3, <2>4, <2>5 DEF Next, StartVotingRound, StartFlagRound, StartRound,
       CloseVotingRound, CloseFlagRound
<1> QED
  BY <1>1, <1>2, <1>3, TypeCorrect, PTL DEF Spec, VotesCounted

-----------------------------------------------------------------------------
(* The quorum. *)

\* The larger of two numbers.
LEMMA LargerOfTwo ==
    ASSUME NEW a \in Nat, NEW b \in Nat
    PROVE  Max({a, b}) = IF a >= b THEN a ELSE b
<1>1. CASE a >= b
  <2>1. \A y \in {a, b} : a >= y
    BY <1>1, SMTT(30)
  <2>2. \A x \in {a, b} : (\A y \in {a, b} : x >= y) => x = a
    BY <1>1, SMTT(30)
  <2> QED
    BY <1>1, <2>1, <2>2, SMTT(30) DEF Max
<1>2. CASE ~(a >= b)
  <2>1. \A y \in {a, b} : b >= y
    BY <1>2, SMTT(30)
  <2>2. \A x \in {a, b} : (\A y \in {a, b} : x >= y) => x = b
    BY <1>2
  <2> QED
    BY <1>2, <2>1, <2>2 DEF Max
<1> QED
  BY <1>1, <1>2

\* With a quarter of the validators, rounded up, disabled, the rest reach the
\* quorum, and the quorum is a majority of all.
LEMMA QuorumArithmetic ==
    ASSUME NEW n \in Nat, NEW k \in Nat, n >= 3, k <= (n + 3) \div 4
    PROVE  ComputeQuorum(n, k) <= n - k /\ 2 * ComputeQuorum(n, k) > n
<1>1. n # 0 /\ ~(n <= k) /\ n - k \in Nat
  BY SMTT(30)
<1> DEFINE a == ((n - k) * 4 + 4) \div 5
           b == (n * 3 + 4) \div 5
<1>2. a \in Nat /\ b \in Nat /\ a <= n - k /\ b <= n - k /\ 2 * b > n
  BY SMTT(30)
<1>3. ComputeQuorum(n, k) = Max({a, b})
  BY <1>1 DEF ComputeQuorum
<1> HIDE DEF a, b
<1>4. Max({a, b}) = IF a >= b THEN a ELSE b
  BY <1>2, LargerOfTwo
<1> QED
  BY <1>2, <1>3, <1>4, SMTT(30)

\* Voting never takes the quorum out of reach: after a step that lists one
\* more of three or more trusted validators, those left reach the quorum by
\* themselves once every listed one is disabled, and two quorums share a
\* validator (findAllCandidates, computeQuorum).
THEOREM QuorumCorrect == Spec => QuorumReachable
<1> DEFINE Reachable ==
      LET n == Cardinality(trusted)
          quorum == Quorum(trusted, Listed')
      IN  trusted' = trusted /\ n >= 3 /\ Cardinality(Listed') > Cardinality(Listed)
            => quorum <= Cardinality(trusted \ Listed') /\ 2 * quorum > n
<1>1. TypeOK /\ [Next]_vars => [Reachable]_vars
  <2> SUFFICES ASSUME TypeOK, Next, trusted' = trusted, Cardinality(trusted) >= 3,
                      Cardinality(Listed') > Cardinality(Listed)
               PROVE  /\ Quorum(trusted, Listed') <= Cardinality(trusted \ Listed')
                      /\ 2 * Quorum(trusted, Listed') > Cardinality(trusted)
    OBVIOUS
  <2>1. IsFiniteSet(trusted) /\ IsFiniteSet(Listed) /\ Listed \subseteq trusted
    <3>1. IsFiniteSet(trusted)
      BY FlagAssumption, FS_Subset DEF TypeOK
    <3> QED
      BY <3>1, FS_Subset DEF Listed
  <2>2. Cardinality(Listed) \in Nat
    BY <2>1, FS_CardinalityType
  <2>3. CASE UNCHANGED neg
    <3>1. Listed' = Listed
      BY <2>3 DEF Listed
    <3> QED
      BY <2>2, <3>1, SMTT(30)
  <2>4. CASE CloseVotingRound
    <3>1. /\ neg'.disabled = EffectiveNegUNL(neg)
          /\ \/ neg'.toDisable = {}
             \/ \E v \in trusted : neg'.toDisable = {v} /\ Cardinality(Listed) < MaxListed(trusted)
      BY <2>4, NextEntry
    <3>2. Listed' \subseteq trusted
      BY DEF Listed
    <3>3. IsFiniteSet(Listed')
      BY <2>1, <3>2, FS_Subset
    <3>4. Listed' \subseteq Listed \cup neg'.toDisable
      BY <3>1 DEF Listed, EffectiveNegUNL
    <3>5. PICK v \in trusted : neg'.toDisable = {v} /\ Cardinality(Listed) < MaxListed(trusted)
      <4>1. CASE neg'.toDisable = {}
        <5>1. Listed' \subseteq Listed
          BY <3>4, <4>1
        <5>2. Cardinality(Listed') <= Cardinality(Listed) /\ Cardinality(Listed') \in Nat
          BY <2>1, <5>1, <3>3, FS_Subset, FS_CardinalityType
        <5> QED
          BY <2>2, <5>2, SMTT(30)
      <4> QED
        BY <3>1, <4>1
    <3> DEFINE n == Cardinality(trusted)
               k == Cardinality(Listed)
               j == Cardinality(Listed')
    <3>6. n \in Nat /\ k \in Nat /\ j \in Nat
      BY <2>1, <3>3, FS_CardinalityType
    <3>7. j <= k + 1
      <4>1. IsFiniteSet(Listed \cup {v}) /\ Cardinality(Listed \cup {v}) <= k + 1
        <5>1. /\ IsFiniteSet(Listed \cup {v})
              /\ \/ Cardinality(Listed \cup {v}) = Cardinality(Listed)
                 \/ Cardinality(Listed \cup {v}) = Cardinality(Listed) + 1
          BY <2>1, FS_AddElement
        <5> QED
          BY <2>2, <5>1, SMTT(30)
      <4>2. Listed' \subseteq Listed \cup {v}
        BY <3>4, <3>5
      <4>3. j <= Cardinality(Listed \cup {v}) /\ Cardinality(Listed \cup {v}) \in Nat
        BY <4>1, <4>2, FS_Subset, FS_CardinalityType
      <4> QED
        BY <3>6, <4>1, <4>3, SMTT(30)
    <3>8. k < (n + 3) \div 4
      BY <3>5 DEF MaxListed
    <3>9. Cardinality(trusted \ Listed') = n - j
      <4>1. trusted \cap Listed' = Listed'
        BY <3>2
      <4> QED
        BY <2>1, <4>1, FS_Difference
    <3>10. Quorum(trusted, Listed') = ComputeQuorum(n, j)
      <4>1. trusted \cap Listed' = Listed'
        BY <3>2
      <4> QED
        BY <4>1 DEF Quorum
    <3>11. n >= 3
      OBVIOUS
    <3> HIDE DEF n, k, j
    <3>12. j <= (n + 3) \div 4
      BY <3>6, <3>7, <3>8, SMTT(30)
    <3>13. ComputeQuorum(n, j) <= n - j /\ 2 * ComputeQuorum(n, j) > n
      BY <3>6, <3>11, <3>12, QuorumArithmetic
    <3> QED
      BY <3>9, <3>10, <3>13 DEF n
  <2>5. ASSUME NEW unl, SetTrusted(unl) PROVE FALSE
    BY <2>5 DEF SetTrusted
  <2> QED
    BY <2>3, <2>4, <2>5 DEF Next, StartVotingRound, StartFlagRound, StartRound, CloseFlagRound, Restart
<1> QED
  BY <1>1, TypeCorrect, PTL DEF Spec, QuorumReachable

=============================================================================
