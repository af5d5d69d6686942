-------------------------- MODULE AvalancheProofs --------------------------
(* Proofs about Avalanche, for any number of peers and any parameters. *)
EXTENDS Avalanche, FiniteSetTheorems, TLAPS

\* Integer division by a positive number is monotone.
LEMMA DivMonotone ==
    ASSUME NEW a \in Int, NEW b \in Int, NEW d \in Nat \ {0}, a <= b
    PROVE  a \div d <= b \div d
  OBVIOUS

\* The tallies are numbers: the peers are finite.
LEMMA Tallies == Yays \in Nat /\ Nays \in Nat
<1>1. IsFiniteSet({n \in Peers : votes[n] = "yes"})
      BY ParmsAssumption, FS_Subset
<1>2. IsFiniteSet({n \in Peers : votes[n] = "no"})
      BY ParmsAssumption, FS_Subset
<1> QED BY <1>1, <1>2, FS_CardinalityType DEF Yays, Nays

\* Our own yes only helps the yes side.
LEMMA WeightOrder ==
    Weight(0) \in Int /\ Weight(100) \in Int /\ Weight(0) <= Weight(100)
<1>1. Yays \in Nat /\ Nays \in Nat
      BY Tallies
<1>2. (Yays * 100) \div (Yays + Nays + 1) <= (Yays * 100 + 100) \div (Yays + Nays + 1)
      BY <1>1, DivMonotone
<1> QED BY <1>1, <1>2 DEF Weight

\* What the weighing yields, for a proposer and for an observer.
LEMMA VoteRule ==
    ASSUME TypeOK, NEW required \in Int
    PROVE  /\ NewVote(required) \in BOOLEAN
           /\ proposing /\ our => (NewVote(required) <=> Weight(100) > required)
           /\ proposing /\ ~our => (NewVote(required) <=> Weight(0) > required)
           /\ ~proposing => (NewVote(required) <=> Yays > Nays)
<1>1. our = TRUE \/ our = FALSE
      BY DEF TypeOK
<1> QED BY <1>1 DEF NewVote, OwnContribution

-----------------------------------------------------------------------------
(* Type correctness. *)

\* Every field of the dispute keeps its type, and the counters their caps.
THEOREM TypeCorrect == Spec => []TypeOK
<1> USE ParmsAssumption DEF TypeOK
<1>0. /\ 0 \in 0..MinRounds /\ 0 \in 0..StalledRounds /\ 0 \in 0..(4 * MinRounds)
      /\ 0 \in 0..3 /\ 0 \in Nat
      OBVIOUS
<1>1. Init => TypeOK
      BY <1>0, Zenon DEF Init
<1>2. TypeOK /\ [Next]_vars => TypeOK'
  <2> SUFFICES ASSUME TypeOK, [Next]_vars PROVE TypeOK'
      OBVIOUS
  <2>1. ASSUME NEW n \in Peers, UnVote(n) PROVE TypeOK'
        BY <2>1 DEF UnVote, Disturbed
  <2>2. ASSUME NEW n \in Peers, NEW v \in {"yes", "no"}, Vote(n, v) PROVE TypeOK'
        BY <2>2, <1>0 DEF Vote, Disturbed
  <2>3. CASE OtherVote
        BY <2>3, <1>0, Zenon DEF OtherVote
  <2>4. CASE LeaveConsensus
        BY <2>4 DEF LeaveConsensus, Disturbed
  <2>5. ASSUME NEW time \in Percents, Tick(time) PROVE TypeOK'
    <3> DEFINE n == Up(rounds, MinRounds)
               l == Advanced(level, time, n)
               vote == NewVote(Cutoff(l).pct)
    <3>1. n \in 0..MinRounds /\ l \in 0..3
          BY DEF Up, Advanced, Cutoff
    <3>2. vote \in BOOLEAN
      <4>1. Cutoff(l).pct \in Int
            BY <3>1 DEF Cutoff
      <4> QED BY <4>1, VoteRule
    <3>3. Up(peersUnchanged, StalledRounds) \in 0..StalledRounds
          BY DEF Up
    <3>4. Up(steady, StalledRounds) \in 0..StalledRounds
          BY DEF Up
    <3>5. Up(contested, 4 * MinRounds) \in 0..(4 * MinRounds)
          BY DEF Up
    <3>6. stalled' \in BOOLEAN
          BY <2>5 DEF Tick, DisputeStalled
    <3> HIDE DEF n, l, vote
    <3>7. CASE Unopposed
          BY <2>5, <3>3, <3>6, <3>7 DEF Tick
    <3>8. CASE ~Unopposed
      <4>1. /\ level' = l /\ our' = vote
            /\ rounds' = IF l = level THEN n ELSE 0
            /\ steady' = IF vote = our THEN Up(steady, StalledRounds) ELSE 0
            /\ contested' = Up(contested, 4 * MinRounds)
            /\ flips' = (IF vote = our THEN flips ELSE flips + 1) /\ from' = from
            /\ peersUnchanged' = Up(peersUnchanged, StalledRounds)
            /\ percent' = time /\ proposing' = proposing /\ votes' = votes
            BY <2>5, <3>8 DEF Tick, n, l, vote
      <4>2. flips' \in Nat
            BY <4>1
      <4>3. steady' \in 0..StalledRounds /\ rounds' \in 0..MinRounds
            BY <4>1, <3>1, <3>4
      <4> QED BY <4>1, <4>2, <4>3, <3>1, <3>2, <3>3, <3>5, <3>6
    <3> QED BY <3>7, <3>8
  <2>6. CASE UNCHANGED vars
        BY <2>6 DEF vars
  <2> QED BY <2>1, <2>2, <2>3, <2>4, <2>5, <2>6 DEF Next
<1> QED BY <1>1, <1>2, PTL DEF Spec

-----------------------------------------------------------------------------
(* A stall is late. *)

\* Each level below the current one, and the rounds on it, were contested.
Dwell ==
    /\ level = 0 => rounds <= contested
    /\ level = 1 => MinRounds + rounds <= contested
    /\ level = 2 => 2 * MinRounds + rounds <= contested
    /\ level = 3 => 3 * MinRounds + rounds <= contested

\* The verdict is only given on the last level, after MinRounds on it.
StalledLast == stalled => level = 3 /\ rounds = MinRounds

\* Only the last level has no later successor.
LEMMA LastLevel ==
    ASSUME NEW l \in 0..3, Cutoff(Cutoff(l).next).time <= Cutoff(l).time
    PROVE  l = 3
  BY DEF Cutoff

\* A tick's verdict is given on the last level.
LEMMA Verdict ==
    ASSUME TypeOK', NEW time \in Percents, Tick(time)
    PROVE  StalledLast'
<1>1. stalled' => Cutoff(Cutoff(level').next).time <= Cutoff(level').time
                    /\ rounds' >= MinRounds
      BY DEF Tick, DisputeStalled
<1>2. level' \in 0..3 /\ rounds' \in 0..MinRounds
      BY DEF TypeOK
<1>3. stalled' => level' = 3
      BY <1>1, <1>2, LastLevel
<1> QED BY <1>1, <1>2, <1>3, ParmsAssumption DEF StalledLast

\* No dispute stalls before it was weighed MinRounds times on each level.
THEOREM LateCorrect == Spec => []StallIsLate
<1> USE ParmsAssumption
<1>1. Init => Dwell /\ StalledLast
      BY DEF Init, Dwell, StalledLast
<1>2. TypeOK /\ TypeOK' /\ Dwell /\ StalledLast /\ [Next]_vars => Dwell' /\ StalledLast'
  <2> SUFFICES ASSUME TypeOK, TypeOK', Dwell, StalledLast, [Next]_vars
               PROVE  Dwell' /\ StalledLast'
      OBVIOUS
  <2>1. ASSUME NEW n \in Peers, UnVote(n) PROVE Dwell' /\ StalledLast'
        BY <2>1 DEF UnVote, Disturbed, Dwell, StalledLast
  <2>2. ASSUME NEW n \in Peers, NEW v \in {"yes", "no"}, Vote(n, v)
        PROVE  Dwell' /\ StalledLast'
        BY <2>2 DEF Vote, Disturbed, Dwell, StalledLast
  <2>3. CASE OtherVote
        BY <2>3 DEF OtherVote, Dwell, StalledLast
  <2>4. CASE LeaveConsensus
        BY <2>4 DEF LeaveConsensus, Disturbed, Dwell, StalledLast
  <2>5. ASSUME NEW time \in Percents, Tick(time) PROVE Dwell' /\ StalledLast'
    <3>1. CASE Unopposed
      <4>1. UNCHANGED <<level, rounds, contested>>
            BY <2>5, <3>1 DEF Tick
      <4>2. Dwell'
            BY <4>1 DEF Dwell
      <4> QED BY <4>2, Verdict, <2>5
    <3>2. CASE ~Unopposed
      <4> DEFINE n == Up(rounds, MinRounds)
                 l == Advanced(level, time, n)
      <4>1. /\ level' = l /\ rounds' = IF l = level THEN n ELSE 0
            /\ contested' = Up(contested, 4 * MinRounds)
            BY <2>5, <3>2 DEF Tick
      <4>2. \/ l = level
            \/ n >= MinRounds /\ level < 3 /\ l = level + 1
            BY DEF Advanced, Cutoff, TypeOK
      <4>3. n = IF rounds < MinRounds THEN rounds + 1 ELSE MinRounds
            BY DEF Up
      <4>4. contested' = IF contested < 4 * MinRounds THEN contested + 1
                                                      ELSE 4 * MinRounds
            BY <4>1 DEF Up
      <4> HIDE DEF n, l
      <4>5. Dwell'
        <5>1. CASE l = level
              BY <5>1, <4>1, <4>3, <4>4 DEF TypeOK, Dwell
        <5>2. CASE n >= MinRounds /\ level < 3 /\ l = level + 1
              BY <5>2, <4>1, <4>3, <4>4 DEF TypeOK, Dwell
        <5> QED BY <5>1, <5>2, <4>2
      <4> QED BY <4>5, Verdict, <2>5
    <3> QED BY <3>1, <3>2
  <2>6. CASE UNCHANGED vars
        BY <2>6 DEF vars, Dwell, StalledLast
  <2> QED BY <2>1, <2>2, <2>3, <2>4, <2>5, <2>6 DEF Next
<1>3. TypeOK /\ Dwell /\ StalledLast => StallIsLate
      BY DEF TypeOK, Dwell, StalledLast, StallIsLate
<1> QED BY <1>1, <1>2, <1>3, TypeCorrect, PTL DEF Spec

-----------------------------------------------------------------------------
(* Our vote settles. *)

\* Our vote follows from where it started and how often it flipped; a
\* proposer that gave the transaction up did so under a threshold its own
\* yes could not clear, and an observer that moved is with the majority.
SettlesInv ==
    /\ flips = 0 => (our <=> from)
    /\ flips = 1 => (our <=> ~from)
    /\ flips = 2 => (our <=> from)
    /\ flips <= (IF proposing /\ ~from THEN 2 ELSE 1)
    /\ proposing /\ flips >= 1 /\ ~our => Weight(100) <= Cutoff(level).pct
    /\ ~proposing /\ flips >= 1 => (our <=> Yays > Nays)

\* A disturbance starts the count again.
LEMMA FreshStart ==
    ASSUME TypeOK, our' = our, from' = our, flips' = 0
    PROVE  SettlesInv'
  BY DEF SettlesInv, TypeOK

\* Thresholds rise with the level.
LEMMA ThresholdsRise ==
    ASSUME NEW l \in 0..3, NEW time \in Nat, NEW n \in Nat
    PROVE  /\ Advanced(l, time, n) \in 0..3
           /\ Cutoff(l).pct \in Nat
           /\ Cutoff(Advanced(l, time, n)).pct \in Nat
           /\ Cutoff(l).pct <= Cutoff(Advanced(l, time, n)).pct
  BY DEF Advanced, Cutoff

\* While peers' votes stand, our vote flips at most twice, and after giving a
\* transaction up never takes it back.
THEOREM SettlesCorrect == Spec => []Settles
<1> USE ParmsAssumption
<1>1. Init => SettlesInv
      BY DEF Init, SettlesInv
<1>2. TypeOK /\ SettlesInv /\ [Next]_vars => SettlesInv'
  <2> SUFFICES ASSUME TypeOK, SettlesInv, [Next]_vars PROVE SettlesInv'
      OBVIOUS
  <2>1. ASSUME NEW n \in Peers, UnVote(n) PROVE SettlesInv'
        BY <2>1, FreshStart DEF UnVote, Disturbed
  <2>2. ASSUME NEW n \in Peers, NEW v \in {"yes", "no"}, Vote(n, v) PROVE SettlesInv'
        BY <2>2, FreshStart DEF Vote, Disturbed
  <2>3. CASE OtherVote
        BY <2>3 DEF OtherVote, SettlesInv, Weight, Yays, Nays
  <2>4. CASE LeaveConsensus
        BY <2>4, FreshStart DEF LeaveConsensus, Disturbed
  <2>5. ASSUME NEW time \in Percents, Tick(time) PROVE SettlesInv'
    <3>1. votes' = votes /\ proposing' = proposing /\ from' = from
          BY <2>5 DEF Tick
    <3>2. Weight(100)' = Weight(100) /\ Yays' = Yays /\ Nays' = Nays
          BY <3>1 DEF Weight, Yays, Nays
    <3>3. CASE Unopposed
      <4>1. UNCHANGED <<our, level, flips>>
            BY <2>5, <3>3 DEF Tick
      <4> QED BY <4>1, <3>1, <3>2 DEF SettlesInv
    <3>4. CASE ~Unopposed
      <4> DEFINE n == Up(rounds, MinRounds)
                 l == Advanced(level, time, n)
                 vote == NewVote(Cutoff(l).pct)
      <4>1. /\ level' = l /\ our' = vote
            /\ flips' = IF vote = our THEN flips ELSE flips + 1
            BY <2>5, <3>4 DEF Tick
      <4>2. n \in Nat
            BY DEF Up, TypeOK
      <4>3. l \in 0..3 /\ Cutoff(l).pct \in Nat /\ Cutoff(level).pct <= Cutoff(l).pct
              /\ Cutoff(level).pct \in Nat
            BY <4>2, ThresholdsRise DEF TypeOK
      <4>4. Weight(0) \in Int /\ Weight(100) \in Int /\ Weight(0) <= Weight(100)
            BY WeightOrder
      <4> HIDE DEF n, l
      <4>5. vote \in BOOLEAN
            BY <4>3, VoteRule
      <4>6. /\ proposing /\ our => (vote <=> Weight(100) > Cutoff(l).pct)
            /\ proposing /\ ~our => (vote <=> Weight(0) > Cutoff(l).pct)
            /\ ~proposing => (vote <=> Yays > Nays)
            BY <4>3, VoteRule
      <4>7. our \in BOOLEAN /\ from \in BOOLEAN /\ proposing \in BOOLEAN /\ flips \in Nat
            BY DEF TypeOK
      <4> HIDE DEF vote
      <4>8. CASE proposing /\ our
        <5>1. ~vote => Weight(100) <= Cutoff(l).pct
              BY <4>8, <4>6, <4>3, <4>4
        <5>2. CASE vote
              BY <4>8, <5>2, <4>1, <4>5, <4>7, <3>1, <3>2 DEF SettlesInv
        <5>3. CASE ~vote
          <6>1. flips' = flips + 1 /\ our' = FALSE
                BY <4>8, <5>3, <4>1, <4>5, <4>7
          <6>2. (flips = 0 /\ from) \/ (flips = 1 /\ ~from)
            <7>1. flips <= 2
                  BY <4>7 DEF SettlesInv
            <7>2. flips = 2 => ~from
                  BY <4>7 DEF SettlesInv
            <7>3. CASE flips = 0
                  BY <7>3, <4>7, <4>8, Zenon DEF SettlesInv
            <7>4. CASE flips = 1
                  BY <7>4, <4>8 DEF SettlesInv
            <7>5. CASE flips = 2
                  BY <7>2, <7>5, <4>8 DEF SettlesInv
            <7> QED BY <7>1, <7>3, <7>4, <7>5, <4>7
          <6> QED BY <4>8, <5>1, <5>3, <6>1, <6>2, <4>1, <3>1, <3>2 DEF SettlesInv
        <5> QED BY <5>2, <5>3
      <4>9. CASE proposing /\ ~our
        <5>1. flips >= 1 => ~vote /\ Weight(100) <= Cutoff(l).pct
              BY <4>9, <4>6, <4>3, <4>4 DEF SettlesInv
        <5> QED BY <4>9, <5>1, <4>1, <4>5, <4>7, <3>1, <3>2 DEF SettlesInv
      <4>10. CASE ~proposing
        <5>1. flips >= 1 => (vote <=> our)
              BY <4>10, <4>6 DEF SettlesInv
        <5> QED BY <4>10, <5>1, <4>1, <4>5, <4>6, <4>7, <3>1, <3>2 DEF SettlesInv
      <4> QED BY <4>8, <4>9, <4>10
    <3> QED BY <3>3, <3>4
  <2>6. CASE UNCHANGED vars
        BY <2>6 DEF vars, SettlesInv, Weight, Yays, Nays
  <2> QED BY <2>1, <2>2, <2>3, <2>4, <2>5, <2>6 DEF Next
<1>3. SettlesInv => Settles
      BY DEF SettlesInv, Settles
<1> QED BY <1>1, <1>2, <1>3, TypeCorrect, PTL DEF Spec

-----------------------------------------------------------------------------
(* A stall holds. *)

\* A stalled dispute still satisfies the verdict, and weighing it again at
\* the last threshold would not change our vote.
StalledInv ==
    stalled => /\ DisputeStalled(level, rounds, our, steady, peersUnchanged)
               /\ Unopposed \/ (NewVote(Cutoff(3).pct) <=> our)

\* A tick that gives the verdict leaves a vote that would not flip.
LEMMA VerdictSettled ==
    ASSUME TypeOK, TypeOK', NEW time \in Percents, Tick(time), stalled'
    PROVE  /\ DisputeStalled(level, rounds, our, steady, peersUnchanged)'
           /\ (Unopposed \/ (NewVote(Cutoff(3).pct) <=> our))'
<1>1. votes' = votes /\ proposing' = proposing
      BY DEF Tick
<1>2. DisputeStalled(level', rounds', our', steady', peersUnchanged')
      BY DEF Tick
<1>3. DisputeStalled(level, rounds, our, steady, peersUnchanged)'
      BY <1>1, <1>2 DEF DisputeStalled, OneSided, Yays, Nays
<1>4. level' = 3
      BY Verdict DEF StalledLast
<1>5. Yays' = Yays /\ Nays' = Nays /\ Weight(100)' = Weight(100) /\ Weight(0)' = Weight(0)
      BY <1>1 DEF Weight, Yays, Nays
<1>6. CASE Unopposed
  <2>1. our' = our
        BY <1>6 DEF Tick
  <2> QED BY <1>3, <1>5, <1>6, <2>1 DEF Unopposed
<1>7. CASE ~Unopposed
  <2> DEFINE vote == NewVote(Cutoff(level').pct)
  <2>1. our' = vote /\ steady' = IF vote = our THEN Up(steady, StalledRounds) ELSE 0
        BY <1>7 DEF Tick
  <2>2. Cutoff(3).pct \in Int
        BY DEF Cutoff
  <2>3. vote = NewVote(Cutoff(3).pct)
        BY <1>4
  <2> HIDE DEF vote
  <2>4. vote \in BOOLEAN /\ our \in BOOLEAN /\ our' \in BOOLEAN
        BY <2>2, <2>3, VoteRule DEF TypeOK
  <2>5. CASE proposing
    <3>1. steady' # 0
          BY <1>2, <1>1, <2>5, ParmsAssumption DEF DisputeStalled
    <3>2. our' = our
          BY <3>1, <2>1
    <3>3. NewVote(Cutoff(3).pct)' <=> NewVote(Cutoff(3).pct)
          BY <3>2, <1>1, <1>5 DEF NewVote, OwnContribution, Cutoff
    <3> QED BY <3>2, <3>3, <2>1, <2>3, <2>4, <1>3
  <2>6. CASE ~proposing
    <3>1. vote <=> Yays > Nays
          BY <2>2, <2>3, <2>6, VoteRule
    <3>2. NewVote(Cutoff(3).pct)' <=> Yays > Nays
          BY <1>1, <1>5, <2>6 DEF NewVote
    <3> QED BY <3>1, <3>2, <2>1, <2>4, <1>3
  <2> QED BY <2>5, <2>6
<1> QED BY <1>6, <1>7

\* An undisturbed stall is final: no later tick flips our vote or takes the
\* verdict back.
THEOREM HoldsCorrect == Spec => StallHolds
<1> USE ParmsAssumption
<1>1. Init => StalledInv
      BY DEF Init, StalledInv
<1>2. TypeOK /\ TypeOK' /\ StalledInv /\ [Next]_vars => StalledInv'
  <2> SUFFICES ASSUME TypeOK, TypeOK', StalledInv, [Next]_vars PROVE StalledInv'
      OBVIOUS
  <2>1. ASSUME NEW n \in Peers, UnVote(n) PROVE StalledInv'
        BY <2>1 DEF UnVote, Disturbed, StalledInv
  <2>2. ASSUME NEW n \in Peers, NEW v \in {"yes", "no"}, Vote(n, v) PROVE StalledInv'
        BY <2>2 DEF Vote, Disturbed, StalledInv
  <2>3. CASE OtherVote
        BY <2>3 DEF OtherVote, StalledInv
  <2>4. CASE LeaveConsensus
        BY <2>4 DEF LeaveConsensus, Disturbed, StalledInv
  <2>5. ASSUME NEW time \in Percents, Tick(time) PROVE StalledInv'
        BY <2>5, VerdictSettled DEF StalledInv
  <2>6. CASE UNCHANGED vars
    <3>1. UNCHANGED <<votes, proposing, our, level, rounds, steady, peersUnchanged, stalled>>
          BY <2>6 DEF vars
    <3>2. Yays' = Yays /\ Nays' = Nays
          BY <3>1 DEF Yays, Nays
    <3>3. NewVote(Cutoff(3).pct)' <=> NewVote(Cutoff(3).pct)
          BY <3>1, <3>2 DEF NewVote, OwnContribution, Weight, Cutoff
    <3>4. DisputeStalled(level, rounds, our, steady, peersUnchanged)'
            <=> DisputeStalled(level, rounds, our, steady, peersUnchanged)
          BY <3>1, <3>2 DEF DisputeStalled, OneSided, Unopposed, Cutoff
    <3>5. Unopposed' <=> Unopposed
          BY <3>1, <3>2 DEF Unopposed
    <3> QED BY <3>1, <3>3, <3>4, <3>5 DEF StalledInv
  <2> QED BY <2>1, <2>2, <2>3, <2>4, <2>5, <2>6 DEF Next
<1>3. TypeOK /\ TypeOK' /\ StalledInv /\ [Next]_vars =>
        [stalled /\ votes' = votes /\ proposing' = proposing /\ peersUnchanged' # 0
            => our' = our /\ stalled']_vars
  <2> SUFFICES ASSUME TypeOK, TypeOK', StalledInv, Next, stalled, votes' = votes,
                      proposing' = proposing, peersUnchanged' # 0
               PROVE  our' = our /\ stalled'
      OBVIOUS
  <2>1. ASSUME NEW n \in Peers, UnVote(n) PROVE FALSE
        BY <2>1 DEF UnVote, TypeOK
  <2>2. ASSUME NEW n \in Peers, NEW v \in {"yes", "no"}, Vote(n, v) PROVE FALSE
        BY <2>2 DEF Vote, TypeOK
  <2>3. CASE OtherVote
        BY <2>3 DEF OtherVote
  <2>4. CASE LeaveConsensus
        BY <2>4 DEF LeaveConsensus
  <2>5. ASSUME NEW time \in Percents, Tick(time) PROVE our' = our /\ stalled'
    <3>1. DisputeStalled(level, rounds, our, steady, peersUnchanged)
          BY DEF StalledInv
    <3>2. level = 3 /\ rounds = MinRounds
          BY <3>1, LastLevel DEF DisputeStalled, TypeOK
    <3>3. Advanced(level, time, MinRounds) = 3 /\ Up(rounds, MinRounds) = MinRounds
          BY <3>2 DEF Advanced, Cutoff, Up
    <3>4. peersUnchanged <= peersUnchanged' /\ peersUnchanged' \in Int
          BY <2>5 DEF Tick, Up, TypeOK
    <3>5. our' = our /\ level' = 3 /\ rounds' = MinRounds /\ steady <= steady'
      <4>1. CASE Unopposed
            BY <4>1, <2>5, <3>2 DEF Tick, TypeOK
      <4>2. CASE ~Unopposed
        <5> DEFINE vote == NewVote(Cutoff(3).pct)
        <5>1. /\ level' = 3 /\ our' = vote /\ rounds' = MinRounds
              /\ steady' = IF vote = our THEN Up(steady, StalledRounds) ELSE 0
              BY <4>2, <2>5, <3>2, <3>3 DEF Tick
        <5>2. vote <=> our
              BY <4>2 DEF StalledInv
        <5>3. Cutoff(3).pct \in Int
              BY DEF Cutoff
        <5>4. vote \in BOOLEAN /\ our \in BOOLEAN
              BY <5>3, VoteRule DEF TypeOK
        <5> HIDE DEF vote
        <5>5. vote = our
              BY <5>2, <5>4
        <5>6. steady <= Up(steady, StalledRounds)
              BY DEF Up, TypeOK
        <5> QED BY <5>1, <5>5, <5>6
      <4> QED BY <4>1, <4>2
    <3>6. stalled' = DisputeStalled(level', rounds', our', steady', peersUnchanged')
          BY <2>5 DEF Tick
    <3>7. DisputeStalled(level', rounds', our', steady', peersUnchanged')
          BY <3>1, <3>2, <3>4, <3>5 DEF DisputeStalled, TypeOK
    <3> QED BY <3>5, <3>6, <3>7
  <2> QED BY <2>1, <2>2, <2>3, <2>4, <2>5 DEF Next
<1> QED BY <1>1, <1>2, <1>3, TypeCorrect, PTL DEF Spec, StallHolds

=============================================================================
