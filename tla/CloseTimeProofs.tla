--------------------------- MODULE CloseTimeProofs ---------------------------
(***************************************************************************)
(* That close times agree, and stay agreed, for any number of proposers    *)
(* and observers, any close times and any number of faults.                *)
(***************************************************************************)
EXTENDS CloseTime, InductionLemmas

\* Leaves without arithmetic are for Zenon, which is the default.
USE Zenon

-----------------------------------------------------------------------------
(* Numbers. *)

\* The largest of a set is what its name says.
LEMMA MaxIs ==
    ASSUME NEW S \in SUBSET Int, NEW x \in S, \A y \in S : y <= x
    PROVE  Max(S) = x
<1>1. \A y \in S : x >= y
  OBVIOUS
<1>2. \A z \in S : (\A y \in S : z >= y) => z = x
  BY SMTT(30)
<1> QED
  BY <1>1, <1>2 DEF Max

\* A product of two numbers is not smaller than a factor unless the other is 0.
LEMMA ProductGrows ==
    ASSUME NEW d \in Nat, NEW r \in Nat, d > 0
    PROVE  d * r \in Nat /\ d * r >= r
<1>1. d - 1 \in Nat
  BY SMTT(30)
<1>2. (d - 1) * r \in Nat
  BY <1>1, SMTT(30)
<1>3. d * r = (d - 1) * r + r
  BY SMTT(30)
<1> QED
  BY <1>2, <1>3, SMTT(30)

LEMMA DivMod ==
    ASSUME NEW s \in Nat, NEW r \in Nat, r > 0
    PROVE  /\ s \div r \in Nat /\ s % r \in Nat /\ s % r < r
           /\ s = r * (s \div r) + (s % r)
<1>1. s \div r \in Nat
  BY SMTT(30)
<1>2. s % r \in 0 .. r - 1
  BY SMTT(30)
<1>3. s = r * (s \div r) + (s % r)
  BY Z3
<1> QED
  BY <1>1, <1>2, <1>3, SMTT(30)

LEMMA ModUnique ==
    ASSUME NEW q \in Nat, NEW r \in Nat, NEW h \in Nat, h < r
    PROVE  (r * q + h) % r = h
<1> DEFINE s == r * q + h
           p == s \div r
           m == s % r
<1>1. s \in Nat
  BY SMTT(30)
<1> HIDE DEF s
<1>2. p \in Nat /\ m \in Nat /\ m < r /\ s = r * p + m
  BY <1>1, DivMod, SMTT(30)
<1>3. s = r * q + h
  BY DEF s
<1> HIDE DEF p, m
<1>4. ASSUME NEW a \in Nat, NEW b \in Nat, a < b, NEW x \in Nat, NEW y \in Nat, x < r,
             r * a + x = r * b + y
      PROVE  FALSE
  <2>1. (b - a) * r >= r
    BY <1>4, ProductGrows, SMTT(30)
  <2>2. (b - a) * r = r * b - r * a
    BY <1>4, SMTT(30)
  <2>3. r * a \in Nat /\ r * b \in Nat
    BY SMTT(30)
  <2> QED
    BY <1>4, <2>1, <2>2, <2>3, SMTT(30)
<1>5. ~(p < q) /\ ~(q < p)
  BY <1>2, <1>3, <1>4
<1>6. p = q
  BY <1>2, <1>5, SMTT(30)
<1>7. r * q \in Nat
  BY SMTT(30)
<1>8. m = h
  BY <1>2, <1>3, <1>6, <1>7, SMTT(30)
<1> QED
  BY <1>8 DEF m, s

\* Rounding yields a time, and what is rounded stays as it is.
LEMMA Rounded ==
    ASSUME NEW t \in Nat
    PROVE  RoundCloseTime(t) \in Nat /\ RoundCloseTime(RoundCloseTime(t)) = RoundCloseTime(t)
<1> DEFINE r == Resolution
           h == r \div 2
           s == t + h
           q == s \div r
           w == r * q
<1>1. r \in Nat /\ r > 0
  BY TimesAssumption, SMTT(30)
<1>2. h \in Nat /\ h < r
  BY <1>1, SMTT(30)
<1>3. s \in Nat
  BY <1>2, SMTT(30)
<1> HIDE DEF h, s
<1>4. q \in Nat /\ s % r \in Nat /\ s = w + (s % r)
  BY <1>1, <1>3, DivMod
<1> HIDE DEF q
<1>5. w \in Nat
  BY <1>1, <1>4, SMTT(30)
<1>6. (w + h) % r = h
  BY <1>1, <1>2, <1>4, ModUnique
<1> HIDE DEF w
<1>7. s - (s % r) = w /\ (w + h) - ((w + h) % r) = w
  BY <1>2, <1>4, <1>5, <1>6, SMTT(30)
<1>8. ASSUME NEW u \in Nat PROVE RoundCloseTime(u) = (u + h) - ((u + h) % r)
  <2>1. u # Zero
    BY SMTT(30) DEF Zero
  <2> QED
    BY <2>1 DEF RoundCloseTime, h
<1>9. RoundCloseTime(t) = w
  BY <1>7, <1>8 DEF s
<1>10. RoundCloseTime(w) = w
  BY <1>5, <1>7, <1>8
<1> QED
  BY <1>5, <1>9, <1>10

\* The zero time comes before all others, and the epoch is a rounded time.
LEMMA Zeros ==
    /\ Zero \in Int /\ Zero \notin Nat /\ \A t \in Nat : Zero < t /\ ~(t <= Zero)
    /\ Epoch \in Nat /\ Epoch # Zero /\ \A t \in Nat : Epoch <= t
    /\ None \notin Nat /\ None # Zero
    /\ RoundCloseTime(Zero) = Zero /\ RoundCloseTime(Epoch) = Epoch
<1> DEFINE r == Resolution
           h == r \div 2
<1>1. r \in Nat /\ r > 0
  BY TimesAssumption, SMTT(30)
<1>2. h \in Nat /\ h < r
  BY <1>1, SMTT(30)
<1> HIDE DEF h
<1>3. (r * 0 + h) % r = h
  BY <1>1, <1>2, ModUnique, SMTT(30)
<1>4. (0 + h) - ((0 + h) % r) = 0
  BY <1>1, <1>2, <1>3, SMTT(30)
<1>5. 0 # -1
  BY SMTT(30)
<1>6. RoundCloseTime(0) = (0 + h) - ((0 + h) % r)
  BY <1>5 DEF RoundCloseTime, h, Zero
<1>7. RoundCloseTime(Zero) = Zero
  BY DEF RoundCloseTime
<1>8. /\ Zero \in Int /\ Zero \notin Nat /\ \A t \in Nat : Zero < t /\ ~(t <= Zero)
      /\ Epoch \in Nat /\ Epoch # Zero /\ \A t \in Nat : Epoch <= t
      /\ None \notin Nat /\ None # Zero
  BY SMTT(30) DEF Zero, Epoch, None
<1> QED
  BY <1>4, <1>6, <1>7, <1>8 DEF Epoch

\* What a node may vote for.
Moment == Nat \cup {Zero}

LEMMA Moments ==
    /\ Moment \subseteq Int
    /\ \A t \in Moment : Zero <= t /\ RoundCloseTime(t) \in Moment
          /\ RoundCloseTime(RoundCloseTime(t)) = RoundCloseTime(t)
          /\ (t = Zero <=> RoundCloseTime(t) = Zero)
<1>1. \A t \in Nat : RoundCloseTime(t) \in Nat /\ RoundCloseTime(RoundCloseTime(t)) = RoundCloseTime(t)
  BY Rounded
<1>2. \A t \in Nat : Zero <= t /\ t \in Int
  BY SMTT(30) DEF Zero
<1>3. Zero <= Zero
  BY SMTT(30) DEF Zero
<1> QED
  BY <1>1, <1>2, <1>3, Zeros DEF Moment

\* A share of the participants is at least one and at most all of them.
LEMMA Needed ==
    ASSUME NEW n \in Nat \ {0}, NEW pct \in {50, 65, 70, 75, 95}
    PROVE  ParticipantsNeeded(n, pct) \in Nat /\ ParticipantsNeeded(n, pct) > 0
             /\ ParticipantsNeeded(n, pct) <= n
<1> DEFINE a == (n * pct + pct \div 2) \div 100
<1>1. a \in Nat /\ a <= n
  BY SMTT(30)
<1>2. ParticipantsNeeded(n, pct) = Max({1, a})
  BY DEF ParticipantsNeeded
<1> HIDE DEF a
<1>3. CASE a <= 1
  <2>1. Max({1, a}) = 1
    BY <1>1, <1>3, MaxIs, SMTT(30)
  <2> QED
    BY <1>2, <2>1, SMTT(30)
<1>4. CASE a > 1
  <2>1. Max({1, a}) = a
    BY <1>1, <1>4, MaxIs, SMTT(30)
  <2> QED
    BY <1>1, <1>2, <1>4, <2>1, SMTT(30)
<1> QED
  BY <1>1, <1>3, <1>4, SMTT(30)

-----------------------------------------------------------------------------
(* The tally. *)

Backers(votes, t) == {m \in DOMAIN votes : votes[m] = t}
Count(votes, t) == Cardinality(Backers(votes, t))
Times(votes) == {votes[m] : m \in DOMAIN votes}

\* The largest of the most-voted times.
Leads(votes, w) ==
    /\ w \in Times(votes)
    /\ \A t \in Times(votes) :
          Count(votes, t) < Count(votes, w) \/ (Count(votes, t) = Count(votes, w) /\ t <= w)

LEMMA CountType ==
    ASSUME NEW D, IsFiniteSet(D), NEW votes \in [D -> Moment], NEW t
    PROVE  /\ IsFiniteSet(Backers(votes, t)) /\ Count(votes, t) \in Nat
           /\ Count(votes, t) <= Cardinality(D)
<1>1. Backers(votes, t) \subseteq D
  BY DEF Backers
<1> QED
  BY <1>1, FS_Subset, FS_CardinalityType DEF Count

\* A time that someone votes for has a vote.
LEMMA CountPositive ==
    ASSUME NEW D, IsFiniteSet(D), NEW votes \in [D -> Moment], NEW t
    PROVE  t \in Times(votes) <=> Count(votes, t) > 0
<1>1. t \in Times(votes) <=> Backers(votes, t) # {}
  BY DEF Times, Backers
<1>2. IsFiniteSet(Backers(votes, t)) /\ Count(votes, t) \in Nat
  BY CountType
<1>3. Backers(votes, t) = {} <=> Count(votes, t) = 0
  BY <1>2, FS_EmptySet DEF Count
<1> QED
  BY <1>1, <1>2, <1>3, SMTT(30)

\* There is a leading time.
LEMMA LeaderExists ==
    ASSUME NEW D, IsFiniteSet(D), D # {}, NEW votes \in [D -> Moment]
    PROVE  \E w \in Moment : Leads(votes, w)
<1> DEFINE counts == {Count(votes, t) : t \in Times(votes)}
<1>1. Times(votes) \in SUBSET Moment /\ Times(votes) # {}
  BY DEF Times
<1>2. \A t : Count(votes, t) \in 0 .. Cardinality(D)
  BY CountType, SMTT(30)
<1>3. Cardinality(D) \in Nat
  BY FS_CardinalityType
<1>4. PICK c \in counts : \A d \in counts : d <= c
  <2>1. counts \in SUBSET (0 .. Cardinality(D)) /\ counts # {}
    BY <1>1, <1>2
  <2> HIDE DEF counts
  <2> QED
    BY <1>3, <2>1, GreatestNumber
<1> DEFINE leaders == {t \in Times(votes) : Count(votes, t) = c}
<1>5. leaders \in SUBSET Moment /\ leaders # {}
  BY <1>1
<1>6. IsFiniteSet(leaders)
  <2>1. votes \in Surjection(D, Times(votes))
    BY DEF Times, Surjection
  <2>2. IsFiniteSet(Times(votes))
    BY <2>1, FS_Surjection
  <2> QED
    BY <2>2, FS_Subset
<1>7. PICK w \in leaders : \A t \in leaders : t <= w
  <2> HIDE DEF leaders
  <2> DEFINE later == leaders \ {Zero}
  <2>1. later \in SUBSET Nat /\ IsFiniteSet(later)
    BY <1>5, <1>6, FS_Subset DEF Moment
  <2>2. \A t \in leaders : Zero <= t
    BY <1>5, Moments
  <2>3. CASE later = {}
    BY <1>5, <2>2, <2>3
  <2>4. CASE later # {}
    <3>1. PICK w \in later : \A t \in later : t <= w
      <4> HIDE DEF later
      <4> QED
        BY <2>1, <2>4, FiniteGreatest
    <3>2. \A t \in leaders : t <= w
      BY <1>5, <2>2, <3>1
    <3> QED
      BY <3>1, <3>2
  <2> QED
    BY <2>3, <2>4
<1>8. ASSUME NEW t \in Times(votes)
      PROVE  Count(votes, t) < c \/ (Count(votes, t) = c /\ t <= w)
  <2>1. Count(votes, t) \in Nat /\ c \in Nat /\ Count(votes, t) <= c
    BY <1>2, <1>4, SMTT(30)
  <2>2. Count(votes, t) = c => t <= w
    BY <1>7
  <2> QED
    BY <2>1, <2>2, SMTT(30)
<1> QED
  BY <1>5, <1>7, <1>8 DEF Leads

\* The tally finds the leading time, if it has votes enough.
LEMMA LeaderWins ==
    ASSUME NEW D, IsFiniteSet(D), NEW votes \in [D -> Moment], NEW w, Leads(votes, w), NEW k
    PROVE  MostVotedAscending(votes, k) =
              IF Count(votes, w) < k THEN [time |-> Zero, votes |-> 0]
              ELSE [time |-> w, votes |-> Count(votes, w)]
<1> DEFINE counts == {Count(votes, t) : t \in Times(votes)}
           leaders == {t \in Times(votes) : Count(votes, t) = Max(counts)}
<1>1. \A t : Count(votes, t) \in Nat
  BY CountType
<1>2. Times(votes) \subseteq Int /\ w \in Times(votes)
  BY Moments DEF Times, Leads
<1>3. \A t \in Times(votes) : Count(votes, t) <= Count(votes, w)
  BY <1>1, SMTT(30) DEF Leads
<1>4. Max(counts) = Count(votes, w)
  <2>1. counts \in SUBSET Int /\ Count(votes, w) \in counts
    BY <1>1, <1>2, SMTT(30)
  <2>2. \A y \in counts : y <= Count(votes, w)
    BY <1>3
  <2> HIDE DEF counts
  <2> QED
    BY <2>1, <2>2, MaxIs
<1>5. Max(leaders) = w
  <2>1. leaders \in SUBSET Int /\ w \in leaders
    BY <1>2, <1>4
  <2>2. \A y \in leaders : y <= w
    <3>1. ASSUME NEW y \in leaders PROVE y <= w
      <4>1. y \in Times(votes) /\ Count(votes, y) = Count(votes, w)
        BY <1>4
      <4>2. ~(Count(votes, y) < Count(votes, w))
        BY <1>1, <4>1, SMTT(30)
      <4> QED
        BY <4>1, <4>2 DEF Leads
    <3> QED
      BY <3>1
  <2> HIDE DEF leaders
  <2> QED
    BY <2>1, <2>2, MaxIs
<1>6. MostVotedAscending(votes, k) =
        IF Max(counts) < k THEN [time |-> Zero, votes |-> 0]
        ELSE [time |-> Max(leaders), votes |-> Max(counts)]
  BY DEF MostVotedAscending, Count, Backers, Times
<1> HIDE DEF counts, leaders
<1> QED
  BY <1>4, <1>5, <1>6

LEMMA Fewer ==
    ASSUME NEW D, IsFiniteSet(D), NEW V \in [D -> Moment], NEW P \in [D -> Moment], NEW t,
           \A m \in D : V[m] = t => P[m] = t
    PROVE  Count(V, t) <= Count(P, t)
<1>1. Backers(V, t) \subseteq Backers(P, t)
  BY DEF Backers
<1>2. IsFiniteSet(Backers(P, t))
  BY CountType
<1> QED
  BY <1>1, <1>2, FS_Subset DEF Count

\* A time that leads with k votes is what the tally finds.
Wins(votes, w, k) == Leads(votes, w) /\ ~(Count(votes, w) < k)

\* Voters that move to the outcome of a tally do not change it.
LEMMA Mixed ==
    ASSUME NEW D, IsFiniteSet(D), NEW P \in [D -> Moment], NEW V \in [D -> Moment],
           NEW k \in Nat, NEW w, Wins(P, w, k),
           \A m \in D : V[m] = P[m] \/ V[m] = w
    PROVE  Wins(V, w, k)
<1>1. \A t : Count(P, t) \in Nat /\ Count(V, t) \in Nat
  BY CountType
<1>2. Count(P, w) <= Count(V, w)
  BY Fewer
<1>3. w \in Times(V)
  BY DEF Wins, Leads, Times
<1>4. ASSUME NEW t \in Times(V), t # w
      PROVE  Count(V, t) < Count(V, w) \/ (Count(V, t) = Count(V, w) /\ t <= w)
  <2>1. Count(V, t) <= Count(P, t)
    BY <1>4, Fewer
  <2>2. t \in Times(P)
    BY <1>4 DEF Times
  <2>3. Count(P, t) < Count(P, w) \/ (Count(P, t) = Count(P, w) /\ t <= w)
    BY <2>2 DEF Wins, Leads
  <2> QED
    BY <1>1, <1>2, <2>1, <2>3, SMTT(30)
<1>5. w <= w
  <2>1. w \in Int
    BY <1>3, Moments DEF Times
  <2> QED
    BY <2>1, SMTT(30)
<1>6. Leads(V, w)
  BY <1>3, <1>4, <1>5 DEF Leads
<1>7. ~(Count(V, w) < k)
  BY <1>1, <1>2, SMTT(30) DEF Wins
<1> QED
  BY <1>6, <1>7 DEF Wins

\* A time all vote for wins with all votes.
LEMMA Agreed ==
    ASSUME NEW D, IsFiniteSet(D), D # {}, NEW V \in [D -> Moment], NEW t \in Moment,
           \A m \in D : V[m] = t, NEW k \in Nat, k <= Cardinality(D)
    PROVE  MostVotedAscending(V, k) = [time |-> t, votes |-> Cardinality(D)]
<1>1. Backers(V, t) = D /\ Times(V) = {t}
  BY DEF Backers, Times
<1>2. Count(V, t) = Cardinality(D) /\ Cardinality(D) \in Nat
  BY <1>1, FS_CardinalityType DEF Count
<1>3. Leads(V, t)
  BY <1>1, Moments, SMTT(30) DEF Leads
<1>4. ~(Count(V, t) < k)
  BY <1>2, SMTT(30)
<1> QED
  BY <1>2, <1>3, <1>4, LeaderWins

\* The tally's outcome is a time someone voted for, or none.
LEMMA Outcome ==
    ASSUME NEW D, IsFiniteSet(D), D # {}, NEW V \in [D -> Moment], NEW k \in Nat
    PROVE  /\ MostVotedAscending(V, k).time \in {Zero} \cup Times(V)
           /\ MostVotedAscending(V, k).votes \in Nat
<1>1. PICK u \in Moment : Leads(V, u)
  BY LeaderExists
<1>2. Count(V, u) \in Nat /\ u \in Times(V)
  BY <1>1, CountType DEF Leads
<1> QED
  BY <1>1, <1>2, LeaderWins, SMTT(30) DEF Zero

-----------------------------------------------------------------------------
(* Votes for no time, which only those who cast them count as such. *)

LEMMA AtMostOne ==
    ASSUME NEW D, IsFiniteSet(D), NEW V \in [D -> Moment], NEW t, NEW n,
           \A m \in D : V[m] = t => m = n
    PROVE  Count(V, t) <= 1
<1>1. Backers(V, t) \in SUBSET {n}
  BY DEF Backers
<1>2. IsFiniteSet({n}) /\ Cardinality({n}) = 1
  BY FS_Singleton
<1>3. Cardinality(Backers(V, t)) <= Cardinality({n})
  BY <1>1, <1>2, FS_Subset
<1> QED
  BY <1>2, <1>3 DEF Count

\* One voter that moves away costs a time one vote.
LEMMA OneLess ==
    ASSUME NEW D, IsFiniteSet(D), NEW V \in [D -> Moment], NEW P \in [D -> Moment],
           NEW t, NEW n, \A m \in D \ {n} : P[m] = t => V[m] = t
    PROVE  Count(P, t) <= Count(V, t) + 1
<1>1. Backers(P, t) \ {n} \in SUBSET Backers(V, t)
  BY DEF Backers
<1>2. IsFiniteSet(Backers(P, t)) /\ IsFiniteSet(Backers(V, t))
      /\ Count(P, t) \in Nat /\ Count(V, t) \in Nat
  BY CountType
<1>3. Cardinality(Backers(P, t) \ {n}) <= Count(V, t)
  BY <1>1, <1>2, FS_Subset DEF Count
<1>4. Cardinality(Backers(P, t) \ {n}) \in {Count(P, t) - 1, Count(P, t)}
  BY <1>2, FS_RemoveElement DEF Count
<1> QED
  BY <1>2, <1>3, <1>4, SMTT(30)

Camps(votes, t, u) == Backers(votes, t) \cup Backers(votes, u)

\* The votes for two times.
LEMMA CampsCount ==
    ASSUME NEW D, IsFiniteSet(D), NEW V \in [D -> Moment], NEW t, NEW u, t # u
    PROVE  /\ IsFiniteSet(Camps(V, t, u)) /\ Cardinality(Camps(V, t, u)) \in Nat
           /\ Cardinality(Camps(V, t, u)) = Count(V, t) + Count(V, u)
<1>1. Backers(V, t) \cap Backers(V, u) = {}
  BY DEF Backers
<1>2. IsFiniteSet(Backers(V, t)) /\ IsFiniteSet(Backers(V, u))
      /\ Count(V, t) \in Nat /\ Count(V, u) \in Nat
  BY CountType
<1>3. /\ IsFiniteSet(Camps(V, t, u))
      /\ Cardinality(Camps(V, t, u)) = Count(V, t) + Count(V, u)
                                         - Cardinality(Backers(V, t) \cap Backers(V, u))
  BY <1>2, FS_Union DEF Count, Camps
<1>4. Cardinality(Backers(V, t) \cap Backers(V, u)) = 0
  BY <1>1, FS_EmptySet
<1> QED
  BY <1>2, <1>3, <1>4, SMTT(30)

\* If every time but the epoch lacks the votes, the outcome is that or none.
LEMMA DriftOutcome ==
    ASSUME NEW D, IsFiniteSet(D), D # {}, NEW V \in [D -> Moment], NEW k \in Nat,
           \A t \in Nat \ {Epoch} : Count(V, t) < k
    PROVE  MostVotedAscending(V, k).time \in {Zero, Epoch}
<1>1. PICK u \in Moment : Leads(V, u)
  BY LeaderExists
<1>2. MostVotedAscending(V, k).time = IF Count(V, u) < k THEN Zero ELSE u
  BY <1>1, LeaderWins, SMTT(30)
<1>3. u \notin {Zero, Epoch} => Count(V, u) < k
  BY DEF Moment
<1> QED
  BY <1>2, <1>3

\* Where all but one vote for the epoch and that one for no time, the epoch
\* wins if it need not have all votes.
LEMMA LastToDrift ==
    ASSUME NEW D, IsFiniteSet(D), NEW V \in [D -> Moment], NEW k \in Nat, NEW n \in D,
           D # {n}, V[n] = Zero, \A m \in D \ {n} : V[m] = Epoch
    PROVE  /\ Cardinality(D) \in Nat /\ Cardinality(D) > 1
           /\ MostVotedAscending(V, k) =
                IF Cardinality(D) - 1 < k THEN [time |-> Zero, votes |-> 0]
                ELSE [time |-> Epoch, votes |-> Cardinality(D) - 1]
<1>1. Epoch # Zero /\ Zero <= Epoch /\ Epoch <= Epoch
  BY SMTT(30) DEF Zero, Epoch
<1>2. Backers(V, Epoch) = D \ {n} /\ Times(V) = {Zero, Epoch}
  <2>1. PICK j \in D : j # n
    OBVIOUS
  <2>2. V[j] = Epoch
    BY <2>1
  <2>3. Backers(V, Epoch) = D \ {n}
    BY <1>1 DEF Backers
  <2>4. Zero \in Times(V) /\ Epoch \in Times(V)
    BY <2>1, <2>2 DEF Times
  <2>5. \A t \in Times(V) : t \in {Zero, Epoch}
    BY DEF Times
  <2> QED
    BY <2>3, <2>4, <2>5
<1>3. Cardinality(D) \in Nat /\ Count(V, Epoch) = Cardinality(D) - 1
  BY <1>2, FS_RemoveElement, FS_CardinalityType DEF Count
<1>4. Count(V, Epoch) \in Nat /\ Count(V, Zero) \in Nat /\ Count(V, Epoch) > 0
  BY <1>2, CountType, CountPositive
<1>5. Count(V, Zero) <= 1
  <2>1. \A m \in D : V[m] = Zero => m = n
    BY <1>1
  <2> QED
    BY <2>1, AtMostOne
<1>6. Leads(V, Epoch)
  BY <1>1, <1>2, <1>4, <1>5, SMTT(30) DEF Leads
<1>7. Cardinality(D) > 1
  BY <1>3, <1>4, SMTT(30)
<1> QED
  BY <1>3, <1>6, <1>7, LeaderWins

\* The epoch is one vote ahead of u, which is ahead of all others: who votes
\* for no time and is counted for the epoch makes the difference.
Split(P, u, k) ==
    /\ u \in Nat \ {Epoch} /\ ~(Count(P, u) < k)
    /\ Count(P, Epoch) = Count(P, u) + 1
    /\ \A t \in Times(P) \ {Epoch} :
          Count(P, t) < Count(P, u) \/ (Count(P, t) = Count(P, u) /\ t <= u)

\* V is P but for voters that have moved to one of the two, or n to no time.
Between(V, P, u, n) ==
    \A m \in DOMAIN P : V[m] \in {P[m], Epoch, u} \/ (m = n /\ V[m] = Zero)

\* Voters that move to one of the two leave the outcome between them.
LEMMA SplitOutcome ==
    ASSUME NEW D, IsFiniteSet(D), D # {}, NEW P \in [D -> Nat], NEW V \in [D -> Moment],
           NEW k \in Nat, k > 0, NEW u, Split(P, u, k), NEW n, Between(V, P, u, n)
    PROVE  MostVotedAscending(V, k).time \in {Epoch, u}
<1>0. \A m \in D : V[m] \in {P[m], Epoch, u} \/ (m = n /\ V[m] = Zero)
  BY DEF Between
<1>1. /\ P \in [D -> Moment] /\ u \in Nat /\ u # Epoch /\ u # Zero /\ Epoch # Zero
      /\ \A t \in Nat : t # Zero
  BY Zeros DEF Split, Moment
<1>2. \A t : Count(P, t) \in Nat /\ Count(V, t) \in Nat
  BY <1>1, CountType
<1>3. Count(V, Epoch) + Count(V, u) >= 2 * Count(P, u)
  <2> DEFINE was == Camps(P, Epoch, u)
             now == Camps(V, Epoch, u)
  <2>1. was \ {n} \in SUBSET now
    BY <1>0, <1>1 DEF Camps, Backers
  <2>2. IsFiniteSet(was) /\ Cardinality(was) \in Nat /\ Cardinality(was) = Count(P, Epoch) + Count(P, u)
    BY <1>1, CampsCount
  <2>3. IsFiniteSet(now) /\ Cardinality(now) \in Nat /\ Cardinality(now) = Count(V, Epoch) + Count(V, u)
    BY <1>1, CampsCount
  <2> HIDE DEF was, now
  <2>4. Cardinality(was \ {n}) <= Cardinality(now)
    BY <2>1, <2>3, FS_Subset
  <2>5. Cardinality(was \ {n}) \in {Cardinality(was) - 1, Cardinality(was)}
    BY <2>2, FS_RemoveElement
  <2>6. Count(P, Epoch) = Count(P, u) + 1
    BY DEF Split
  <2> QED
    BY <1>2, <2>2, <2>3, <2>4, <2>5, <2>6, SMTT(30)
<1>4. PICK x \in Moment : Leads(V, x)
  BY LeaderExists
<1>5. ASSUME NEW t \in {Epoch, u}
      PROVE  Count(V, t) <= Count(V, x) /\ (Count(V, t) = Count(V, x) /\ Count(V, t) > 0 => t <= x)
  <2>1. CASE t \in Times(V)
    BY <1>2, <1>4, <2>1, SMTT(30) DEF Leads
  <2>2. CASE t \notin Times(V)
    <3>1. ~(Count(V, t) > 0)
      BY <2>2, CountPositive
    <3> QED
      BY <1>2, <3>1, SMTT(30)
  <2> QED
    BY <2>1, <2>2
<1>6. Count(V, x) >= Count(P, u) /\ Count(P, u) >= k
  BY <1>2, <1>3, <1>5, SMTT(30) DEF Split
<1>7. ASSUME x \notin {Epoch, u}, Count(V, x) <= Count(P, u) PROVE u <= x
  BY <1>2, <1>3, <1>5, <1>6, <1>7, SMTT(30)
<1>8. x # Zero
  <2>1. SUFFICES ASSUME x = Zero PROVE FALSE
    OBVIOUS
  <2>2. \A m \in D : V[m] = Zero => m = n
    BY <1>0, <1>1
  <2>3. Count(V, x) <= 1
    BY <2>1, <2>2, AtMostOne
  <2>4. Count(V, x) <= Count(P, u)
    BY <1>2, <1>6, <2>3, SMTT(30)
  <2> QED
    BY <1>1, <1>7, <2>1, <2>4, Zeros
<1>9. x \in {Epoch, u}
  <2>1. SUFFICES ASSUME x \notin {Epoch, u} PROVE FALSE
    OBVIOUS
  <2>2. \A m \in D : V[m] = x => P[m] = x
    BY <1>0, <1>1, <1>8, <2>1
  <2>3. Count(V, x) <= Count(P, x)
    BY <1>1, <2>2, Fewer
  <2>4. x \in Times(P)
    BY <1>4, <2>2 DEF Leads, Times
  <2>5. Count(P, x) < Count(P, u) \/ (Count(P, x) = Count(P, u) /\ x <= u)
    BY <2>1, <2>4 DEF Split
  <2>6. Count(V, x) <= Count(P, u) /\ x <= u
    BY <1>2, <1>6, <2>3, <2>5, SMTT(30)
  <2>7. u <= x
    BY <1>7, <2>1, <2>6
  <2>8. x \in Int /\ u \in Int
    BY <1>1, Moments DEF Moment
  <2> QED
    BY <2>1, <2>6, <2>7, <2>8, SMTT(30)
<1>10. ~(Count(V, x) < k)
  BY <1>2, <1>6, SMTT(30)
<1>11. MostVotedAscending(V, k) = [time |-> x, votes |-> Count(V, x)]
  BY <1>4, <1>10, LeaderWins
<1> QED
  BY <1>9, <1>11, SMTT(30)

\* If all voters are in the two camps, one of the camps wins.
LEMMA SplitEnds ==
    ASSUME NEW D, IsFiniteSet(D), D # {}, NEW P \in [D -> Nat], NEW V \in [D -> Nat],
           NEW k \in Nat, NEW u, Split(P, u, k), \A m \in D : V[m] \in {Epoch, u}
    PROVE  \E w \in {Epoch, u} : Wins(V, w, k)
<1>1. P \in [D -> Moment] /\ V \in [D -> Moment] /\ u # Epoch
  BY DEF Split, Moment
<1>2. \A t : Count(P, t) \in Nat /\ Count(V, t) \in Nat
  BY <1>1, CountType
<1> DEFINE was == Camps(P, Epoch, u)
<1>3. IsFiniteSet(was) /\ Cardinality(was) \in Nat /\ Cardinality(was) = Count(P, Epoch) + Count(P, u)
  BY <1>1, CampsCount
<1>4. Cardinality(was) <= Cardinality(D)
  <2>1. was \in SUBSET D
    BY DEF Camps, Backers
  <2> QED
    BY <2>1, FS_Subset
<1>5. Camps(V, Epoch, u) = D
  BY DEF Camps, Backers
<1>6. Cardinality(D) \in Nat /\ Cardinality(D) = Count(V, Epoch) + Count(V, u)
  BY <1>1, <1>5, CampsCount
<1>7. PICK w \in Moment : Leads(V, w)
  BY <1>1, LeaderExists
<1>8. w \in {Epoch, u}
  BY <1>7 DEF Leads, Times
<1>9. ASSUME NEW t \in {Epoch, u} PROVE Count(V, t) <= Count(V, w)
  <2>1. CASE t \in Times(V)
    BY <1>2, <1>7, <2>1, SMTT(30) DEF Leads
  <2>2. CASE t \notin Times(V)
    <3>1. ~(Count(V, t) > 0)
      BY <1>1, <2>2, CountPositive
    <3> QED
      BY <1>2, <3>1, SMTT(30)
  <2> QED
    BY <2>1, <2>2
<1> HIDE DEF was
<1>10. ~(Count(V, w) < k)
  BY <1>2, <1>3, <1>4, <1>6, <1>9, SMTT(30) DEF Split
<1> QED
  BY <1>7, <1>8, <1>10 DEF Wins

\* The votes as n counts them, where the nodes of Z stand at no time and all
\* others see them at the epoch.
View(P, Z, n) == [m \in DOMAIN P |-> IF m = n /\ m \in Z THEN Zero ELSE P[m]]

\* V is P but for one voter of the epoch, who may vote for no time.
Like(V, P) ==
    /\ \A t \in Nat \ {Epoch} : Count(V, t) = Count(P, t)
    /\ Count(V, Zero) <= 1
    /\ Count(V, Epoch) <= Count(P, Epoch) /\ Count(P, Epoch) <= Count(V, Epoch) + 1
    /\ \A t \in Times(V) : t = Zero \/ t \in Times(P)

LEMMA ViewCounts ==
    ASSUME NEW D, IsFiniteSet(D), NEW P \in [D -> Nat], NEW Z \in SUBSET D,
           \A m \in Z : P[m] = Epoch, NEW n
    PROVE  View(P, Z, n) \in [D -> Moment] /\ Like(View(P, Z, n), P)
<1> DEFINE V == View(P, Z, n)
<1>1. P \in [D -> Moment] /\ V \in [D -> Moment]
  BY DEF View, Moment
<1>2. \A m \in D : V[m] = IF m = n /\ m \in Z THEN Zero ELSE P[m]
  BY DEF View
<1>3. \A t \in Nat : t # Zero
  BY Zeros
<1> HIDE DEF V
<1>4. ASSUME NEW t \in Nat \ {Epoch} PROVE Count(V, t) = Count(P, t)
  <2>1. Backers(V, t) = Backers(P, t)
    BY <1>1, <1>2, <1>3 DEF Backers
  <2> QED
    BY <2>1 DEF Count
<1>5. Count(V, Zero) <= 1
  <2>1. \A m \in D : V[m] = Zero => m = n
    BY <1>2, <1>3
  <2> QED
    BY <1>1, <2>1, AtMostOne
<1>6. Count(V, Epoch) <= Count(P, Epoch)
  <2>1. \A m \in D : V[m] = Epoch => P[m] = Epoch
    BY <1>2
  <2> QED
    BY <1>1, <2>1, Fewer
<1>7. Count(P, Epoch) <= Count(V, Epoch) + 1
  <2>1. \A m \in D \ {n} : P[m] = Epoch => V[m] = Epoch
    BY <1>2
  <2> QED
    BY <1>1, <2>1, OneLess
<1>8. \A t \in Times(V) : t = Zero \/ t \in Times(P)
  BY <1>1, <1>2 DEF Times
<1> QED
  BY <1>1, <1>4, <1>5, <1>6, <1>7, <1>8 DEF V, Like

\* All nodes find the same time, or no time but the epoch has the votes, or
\* the epoch and one other time are a vote apart.
LEMMA Trichotomy ==
    ASSUME NEW D, IsFiniteSet(D), NEW P \in [D -> Nat], NEW Z \in SUBSET D,
           \A m \in Z : P[m] = Epoch, NEW k \in Nat, k > 0
    PROVE  \/ \E w \in Nat \cap Times(P) : \A n : Wins(View(P, Z, n), w, k)
           \/ \A t \in Nat \ {Epoch} : Count(P, t) < k
           \/ \E u \in Times(P) : Split(P, u, k)
<1>1. SUFFICES ASSUME NEW t0 \in Nat \ {Epoch}, ~(Count(P, t0) < k)
               PROVE  \/ \E w \in Nat \cap Times(P) : \A n : Wins(View(P, Z, n), w, k)
                      \/ \E u \in Times(P) : Split(P, u, k)
  OBVIOUS
<1>2. P \in [D -> Moment]
  BY DEF Moment
<1>3. \A t : Count(P, t) \in Nat
  BY <1>2, CountType
<1>4. PICK u \in (Times(P) \cap Nat) \ {Epoch} :
         \A t \in Times(P) \ {Epoch} :
            Count(P, t) < Count(P, u) \/ (Count(P, t) = Count(P, u) /\ t <= u)
  <2> DEFINE C == {m \in D : P[m] # Epoch}
             Q == [m \in C |-> P[m]]
  <2>1. IsFiniteSet(C) /\ Q \in [C -> Moment]
    BY <1>2, FS_Subset
  <2>2. t0 \in Times(P)
    <3>1. Count(P, t0) > 0
      BY <1>1, <1>3, SMTT(30)
    <3> QED
      BY <1>2, <3>1, CountPositive
  <2>3. C # {}
    BY <2>2 DEF Times
  <2>4. Times(Q) = Times(P) \ {Epoch}
    BY DEF Times
  <2>5. ASSUME NEW t \in Times(P) \ {Epoch} PROVE Count(Q, t) = Count(P, t)
    <3>1. Backers(Q, t) = Backers(P, t)
      BY DEF Backers
    <3> QED
      BY <3>1 DEF Count
  <2> HIDE DEF C, Q
  <2>6. PICK u \in Moment : Leads(Q, u)
    BY <2>1, <2>3, LeaderExists
  <2>7. u \in Times(P) \ {Epoch} /\ u \in Nat
    BY <2>4, <2>6 DEF Leads, Times
  <2> QED
    BY <2>4, <2>5, <2>6, <2>7 DEF Leads
<1>5. ~(Count(P, u) < k) /\ Count(P, u) > 0
  <2>1. Count(P, t0) <= Count(P, u)
    <3>1. t0 \in Times(P)
      <4>1. Count(P, t0) > 0
        BY <1>1, <1>3, SMTT(30)
      <4> QED
        BY <1>2, <4>1, CountPositive
    <3> QED
      BY <1>3, <1>4, <3>1, SMTT(30)
  <2> QED
    BY <1>1, <1>3, <2>1, SMTT(30)
<1>6. \A n, t : Count(View(P, Z, n), t) \in Nat
  BY ViewCounts, CountType
<1>7. CASE Count(P, Epoch) <= Count(P, u)
  <2>1. ASSUME NEW n PROVE Wins(View(P, Z, n), u, k)
    <3> DEFINE V == View(P, Z, n)
    <3>1. V \in [D -> Moment] /\ Like(V, P)
      BY ViewCounts
    <3>2. \A t : Count(V, t) \in Nat
      BY <1>6
    <3> HIDE DEF V
    <3>3. Count(V, u) = Count(P, u)
      BY <1>4, <3>1 DEF Like
    <3>4. u \in Times(V)
      BY <1>5, <3>1, <3>3, CountPositive
    <3>5. ASSUME NEW t \in Times(V)
          PROVE  Count(V, t) < Count(V, u) \/ (Count(V, t) = Count(V, u) /\ t <= u)
      <4>1. CASE t = Zero
        <5>1. Zero <= u
          BY <1>4, SMTT(30) DEF Zero
        <5> QED
          BY <1>3, <1>5, <3>1, <3>2, <3>3, <4>1, <5>1, SMTT(30) DEF Like
      <4>2. CASE t = Epoch
        <5>1. Epoch <= u
          BY <1>4, Zeros
        <5> QED
          BY <1>3, <1>7, <3>1, <3>2, <3>3, <4>2, <5>1, SMTT(30) DEF Like
      <4>3. CASE t \notin {Zero, Epoch}
        <5>1. t \in Times(P) \ {Epoch} /\ t \in Nat \ {Epoch}
          BY <3>1, <3>5, <4>3 DEF Times, Like
        <5>2. Count(V, t) = Count(P, t)
          BY <3>1, <5>1 DEF Like
        <5> QED
          BY <1>4, <3>3, <5>1, <5>2
      <4> QED
        BY <4>1, <4>2, <4>3
    <3>6. Leads(V, u)
      BY <3>4, <3>5 DEF Leads
    <3> QED
      BY <1>5, <3>6, <3>3 DEF Wins, V
  <2> QED
    BY <1>4, <2>1
<1>8. CASE Count(P, Epoch) > Count(P, u) + 1
  <2>1. Epoch \in Nat /\ Epoch \in Times(P)
    <3>1. Count(P, Epoch) > 0
      BY <1>3, <1>8, SMTT(30)
    <3> QED
      BY <1>2, <3>1, CountPositive, Zeros
  <2>2. ASSUME NEW n PROVE Wins(View(P, Z, n), Epoch, k)
    <3> DEFINE V == View(P, Z, n)
    <3>1. V \in [D -> Moment] /\ Like(V, P)
      BY ViewCounts
    <3>2. \A t : Count(V, t) \in Nat
      BY <1>6
    <3> HIDE DEF V
    <3>3. Count(V, Epoch) > Count(P, u)
      BY <1>3, <1>8, <3>1, <3>2, SMTT(30) DEF Like
    <3>4. Count(V, Epoch) > 0 /\ ~(Count(V, Epoch) < k)
      BY <1>3, <1>5, <3>2, <3>3, SMTT(30)
    <3>5. Epoch \in Times(V)
      BY <3>1, <3>4, CountPositive
    <3>6. ASSUME NEW t \in Times(V)
          PROVE  \/ Count(V, t) < Count(V, Epoch)
                 \/ Count(V, t) = Count(V, Epoch) /\ t <= Epoch
      <4>1. CASE t = Zero
        BY <1>3, <1>5, <3>1, <3>2, <3>3, <4>1, SMTT(30) DEF Like
      <4>2. CASE t = Epoch
        BY <2>1, <4>2, Zeros
      <4>3. CASE t \notin {Zero, Epoch}
        <5>1. t \in Times(P) \ {Epoch} /\ t \in Nat \ {Epoch}
          BY <3>1, <3>6, <4>3 DEF Times, Like
        <5>2. Count(V, t) = Count(P, t) /\ Count(P, t) <= Count(P, u)
          BY <1>3, <1>4, <3>1, <5>1, SMTT(30) DEF Like
        <5> QED
          BY <1>3, <3>2, <3>3, <5>2, SMTT(30)
      <4> QED
        BY <4>1, <4>2, <4>3
    <3>7. Leads(V, Epoch)
      BY <3>5, <3>6 DEF Leads
    <3> QED
      BY <3>4, <3>7 DEF Wins, V
  <2> QED
    BY <2>1, <2>2
<1>9. CASE Count(P, Epoch) = Count(P, u) + 1
  <2>1. Split(P, u, k)
    BY <1>4, <1>5, <1>9 DEF Split
  <2> QED
    BY <1>4, <2>1
<1> QED
  BY <1>3, <1>7, <1>8, <1>9, SMTT(30)

-----------------------------------------------------------------------------
(* One node's update of its position. *)

LEMMA Stamps ==
    /\ CloseTimes \subseteq Moment /\ Zero \in CloseTimes /\ Epoch \in CloseTimes
    /\ WireTimes \subseteq Nat /\ WireTimes \subseteq CloseTimes
    /\ \A t \in CloseTimes : /\ RoundCloseTime(t) \in CloseTimes
                              /\ Wire(t) \in WireTimes
                              /\ RoundCloseTime(Wire(t)) = Wire(RoundCloseTime(t))
    /\ None \notin CloseTimes
<1>1. \A t \in Nat : RoundCloseTime(t) \in Nat
                       /\ RoundCloseTime(RoundCloseTime(t)) = RoundCloseTime(t)
  BY Rounded
<1>2. RawTimes \subseteq Nat
  BY TimesAssumption
<1>3. CloseTimes \subseteq Moment
  BY <1>1, <1>2, Zeros DEF CloseTimes, Moment
<1>4. \A t \in CloseTimes : RoundCloseTime(t) \in CloseTimes
  <2>1. ASSUME NEW t \in CloseTimes PROVE RoundCloseTime(t) \in CloseTimes
    <3>1. CASE t \in {Zero, Epoch}
      BY <3>1, Zeros DEF CloseTimes
    <3>2. CASE t \in RawTimes
      BY <3>2 DEF CloseTimes
    <3>3. CASE t \in {RoundCloseTime(r) : r \in RawTimes}
      BY <1>1, <1>2, <2>1, <3>3
    <3> QED
      BY <3>1, <3>2, <3>3 DEF CloseTimes
  <2> QED
    BY <2>1
<1>5. Zero \in CloseTimes /\ Epoch \in CloseTimes /\ Epoch # Zero
  BY Zeros DEF CloseTimes
<1>6. WireTimes \subseteq Nat /\ WireTimes \subseteq CloseTimes
  BY <1>3 DEF WireTimes, Moment
<1>7. ASSUME NEW t \in CloseTimes
      PROVE  Wire(t) \in WireTimes /\ RoundCloseTime(Wire(t)) = Wire(RoundCloseTime(t))
  <2>1. t = Zero <=> RoundCloseTime(t) = Zero
    BY <1>3, Moments
  <2> QED
    BY <1>5, <2>1, Zeros DEF Wire, WireTimes
<1>8. None \notin CloseTimes
  BY <1>3, Zeros DEF Moment
<1> QED
  BY <1>3, <1>4, <1>5, <1>6, <1>7, <1>8

\* The voters n counts.
Voters(n, peers) == peers \cup {k \in {n} : mode[k] = "proposing"}

LEMMA VotesAre ==
    ASSUME TypeOK, NEW n \in Nodes, NEW peers \in SUBSET Positions(n)
    PROVE  /\ IsFiniteSet(Voters(n, peers))
           /\ Votes(n, peers) \in [Voters(n, peers) -> Moment]
           /\ \A m \in Voters(n, peers) :
                 /\ Votes(n, peers)[m] \in CloseTimes
                 /\ RoundCloseTime(Votes(n, peers)[m]) = Votes(n, peers)[m]
                 /\ Votes(n, peers)[m] = RoundCloseTime(IF m = n THEN own[n] ELSE seen[n][m])
<1>1. Voters(n, peers) \subseteq Nodes
  BY DEF Voters, Positions
<1>2. IsFiniteSet(Voters(n, peers))
  BY <1>1, NodesAssumption, FS_Subset
<1>3. ASSUME NEW m \in Voters(n, peers)
      PROVE  (IF m = n THEN own[n] ELSE seen[n][m]) \in CloseTimes
  <2>1. own[n] \in CloseTimes
    BY DEF TypeOK
  <2>2. ASSUME m # n PROVE seen[n][m] \in CloseTimes
    <3>1. m \in Nodes /\ seen[n][m] # None
      BY <1>3, <2>2 DEF Voters, Positions
    <3>2. seen[n][m] \in WireTimes \cup {None}
      BY <3>1 DEF TypeOK
    <3> QED
      BY <3>1, <3>2, Stamps
  <2> QED
    BY <2>1, <2>2
<1>4. Votes(n, peers) = [m \in Voters(n, peers) |->
                            RoundCloseTime(IF m = n THEN own[n] ELSE seen[n][m])]
  BY DEF Votes, Voters
<1>5. ASSUME NEW m \in Voters(n, peers), NEW t, t = (IF m = n THEN own[n] ELSE seen[n][m])
      PROVE  RoundCloseTime(t) \in CloseTimes /\ RoundCloseTime(t) \in Moment
               /\ RoundCloseTime(RoundCloseTime(t)) = RoundCloseTime(t)
  BY <1>3, <1>5, Stamps, Moments
<1> QED
  BY <1>2, <1>4, <1>5

\* The position updateCloseTimePosition takes when n holds positions.
LEMMA Updated ==
    ASSUME TypeOK, NEW n \in Nodes, NEW peers \in SUBSET Positions(n), peers # {},
           NEW l \in 0 .. 3, NEW k, k = ParticipantsNeeded(Cardinality(Voters(n, peers)), Pct[l + 1]),
           NEW b, b = MostVotedAscending(Votes(n, peers), k)
    PROVE  /\ k \in Nat /\ k > 0 /\ k <= Cardinality(Voters(n, peers))
           /\ b.time \in CloseTimes /\ RoundCloseTime(b.time) = b.time
           /\ UpdateCloseTimePosition(n, peers, l).own =
                 IF mode[n] = "proposing" /\ b.time # RoundCloseTime(own[n])
                 THEN b.time ELSE own[n]
           /\ UpdateCloseTimePosition(n, peers, l).chosen \in {b.time, None}
           /\ b.votes >= ParticipantsNeeded(Cardinality(Voters(n, peers)), ConsensusPct) =>
                 UpdateCloseTimePosition(n, peers, l).chosen = b.time
           /\ b.votes = Cardinality(Voters(n, peers)) =>
                 UpdateCloseTimePosition(n, peers, l).chosen = b.time
<1> DEFINE D == Voters(n, peers)
           V == Votes(n, peers)
           q == ParticipantsNeeded(Cardinality(D), ConsensusPct)
<1>1. IsFiniteSet(D) /\ V \in [D -> Moment] /\ D # {} /\ DOMAIN V = D
  BY VotesAre DEF Voters
<1>2. \A m \in D : V[m] \in CloseTimes /\ RoundCloseTime(V[m]) = V[m]
  BY VotesAre
<1>3. Cardinality(D) \in Nat \ {0}
  BY <1>1, FS_EmptySet, FS_CardinalityType
<1>4. Pct[l + 1] \in {50, 65, 70, 75, 95}
  BY SMTT(30) DEF Pct
<1>5. k \in Nat /\ k > 0 /\ k <= Cardinality(D)
  BY <1>3, <1>4, Needed, SMTT(30)
<1>6. q \in Nat /\ q <= Cardinality(D)
  BY <1>3, Needed DEF ConsensusPct
<1>7. UpdateCloseTimePosition(n, peers, l) =
        [own |-> IF mode[n] = "proposing" /\ b.time # RoundCloseTime(own[n])
                 THEN b.time ELSE own[n],
         chosen |-> IF b.votes >= q THEN b.time ELSE None]
  BY <1>1 DEF UpdateCloseTimePosition
<1> HIDE DEF q
<1>8. b.time \in {Zero} \cup Times(V)
  <2> HIDE DEF D, V
  <2> QED
    BY <1>1, <1>5, Outcome DEF V
<1>9. b.time \in CloseTimes /\ RoundCloseTime(b.time) = b.time
  BY <1>1, <1>2, <1>8, Stamps, Zeros DEF Times
<1> HIDE DEF D, V
<1>10. b.votes = Cardinality(D) => b.votes >= q
  BY <1>3, <1>6
<1> QED
  BY <1>5, <1>7, <1>9, <1>10, SMTT(30) DEF D, q

LEMMA UpdatedType ==
    ASSUME TypeOK, NEW n \in Nodes, NEW peers \in SUBSET Positions(n), NEW l \in 0 .. 3
    PROVE  /\ UpdateCloseTimePosition(n, peers, l).own \in CloseTimes
           /\ UpdateCloseTimePosition(n, peers, l).chosen \in CloseTimes \cup {None}
<1>1. CASE peers = {}
  BY <1>1, Stamps DEF UpdateCloseTimePosition, TypeOK
<1>2. CASE peers # {}
  <2> DEFINE k == ParticipantsNeeded(Cardinality(Voters(n, peers)), Pct[l + 1])
             b == MostVotedAscending(Votes(n, peers), k)
  <2> HIDE DEF k, b
  <2>1. b.time \in CloseTimes
    BY <1>2, Updated DEF k, b
  <2>2. UpdateCloseTimePosition(n, peers, l).own \in {b.time, own[n]}
    BY <1>2, Updated, SMTT(30) DEF k, b
  <2>3. UpdateCloseTimePosition(n, peers, l).chosen \in {b.time, None}
    BY <1>2, Updated DEF k, b
  <2> QED
    BY <2>1, <2>2, <2>3 DEF TypeOK
<1> QED
  BY <1>1, <1>2

\* What a tally writes.
LEMMA TallyStep ==
    ASSUME TypeOK, NEW n \in Nodes, NEW peers \in SUBSET Positions(n), Tally(n, peers)
    PROVE  \E l \in 0 .. 3 :
              LET new == UpdateCloseTimePosition(n, peers, l)
              IN  /\ own' = [own EXCEPT ![n] = new.own]
                  /\ chosen' = [chosen EXCEPT ![n] = new.chosen]
                  /\ level' = [level EXCEPT ![n] = l]
                  /\ calm' = 0 \/ (calm' = calm /\ l = level[n])
<1>1. PICK up \in {0, 1} :
          LET new == UpdateCloseTimePosition(n, peers, level[n] + up)
          IN  /\ level[n] + up <= 3
              /\ own' = [own EXCEPT ![n] = new.own]
              /\ chosen' = [chosen EXCEPT ![n] = new.chosen]
              /\ level' = [level EXCEPT ![n] = @ + up]
              /\ calm' = IF up = 1 THEN 0 ELSE calm
  BY DEF Tally
<1> DEFINE l == level[n] + up
<1>2. level[n] \in 0 .. 3 /\ l \in 0 .. 3 /\ (up = 0 => l = level[n])
  BY <1>1, SMTT(30) DEF TypeOK
<1>3. level' = [level EXCEPT ![n] = l]
  BY <1>1
<1>4. own' = [own EXCEPT ![n] = UpdateCloseTimePosition(n, peers, l).own]
      /\ chosen' = [chosen EXCEPT ![n] = UpdateCloseTimePosition(n, peers, l).chosen]
  BY <1>1
<1>5. calm' = 0 \/ (calm' = calm /\ l = level[n])
  BY <1>1, <1>2
<1> HIDE DEF l
<1> QED
  BY <1>2, <1>3, <1>4, <1>5

LEMMA TallyType ==
    ASSUME TypeOK, NEW n \in Nodes, NEW peers \in SUBSET Positions(n), Tally(n, peers)
    PROVE  /\ own' \in [Nodes -> CloseTimes] /\ chosen' \in [Nodes -> CloseTimes \cup {None}]
           /\ level' \in [Nodes -> 0 .. 3] /\ calm' \in 0 .. SettleBeats
<1>1. PICK l \in 0 .. 3 :
              LET new == UpdateCloseTimePosition(n, peers, l)
              IN  /\ own' = [own EXCEPT ![n] = new.own]
                  /\ chosen' = [chosen EXCEPT ![n] = new.chosen]
                  /\ level' = [level EXCEPT ![n] = l]
                  /\ calm' = 0 \/ (calm' = calm /\ l = level[n])
  BY TallyStep
<1>2. /\ UpdateCloseTimePosition(n, peers, l).own \in CloseTimes
      /\ UpdateCloseTimePosition(n, peers, l).chosen \in CloseTimes \cup {None}
  BY UpdatedType
<1> QED
  BY <1>1, <1>2, SMTT(30) DEF TypeOK, SettleBeats

LEMMA MinIs ==
    ASSUME NEW x \in Nat, NEW y \in Nat
    PROVE  Min({x, y}) = IF x <= y THEN x ELSE y
<1> DEFINE z == IF x <= y THEN x ELSE y
<1>1. z \in {x, y} /\ \A u \in {x, y} : z <= u
  BY SMTT(30)
<1>2. \A v \in {x, y} : (\A u \in {x, y} : v <= u) => v = z
  BY SMTT(30)
<1> HIDE DEF z
<1> QED
  BY <1>1, <1>2 DEF Min, z

\* The next age of a silent node.
LEMMA Older ==
    ASSUME NEW a \in 0 .. Freshness
    PROVE  /\ Min({a + 1, Freshness}) \in 0 .. Freshness
           /\ Min({a + 1, Freshness}) # 0
           /\ a = Freshness => Min({a + 1, Freshness}) = Freshness
<1>1. Freshness \in Nat /\ Freshness > 0
  BY TimesAssumption, SMTT(30)
<1> QED
  BY <1>1, MinIs, SMTT(30)

-----------------------------------------------------------------------------
(* Type correctness. *)

LEMMA InitType == ASSUME Init PROVE TypeOK
<1>1. Freshness \in Nat /\ Freshness > 0 /\ MaxFaults \in Nat
  BY TimesAssumption, SMTT(30)
<1>2. PICK late \in SUBSET Nodes :
         seen = [n \in Nodes |-> [m \in Nodes |->
                    IF n \in late \cup {m} \/ m \in Observers THEN None ELSE own[m]]]
  BY DEF Init
<1>3. own \in [Nodes -> CloseTimes]
  BY DEF Init, CloseTimes
<1>4. \A n, m \in Nodes : seen[n][m] \in WireTimes \cup {None}
  <2>1. \A m \in Nodes : own[m] \in WireTimes
    BY TimesAssumption, Zeros DEF Init, CloseTimes, WireTimes
  <2> QED
    BY <1>2, <2>1
<1>5. seen \in [Nodes -> [Nodes -> WireTimes \cup {None}]]
  BY <1>2, <1>4
<1>6. \A n \in Nodes : \A m \in Observers \cup {n} : seen[n][m] = None
  BY <1>2, NodesAssumption
<1> QED
  BY <1>1, <1>3, <1>5, <1>6, SMTT(30) DEF Init, TypeOK, SettleBeats

LEMMA TickType == ASSUME TypeOK, NEW n \in Nodes, Tick(n) PROVE TypeOK'
<1> DEFINE fresh == {m \in Positions(n) : age[m] < Freshness}
<1>1. fresh \in SUBSET Positions(n) /\ Tally(n, fresh)
  BY DEF Tick
<1>2. /\ own' \in [Nodes -> CloseTimes] /\ chosen' \in [Nodes -> CloseTimes \cup {None}]
      /\ level' \in [Nodes -> 0 .. 3] /\ calm' \in 0 .. SettleBeats
  <2> HIDE DEF fresh
  <2> QED
    BY <1>1, TallyType
<1>3. seen' = [seen EXCEPT ![n] = [m \in Nodes |-> IF m \in fresh THEN seen[n][m] ELSE None]]
  BY DEF Tick, TypeOK
<1> HIDE DEF fresh
<1>4. seen' \in [Nodes -> [Nodes -> WireTimes \cup {None}]]
  BY <1>3, SMTT(30) DEF TypeOK
<1>5. \A k \in Nodes : \A m \in Observers \cup {k} : seen'[k][m] = None
  BY <1>3, NodesAssumption DEF TypeOK
<1> QED
  BY <1>2, <1>4, <1>5 DEF TypeOK, Tick

LEMMA RetryType == ASSUME TypeOK, NEW n \in Nodes, Retry(n) PROVE TypeOK'
<1>1. /\ own' \in [Nodes -> CloseTimes] /\ chosen' \in [Nodes -> CloseTimes \cup {None}]
      /\ level' \in [Nodes -> 0 .. 3] /\ calm' \in 0 .. SettleBeats
  BY TallyType DEF Retry
<1> QED
  BY <1>1 DEF TypeOK, Retry

LEMMA DeliverType == ASSUME TypeOK, NEW m \in Nodes, NEW n \in Nodes, Deliver(m, n) PROVE TypeOK'
<1>1. Sent(m) \in WireTimes \cup {None} /\ m # n /\ m \notin Observers
  BY Stamps DEF Deliver, Undelivered, Sent, TypeOK
<1>2. seen' = [seen EXCEPT ![n][m] = Sent(m)]
  BY DEF Deliver
<1>3. seen' \in [Nodes -> [Nodes -> WireTimes \cup {None}]]
  BY <1>1, <1>2 DEF TypeOK
<1>4. \A k \in Nodes : \A j \in Observers \cup {k} : seen'[k][j] = None
  BY <1>1, <1>2, NodesAssumption DEF TypeOK
<1> QED
  BY <1>3, <1>4 DEF TypeOK, Deliver

LEMMA LeaveType ==
    ASSUME TypeOK, NEW n \in Nodes, NEW to \in {"observing", "gone", "left"}, Leave(n, to)
    PROVE  TypeOK'
<1>1. faults' \in 0 .. MaxFaults
  BY TimesAssumption, SMTT(30) DEF TypeOK, Leave
<1> QED
  BY <1>1, SMTT(30) DEF TypeOK, Leave, SettleBeats

LEMMA BeatType == ASSUME TypeOK, Beat PROVE TypeOK'
<1>1. age' = [m \in Nodes |-> IF mode[m] = "proposing" THEN 0
                              ELSE Min({age[m] + 1, Freshness})]
  BY DEF Beat
<1>2. \A m \in Nodes : Min({age[m] + 1, Freshness}) \in 0 .. Freshness
  BY Older DEF TypeOK
<1>3. age' \in [Nodes -> 0 .. Freshness]
  BY <1>1, <1>2, TimesAssumption, SMTT(30)
<1>4. faults' \in 0 .. MaxFaults
  BY TimesAssumption, SMTT(30) DEF TypeOK, Beat
<1>5. calm' \in 0 .. SettleBeats
  <2>1. calm' = 0 \/ calm' = Min({calm + 1, SettleBeats})
    BY DEF Beat
  <2>2. calm + 1 \in Nat /\ SettleBeats = 4
    BY SMTT(30) DEF TypeOK, SettleBeats
  <2> QED
    BY <2>1, <2>2, MinIs, SMTT(30)
<1>6. mode' = mode
  BY DEF Beat
<1>7. \A n \in Nodes : mode'[n] = "proposing" => n \notin Observers /\ age'[n] = 0
  BY <1>1, <1>6 DEF TypeOK
<1> QED
  BY <1>3, <1>4, <1>5, <1>7 DEF TypeOK, Beat

LEMMA NextType == ASSUME TypeOK, [Next]_vars PROVE TypeOK'
<1>1. CASE Beat
  BY <1>1, BeatType
<1>2. ASSUME NEW n \in Nodes, Stop(n) PROVE TypeOK'
  BY <1>2, LeaveType DEF Stop
<1>3. ASSUME NEW n \in Nodes, LeaveConsensus(n) PROVE TypeOK'
  BY <1>3, LeaveType DEF LeaveConsensus
<1>4. CASE UNCHANGED vars
  BY <1>4 DEF vars, TypeOK
<1> QED
  BY <1>1, <1>2, <1>3, <1>4, TickType, RetryType, DeliverType DEF Next

\* Positions, tallies and levels keep their types, no node comes to hold a
\* position of its own or of an observer, and no proposer goes stale: its
\* share of the votes is counted at every tally.
THEOREM TypeCorrect == Spec => []TypeOK
<1>1. Init => TypeOK
  BY InitType
<1>2. TypeOK /\ [Next]_vars => TypeOK'
  BY NextType
<1> QED
  BY <1>1, <1>2, PTL DEF Spec

-----------------------------------------------------------------------------
(* A unanimous vote stays what it is. *)

LEMMA UnanimousTally ==
    ASSUME TypeOK, NEW t \in WireTimes, Unanimous(t), NEW n \in Running,
           NEW peers \in SUBSET Positions(n), Tally(n, peers)
    PROVE  /\ own' = own
           /\ \A m \in Nodes : chosen'[m] # chosen[m] =>
                 m = n /\ (peers = {} \/ chosen'[m] = t)
<1>1. n \in Nodes
  BY DEF Running
<1>2. PICK l \in 0 .. 3 :
              LET new == UpdateCloseTimePosition(n, peers, l)
              IN  /\ own' = [own EXCEPT ![n] = new.own]
                  /\ chosen' = [chosen EXCEPT ![n] = new.chosen]
                  /\ level' = [level EXCEPT ![n] = l]
                  /\ calm' = 0 \/ (calm' = calm /\ l = level[n])
  BY <1>1, TallyStep
<1> DEFINE new == UpdateCloseTimePosition(n, peers, l)
<1>3. new.own = own[n] /\ (peers = {} \/ new.chosen = t)
  <2>1. CASE peers = {}
    BY <2>1 DEF UpdateCloseTimePosition
  <2>2. CASE peers # {}
    <3> DEFINE D == Voters(n, peers)
               V == Votes(n, peers)
               k == ParticipantsNeeded(Cardinality(D), Pct[l + 1])
               b == MostVotedAscending(V, k)
    <3>1. IsFiniteSet(D) /\ V \in [D -> Moment] /\ D # {}
      BY <1>1, <2>2, VotesAre DEF Voters
    <3>2. \A m \in D : V[m] = t
      <4>1. ASSUME NEW m \in D PROVE V[m] = t
        <5>1. V[m] = RoundCloseTime(IF m = n THEN own[n] ELSE seen[n][m])
          BY <1>1, VotesAre
        <5>2. CASE m = n
          <6>1. m \notin Positions(n)
            BY <1>1, <5>2 DEF TypeOK, Positions
          <6> QED
            BY <5>1, <5>2, <6>1 DEF Unanimous, Voters
        <5>3. CASE m # n
          BY <5>1, <5>3 DEF Unanimous, Voters
        <5> QED
          BY <5>2, <5>3
      <4> QED
        BY <4>1
    <3> HIDE DEF D, V, k, b
    <3>3. k \in Nat /\ k <= Cardinality(D)
      BY <1>1, <2>2, Updated DEF D, k
    <3>4. t \in Moment
      BY Stamps DEF Moment
    <3>5. b = [time |-> t, votes |-> Cardinality(D)]
      BY <3>1, <3>2, <3>3, <3>4, Agreed DEF b
    <3>6. /\ new.own = IF mode[n] = "proposing" /\ b.time # RoundCloseTime(own[n])
                       THEN b.time ELSE own[n]
          /\ b.votes = Cardinality(D) => new.chosen = b.time
      BY <1>1, <2>2, Updated, SMTT(30) DEF D, V, k, b
    <3>7. mode[n] = "proposing" => RoundCloseTime(own[n]) = t
      BY DEF Unanimous
    <3> HIDE DEF new
    <3> QED
      BY <3>5, <3>6, <3>7
  <2> QED
    BY <2>1, <2>2
<1>4. own' = [own EXCEPT ![n] = new.own] /\ chosen' = [chosen EXCEPT ![n] = new.chosen]
  BY <1>2
<1> HIDE DEF new
<1> QED
  BY <1>1, <1>3, <1>4 DEF TypeOK

\* What the step of a unanimous network must leave.
StaysUnanimous(t) ==
    /\ Unanimous(t)'
    /\ \A n \in Nodes : chosen'[n] # chosen[n] /\ chosen'[n] # None
           /\ Positions(n)' # {} => chosen'[n] = t

LEMMA UnanimousTick ==
    ASSUME TypeOK, NEW t \in WireTimes, Unanimous(t), NEW n \in Nodes, Tick(n)
    PROVE  StaysUnanimous(t)
<1> DEFINE fresh == {m \in Positions(n) : age[m] < Freshness}
<1>1. fresh \in SUBSET Positions(n) /\ Tally(n, fresh) /\ n \in Running
  BY DEF Tick
<1>2. /\ own' = own
      /\ \A m \in Nodes : chosen'[m] # chosen[m] =>
            m = n /\ (fresh = {} \/ chosen'[m] = t)
  <2> HIDE DEF fresh
  <2> QED
    BY <1>1, UnanimousTally, SMTT(30)
<1>3. /\ seen' = [seen EXCEPT ![n] = [m \in Nodes |-> IF m \in fresh THEN seen[n][m] ELSE None]]
      /\ mode' = mode /\ age' = age
  BY DEF Tick, TypeOK
<1>4. Running' = Running /\ \A m : Sent(m)' = Sent(m)
  BY <1>2, <1>3 DEF Running, Sent
<1>5. \A k, m \in Nodes : seen'[k][m] = seen[k][m] \/ (seen'[k][m] = None /\ age[m] # 0)
  <2>1. ASSUME NEW k \in Nodes, NEW m \in Nodes
        PROVE  seen'[k][m] = seen[k][m] \/ (seen'[k][m] = None /\ age[m] # 0)
    <3>1. CASE k # n \/ m \in fresh
      BY <1>3, <3>1 DEF TypeOK
    <3>2. CASE k = n /\ m \notin fresh
      <4>1. seen'[k][m] = None
        BY <1>3, <3>2 DEF TypeOK
      <4>2. seen[k][m] = None \/ ~(age[m] < Freshness)
        BY <3>2 DEF Positions
      <4> QED
        BY <4>1, <4>2, TimesAssumption, SMTT(30) DEF TypeOK
    <3> QED
      BY <3>1, <3>2
  <2> QED
    BY <2>1
<1>6. Positions(n)' = fresh
  BY <1>3 DEF Positions, TypeOK
<1>7. \A k \in Nodes : \A m \in Positions(k)' : m \in Positions(k) /\ seen'[k][m] = seen[k][m]
  BY <1>5 DEF Positions
<1>8. \A k, m \in Nodes : Undelivered(m, k)' => Undelivered(m, k)
  BY <1>3, <1>4, <1>5 DEF Undelivered
<1>9. Unanimous(t)'
  <2>1. \A k \in Running : k \in Nodes
    BY DEF Running
  <2> QED
    BY <1>2, <1>3, <1>4, <1>7, <1>8, <2>1, SMTT(30) DEF Unanimous
<1> HIDE DEF fresh
<1> QED
  BY <1>2, <1>6, <1>9 DEF StaysUnanimous

LEMMA UnanimousRetry ==
    ASSUME TypeOK, NEW t \in WireTimes, Unanimous(t), NEW n \in Nodes, Retry(n)
    PROVE  StaysUnanimous(t)
<1>1. Tally(n, Positions(n)) /\ n \in Running /\ mode' = mode /\ seen' = seen /\ age' = age
  BY DEF Retry
<1>2. /\ own' = own
      /\ \A m \in Nodes : chosen'[m] # chosen[m] =>
            m = n /\ (Positions(n) = {} \/ chosen'[m] = t)
  BY <1>1, UnanimousTally
<1>3. Unanimous(t)'
  BY <1>1, <1>2, SMTT(30) DEF Unanimous, Running, Positions, Undelivered, Sent
<1>4. Positions(n)' = Positions(n)
  BY <1>1 DEF Positions
<1> QED
  BY <1>2, <1>3, <1>4 DEF StaysUnanimous

LEMMA UnanimousDeliver ==
    ASSUME TypeOK, NEW t \in WireTimes, Unanimous(t), NEW m \in Nodes, NEW n \in Nodes,
           Deliver(m, n)
    PROVE  StaysUnanimous(t)
<1>1. /\ seen' = [seen EXCEPT ![n][m] = Sent(m)] /\ n \in Running /\ Undelivered(m, n)
      /\ mode' = mode /\ own' = own /\ age' = age /\ chosen' = chosen
  BY DEF Deliver
<1>2. Running' = Running /\ \A j : Sent(j)' = Sent(j)
  BY <1>1 DEF Running, Sent
<1>3. Sent(m) = None \/ RoundCloseTime(Sent(m)) = t
  BY <1>1 DEF Unanimous
<1>4. \A k, j \in Nodes : seen'[k][j] = IF k = n /\ j = m THEN Sent(m) ELSE seen[k][j]
  BY <1>1 DEF TypeOK
<1>5. ASSUME NEW k \in Running, NEW j \in Positions(k)'
      PROVE  RoundCloseTime(seen'[k][j]) = t
  <2>1. k \in Nodes /\ j \in Nodes /\ seen'[k][j] # None
    BY DEF Running, Positions
  <2>2. CASE k = n /\ j = m
    BY <1>3, <1>4, <2>1, <2>2
  <2>3. CASE ~(k = n /\ j = m)
    <3>1. seen'[k][j] = seen[k][j]
      BY <1>4, <2>1, <2>3
    <3>2. j \in Positions(k)
      BY <2>1, <3>1 DEF Positions
    <3> QED
      BY <3>1, <3>2 DEF Unanimous
  <2> QED
    BY <2>2, <2>3
<1>6. \A k, j \in Nodes : Undelivered(j, k)' => Undelivered(j, k)
  BY <1>1, <1>2, <1>4, SMTT(30) DEF Undelivered
<1>7. Unanimous(t)'
  <2>1. \A k \in Running : k \in Nodes
    BY DEF Running
  <2> QED
    BY <1>1, <1>2, <1>5, <1>6, <2>1 DEF Unanimous
<1> QED
  BY <1>1, <1>7 DEF StaysUnanimous

LEMMA UnanimousBeat ==
    ASSUME TypeOK, NEW t \in WireTimes, Unanimous(t), Beat
    PROVE  StaysUnanimous(t)
<1>1. /\ age' = [m \in Nodes |-> IF mode[m] = "proposing" THEN 0
                                 ELSE Min({age[m] + 1, Freshness})]
      /\ mode' = mode /\ own' = own /\ seen' = seen /\ chosen' = chosen
  BY DEF Beat
<1>2. Running' = Running /\ (\A j : Sent(j)' = Sent(j)) /\ \A k : Positions(k)' = Positions(k)
  BY <1>1 DEF Running, Sent, Positions
<1>3. ASSUME NEW m \in Nodes, age'[m] = 0
      PROVE  RoundCloseTime(Sent(m)) = t
  <2>1. Min({age[m] + 1, Freshness}) # 0
    BY Older DEF TypeOK
  <2>2. mode[m] = "proposing"
    BY <1>1, <1>3, <2>1
  <2>3. Sent(m) = Wire(own[m]) /\ RoundCloseTime(own[m]) = t /\ own[m] \in CloseTimes
    BY <2>2 DEF Sent, Unanimous, Running, TypeOK
  <2>4. t # Zero
    BY DEF WireTimes
  <2> QED
    BY <2>3, <2>4, Stamps DEF Wire
<1>4. \A k, m \in Nodes : Undelivered(m, k)' => RoundCloseTime(Sent(m)) = t
  BY <1>3 DEF Undelivered
<1>5. Unanimous(t)'
  <2>1. \A k \in Running : k \in Nodes
    BY DEF Running
  <2> QED
    BY <1>1, <1>2, <1>4, <2>1 DEF Unanimous
<1> QED
  BY <1>1, <1>5 DEF StaysUnanimous

\* Who leaves says nothing new: a node that stops leaves its last message, and
\* one that bows out takes its vote back.
LEMMA UnanimousLeave ==
    ASSUME TypeOK, NEW t \in WireTimes, Unanimous(t), NEW n \in Nodes,
           Stop(n) \/ LeaveConsensus(n)
    PROVE  StaysUnanimous(t)
<1>1. PICK to \in {"observing", "gone", "left"} :
         /\ Leave(n, to)
         /\ to = "gone" <=> (mode[n] = "proposing" /\ to # "observing")
         /\ n \in Running
  BY DEF Stop, LeaveConsensus, Running
<1>2. /\ mode' = [mode EXCEPT ![n] = to]
      /\ own' = own /\ seen' = seen /\ age' = age /\ chosen' = chosen
  BY <1>1 DEF Leave
<1>3. \A k \in Nodes : mode'[k] = IF k = n THEN to ELSE mode[k]
  BY <1>2 DEF TypeOK
<1>4. Running' \subseteq Running
  BY <1>1, <1>3 DEF Running
<1>5. \A j \in Nodes : Sent(j)' = Sent(j) \/ Sent(j)' = None
  BY <1>1, <1>2, <1>3 DEF Sent, Running
<1>6. \A k \in Nodes : mode'[k] = "proposing" => mode[k] = "proposing"
  BY <1>1, <1>3
<1>7. ASSUME NEW k \in Nodes, NEW m \in Nodes, Undelivered(m, k)', k \in Running
      PROVE  Sent(m)' = None \/ RoundCloseTime(Sent(m)') = t
  <2>1. CASE Sent(m)' = None
    BY <2>1
  <2>2. CASE Sent(m)' = Sent(m)
    <3>1. Undelivered(m, k)
      BY <1>2, <1>7, <2>2 DEF Undelivered
    <3> QED
      BY <1>7, <2>2, <3>1 DEF Unanimous
  <2> QED
    BY <1>5, <2>1, <2>2
<1>8. Unanimous(t)'
  <2>1. \A k \in Running : k \in Nodes
    BY DEF Running
  <2>2. \A k : Positions(k)' = Positions(k)
    BY <1>2 DEF Positions
  <2> QED
    BY <1>2, <1>4, <1>6, <1>7, <2>1, <2>2 DEF Unanimous
<1> QED
  BY <1>2, <1>8 DEF StaysUnanimous

\* Once all positions held, in flight and taken are for one time, the epoch
\* that a position for no time has on the wire included, no step of
\* updateCloseTimePosition, no escalation, pruning, late message, bow-out or
\* crash moves any of them, and a node that finds consensus among positions
\* finds that time.
THEOREM UnanimityCorrect == Spec => UnanimityIsStable
<1> DEFINE Agreeable == {Epoch} \cup {RoundCloseTime(r) : r \in RawTimes}
<1>1. TypeOK /\ [Next]_vars =>
        [\A t \in Agreeable : Unanimous(t) => StaysUnanimous(t)]_vars
  <2>1. ASSUME TypeOK, Next, NEW t \in Agreeable, Unanimous(t)
        PROVE  StaysUnanimous(t)
    <3>1. t \in WireTimes
      BY TimesAssumption, Rounded, Zeros DEF CloseTimes, WireTimes
    <3> QED
      BY <2>1, <3>1, UnanimousTick, UnanimousRetry, UnanimousDeliver, UnanimousBeat,
         UnanimousLeave DEF Next
  <2> QED
    BY <2>1
<1>2. UnanimityIsStable <=> [][\A t \in Agreeable : Unanimous(t) => StaysUnanimous(t)]_vars
  BY DEF UnanimityIsStable, StaysUnanimous
<1> QED
  BY <1>1, <1>2, TypeCorrect, PTL DEF Spec

-----------------------------------------------------------------------------
(* Four calm beats settle the close time. *)

\* What is stale is gone from the views of the nodes that have ticked.
Pruned ==
    \A n \in Running \cap ticked, m \in Nodes : age[m] = Freshness => seen[n][m] = None

\* In a calm beat the silent are stale, and all count the same voters.
Quiet ==
    /\ \A m \in Nodes \ Proposing : age[m] = Freshness
    /\ \A n \in Running : Positions(n) = Proposing \ {n}

Share(l) == ParticipantsNeeded(Cardinality(Proposing), Pct[l + 1])

Level(l) == \A n \in Running : level[n] = l

\* The stages of the calm beats.  The first began with the positions P, as
\* the wire shows them, and with the nodes of Z at no time.  Either all find
\* the same time, and who has ticked has moved there:
Firm(P, Z, l, w) ==
    /\ Level(l) /\ \A m \in Z : P[m] = Epoch
    /\ \A n \in Running : Wins(View(P, Z, n), w, Share(l))
    /\ \A m \in Proposing :
          RoundCloseTime(own[m]) = IF m \in ticked THEN w ELSE View(P, Z, m)[m]
    /\ \A n \in Running : \A m \in Proposing \ {n} : RoundCloseTime(seen[n][m]) \in {P[m], w}

\* or no time but the epoch has the votes, and who has ticked has none left;
Drifting(P, l) ==
    /\ Level(l) /\ \A t \in Nat \ {Epoch} : Count(P, t) < Share(l)
    /\ \A m \in Proposing : \/ RoundCloseTime(own[m]) \in {Zero, Epoch}
                            \/ m \notin ticked /\ RoundCloseTime(own[m]) = P[m]
    /\ \A n \in Running : \A m \in Proposing \ {n} : RoundCloseTime(seen[n][m]) \in {P[m], Epoch}

\* or the nodes part into two camps, whose votes decide the next beat.
Parting(P, l, u) ==
    /\ Level(l) /\ Split(P, u, Share(l))
    /\ \A m \in Proposing : \/ RoundCloseTime(own[m]) \in {Epoch, u}
                            \/ m \notin ticked /\ RoundCloseTime(own[m]) \in {Zero, P[m]}
    /\ \A n \in Running : \A m \in Proposing \ {n} :
          RoundCloseTime(seen[n][m]) \in {P[m], Epoch, u}

\* In the end all vote for w, and who has ticked has seen that,
Settled(w) ==
    /\ \A m \in Proposing : RoundCloseTime(own[m]) = w
    /\ \A n \in Running : \A m \in Proposing \ {n} : RoundCloseTime(seen[n][m]) = w
    /\ \A n \in Running : n \in ticked \/ calm = SettleBeats => chosen[n] = w

\* or all are at the epoch or at no time, which who has ticked has left for
\* the epoch unless it takes all votes to do so.
Drifted(l) ==
    /\ Level(l) /\ \A m \in Proposing : RoundCloseTime(own[m]) \in {Zero, Epoch}
    /\ \A n \in Running : \A m \in Proposing \ {n} : RoundCloseTime(seen[n][m]) = Epoch
    /\ \A n \in Running : n \in ticked \/ calm = SettleBeats =>
          IF n \in Proposing /\ own[n] = Zero THEN Share(l) = Cardinality(Proposing)
          ELSE chosen[n] = Epoch

Shown == [Proposing -> WireTimes]
IsFirm == \E P \in Shown, Z \in SUBSET Proposing, l \in 0 .. 3, w \in WireTimes : Firm(P, Z, l, w)
IsDrifting == \E P \in Shown, l \in 0 .. 3 : Drifting(P, l)
IsParting == \E P \in Shown, l \in 0 .. 3, u \in WireTimes : Parting(P, l, u)
IsSettled == \E w \in WireTimes : Settled(w)
IsDrifted == \E l \in 0 .. 3 : Drifted(l)

\* The stage of each calm beat.
Stages ==
    /\ calm = 1 => IsFirm \/ IsDrifting \/ IsParting
    /\ calm = 2 => IsFirm \/ IsSettled \/ IsDrifted
    /\ calm > 2 => IsSettled \/ IsDrifted

CalmInv == Pruned /\ (calm > 0 => Quiet) /\ (Proposing # {} => Stages)

LEMMA ProposingFinite ==
    ASSUME TypeOK, Proposing # {}, NEW l \in 0 .. 3
    PROVE  /\ IsFiniteSet(Proposing) /\ Proposing \subseteq Running /\ Running \subseteq Nodes
           /\ Cardinality(Proposing) \in Nat \ {0}
           /\ Share(l) \in Nat /\ Share(l) > 0 /\ Share(l) <= Cardinality(Proposing)
<1>1. Proposing \subseteq Nodes /\ Proposing \subseteq Running /\ Running \subseteq Nodes
  BY DEF Proposing, Running
<1>2. IsFiniteSet(Proposing)
  BY <1>1, NodesAssumption, FS_Subset
<1>3. Cardinality(Proposing) \in Nat \ {0}
  BY <1>2, FS_EmptySet, FS_CardinalityType
<1>4. Pct[l + 1] \in {50, 65, 70, 75, 95}
  BY SMTT(30) DEF Pct
<1> QED
  BY <1>1, <1>2, <1>3, <1>4, Needed, SMTT(30) DEF Share

\* All votes but one are consensus among two or more.
LEMMA NeededLess ==
    ASSUME NEW n \in Nat, n > 1
    PROVE  n - 1 >= ParticipantsNeeded(n, ConsensusPct)
<1> DEFINE a == (n * 75 + 75 \div 2) \div 100
<1>1. a \in Nat /\ a <= n - 1
  BY SMTT(30)
<1>2. ParticipantsNeeded(n, ConsensusPct) = Max({1, a})
  BY DEF ParticipantsNeeded, ConsensusPct
<1> HIDE DEF a
<1>3. Max({1, a}) \in {1, a}
  <2>1. CASE a <= 1
    BY <1>1, <2>1, MaxIs, SMTT(30)
  <2>2. CASE a > 1
    BY <1>1, <2>2, MaxIs, SMTT(30)
  <2> QED
    BY <1>1, <2>1, <2>2, SMTT(30)
<1> QED
  BY <1>1, <1>2, <1>3, SMTT(30)

-----------------------------------------------------------------------------
(* A tally in a calm beat. *)

Ballot(n) == Votes(n, Positions(n))
Best(n, l) == MostVotedAscending(Ballot(n), Share(l))
New(n, l) == UpdateCloseTimePosition(n, Positions(n), l)

\* The proposers are who everyone counts, and a proposer moves to the outcome.
LEMMA CalmVotes ==
    ASSUME TypeOK, Quiet, Proposing # {}, NEW n \in Running, NEW l \in 0 .. 3, Positions(n) # {}
    PROVE  /\ Ballot(n) \in [Proposing -> Moment]
           /\ \A m \in Proposing :
                 Ballot(n)[m] = RoundCloseTime(IF m = n THEN own[n] ELSE seen[n][m])
           /\ n \in Proposing => RoundCloseTime(New(n, l).own) = Best(n, l).time
           /\ n \notin Proposing => New(n, l).own = own[n]
           /\ Best(n, l).votes >= ParticipantsNeeded(Cardinality(Proposing), ConsensusPct) =>
                 New(n, l).chosen = Best(n, l).time
           /\ Best(n, l).votes = Cardinality(Proposing) => New(n, l).chosen = Best(n, l).time
<1>1. n \in Nodes /\ (mode[n] = "proposing" <=> n \in Proposing)
  BY DEF Running, Proposing
<1>2. Voters(n, Positions(n)) = Proposing
  BY <1>1 DEF Quiet, Voters
<1>3. /\ Ballot(n) \in [Proposing -> Moment]
      /\ \A m \in Proposing :
            Ballot(n)[m] = RoundCloseTime(IF m = n THEN own[n] ELSE seen[n][m])
  BY <1>1, <1>2, VotesAre DEF Ballot
<1>4. Share(l) = ParticipantsNeeded(Cardinality(Voters(n, Positions(n))), Pct[l + 1])
  BY <1>2 DEF Share
<1> DEFINE b == Best(n, l)
           new == New(n, l)
           peers == Positions(n)
<1>5. /\ RoundCloseTime(b.time) = b.time
      /\ new.own = IF mode[n] = "proposing" /\ b.time # RoundCloseTime(own[n])
                   THEN b.time ELSE own[n]
      /\ b.votes >= ParticipantsNeeded(Cardinality(Voters(n, peers)), ConsensusPct) =>
            new.chosen = b.time
      /\ b.votes = Cardinality(Voters(n, peers)) => new.chosen = b.time
  <2>1. b = MostVotedAscending(Votes(n, peers), Share(l)) /\ peers \in SUBSET Positions(n)
    BY DEF Best, Ballot
  <2>2. new = UpdateCloseTimePosition(n, peers, l) /\ peers # {}
    BY DEF New
  <2>3. Share(l) = ParticipantsNeeded(Cardinality(Voters(n, peers)), Pct[l + 1])
    BY <1>4
  <2> HIDE DEF b, new, peers
  <2> QED
    BY <1>1, <2>1, <2>2, <2>3, Updated, SMTT(30)
<1> HIDE DEF b, new
<1>6. /\ n \in Proposing => RoundCloseTime(new.own) = b.time
      /\ n \notin Proposing => new.own = own[n]
  BY <1>1, <1>5
<1> QED
  BY <1>2, <1>3, <1>5, <1>6 DEF b, new

\* A proposer alone keeps its time and has consensus on it.
LEMMA CalmAlone ==
    ASSUME TypeOK, Quiet, Proposing # {}, NEW n \in Running, NEW l \in 0 .. 3, Positions(n) = {}
    PROVE  /\ Proposing = {n} /\ Cardinality(Proposing) = 1 /\ Share(l) = 1
           /\ New(n, l).own = own[n] /\ New(n, l).chosen = RoundCloseTime(own[n])
<1>1. Proposing = {n}
  BY DEF Quiet
<1>2. Cardinality(Proposing) = 1
  BY <1>1, FS_Singleton
<1>3. Share(l) \in Nat /\ Share(l) > 0 /\ Share(l) <= Cardinality(Proposing)
  BY ProposingFinite
<1>4. Share(l) = 1
  BY <1>2, <1>3, SMTT(30)
<1> QED
  BY <1>1, <1>2, <1>4 DEF New, UpdateCloseTimePosition

LEMMA FirmTally ==
    ASSUME TypeOK, Quiet, NEW P \in Shown, NEW Z \in SUBSET Proposing, NEW l \in 0 .. 3,
           NEW w \in WireTimes, Firm(P, Z, l, w), NEW n \in Proposing
    PROVE  RoundCloseTime(New(n, l).own) = w
<1>1. Proposing # {} /\ n \in Running /\ IsFiniteSet(Proposing) /\ Share(l) \in Nat
  BY ProposingFinite
<1>2. P \in [Proposing -> Nat] /\ \A m \in Z : P[m] = Epoch
  BY Stamps DEF Shown, Firm
<1>3. View(P, Z, n) \in [Proposing -> Moment] /\ Wins(View(P, Z, n), w, Share(l))
  BY <1>1, <1>2, ViewCounts DEF Firm
<1>4. CASE Positions(n) = {}
  <2>1. Proposing = {n} /\ New(n, l).own = own[n]
    BY <1>1, <1>4, CalmAlone
  <2>2. View(P, Z, n)[n] = w
    BY <1>3, <2>1 DEF Wins, Leads, Times
  <2> QED
    BY <2>1, <2>2 DEF Firm
<1>5. CASE Positions(n) # {}
  <2>1. /\ Ballot(n) \in [Proposing -> Moment]
        /\ \A m \in Proposing :
              Ballot(n)[m] = RoundCloseTime(IF m = n THEN own[n] ELSE seen[n][m])
        /\ RoundCloseTime(New(n, l).own) = Best(n, l).time
    BY <1>1, <1>5, CalmVotes
  <2>2. ASSUME NEW m \in Proposing PROVE Ballot(n)[m] = View(P, Z, n)[m] \/ Ballot(n)[m] = w
    <3>1. CASE m = n
      BY <2>1, <3>1 DEF Firm
    <3>2. CASE m # n
      <4>1. RoundCloseTime(seen[n][m]) \in {P[m], w}
        BY <1>1, <2>2, <3>2 DEF Firm
      <4>2. View(P, Z, n)[m] = P[m]
        BY <1>2, <2>2, <3>2 DEF View
      <4> QED
        BY <2>1, <3>2, <4>1, <4>2
    <3> QED
      BY <3>1, <3>2
  <2>3. Wins(Ballot(n), w, Share(l))
    BY <1>1, <1>3, <2>1, <2>2, Mixed
  <2>4. Best(n, l) = [time |-> w, votes |-> Count(Ballot(n), w)]
    BY <1>1, <2>1, <2>3, LeaderWins DEF Best, Wins
  <2> QED
    BY <2>1, <2>4, SMTT(30)
<1> QED
  BY <1>4, <1>5

LEMMA DriftingTally ==
    ASSUME TypeOK, Quiet, NEW P \in Shown, NEW l \in 0 .. 3, Drifting(P, l), NEW n \in Proposing
    PROVE  RoundCloseTime(New(n, l).own) \in {Zero, Epoch}
<1>1. Proposing # {} /\ n \in Running /\ IsFiniteSet(Proposing) /\ Share(l) \in Nat
  BY ProposingFinite
<1>2. P \in [Proposing -> Nat] /\ P \in [Proposing -> Moment] /\ \A t \in Nat : t # Zero
  BY Stamps, Zeros DEF Shown, Moment
<1>3. \A t \in Nat \ {Epoch} : Count(P, t) \in Nat /\ Count(P, t) < Share(l)
  BY <1>1, <1>2, CountType DEF Drifting
<1>4. CASE Positions(n) = {}
  <2>1. Share(l) = 1 /\ New(n, l).own = own[n]
    BY <1>1, <1>4, CalmAlone
  <2>2. P[n] = Epoch
    <3>1. SUFFICES ASSUME P[n] # Epoch PROVE FALSE
      OBVIOUS
    <3>2. P[n] \in Nat \ {Epoch} /\ P[n] \in Times(P)
      BY <1>2, <3>1 DEF Times
    <3>3. Count(P, P[n]) > 0
      BY <1>1, <1>2, <3>2, CountPositive
    <3> QED
      BY <1>3, <2>1, <3>2, <3>3, SMTT(30)
  <2> QED
    BY <2>1, <2>2 DEF Drifting
<1>5. CASE Positions(n) # {}
  <2>1. /\ Ballot(n) \in [Proposing -> Moment]
        /\ \A m \in Proposing :
              Ballot(n)[m] = RoundCloseTime(IF m = n THEN own[n] ELSE seen[n][m])
        /\ RoundCloseTime(New(n, l).own) = Best(n, l).time
    BY <1>1, <1>5, CalmVotes
  <2>2. ASSUME NEW m \in Proposing PROVE Ballot(n)[m] \in {Zero, Epoch, P[m]}
    BY <1>1, <2>1, <2>2 DEF Drifting
  <2>3. ASSUME NEW t \in Nat \ {Epoch} PROVE Count(Ballot(n), t) < Share(l)
    <3>1. \A m \in Proposing : Ballot(n)[m] = t => P[m] = t
      BY <1>2, <2>2
    <3>2. Count(Ballot(n), t) <= Count(P, t) /\ Count(Ballot(n), t) \in Nat
      BY <1>1, <1>2, <2>1, <3>1, Fewer, CountType
    <3> QED
      BY <1>1, <1>3, <3>2, SMTT(30)
  <2>4. Best(n, l).time \in {Zero, Epoch}
    BY <1>1, <2>1, <2>3, DriftOutcome DEF Best
  <2> QED
    BY <2>1, <2>4
<1> QED
  BY <1>4, <1>5

LEMMA PartingTally ==
    ASSUME TypeOK, Quiet, NEW P \in Shown, NEW l \in 0 .. 3, NEW u \in WireTimes,
           Parting(P, l, u), NEW n \in Proposing
    PROVE  RoundCloseTime(New(n, l).own) \in {Epoch, u}
<1>1. Proposing # {} /\ n \in Running /\ IsFiniteSet(Proposing) /\ Share(l) \in Nat /\ Share(l) > 0
  BY ProposingFinite
<1>2. P \in [Proposing -> Nat] /\ P \in [Proposing -> Moment] /\ Split(P, u, Share(l))
  BY Stamps DEF Shown, Moment, Parting
<1>3. CASE Positions(n) = {}
  <2>1. Share(l) = 1 /\ Cardinality(Proposing) = 1
    BY <1>1, <1>3, CalmAlone
  <2>2. Count(P, u) \in Nat /\ Count(P, Epoch) \in Nat /\ Count(P, Epoch) <= 1
    BY <1>1, <1>2, <2>1, CountType
  <2> QED
    BY <1>2, <2>1, <2>2, SMTT(30) DEF Split
<1>4. CASE Positions(n) # {}
  <2>1. /\ Ballot(n) \in [Proposing -> Moment]
        /\ \A m \in Proposing :
              Ballot(n)[m] = RoundCloseTime(IF m = n THEN own[n] ELSE seen[n][m])
        /\ RoundCloseTime(New(n, l).own) = Best(n, l).time
    BY <1>1, <1>4, CalmVotes
  <2>2. ASSUME NEW m \in Proposing
        PROVE  \/ Ballot(n)[m] \in {P[m], Epoch, u}
               \/ m = n /\ Ballot(n)[m] = Zero
    <3>1. CASE m = n
      BY <2>1, <3>1 DEF Parting
    <3>2. CASE m # n
      BY <1>1, <2>1, <2>2, <3>2 DEF Parting
    <3> QED
      BY <3>1, <3>2
  <2>3. Best(n, l).time \in {Epoch, u}
    <3>1. Between(Ballot(n), P, u, n)
      BY <1>2, <2>2 DEF Between
    <3> QED
      BY <1>1, <1>2, <2>1, <3>1, SplitOutcome DEF Best
  <2> QED
    BY <2>1, <2>3
<1> QED
  BY <1>3, <1>4

\* Who tallies when all vote for w stays there and has consensus on it.
LEMMA SettledTally ==
    ASSUME TypeOK, Quiet, Proposing # {}, NEW w \in WireTimes, Settled(w), NEW n \in Running,
           NEW l \in 0 .. 3
    PROVE  /\ n \in Proposing => RoundCloseTime(New(n, l).own) = w
           /\ New(n, l).chosen = w
<1>1. IsFiniteSet(Proposing) /\ Share(l) \in Nat /\ Share(l) <= Cardinality(Proposing)
  BY ProposingFinite
<1>2. w \in Moment
  BY Stamps DEF Moment
<1>3. CASE Positions(n) = {}
  BY <1>3, CalmAlone DEF Settled
<1>4. CASE Positions(n) # {}
  <2>1. /\ Ballot(n) \in [Proposing -> Moment]
        /\ \A m \in Proposing :
              Ballot(n)[m] = RoundCloseTime(IF m = n THEN own[n] ELSE seen[n][m])
        /\ n \in Proposing => RoundCloseTime(New(n, l).own) = Best(n, l).time
        /\ Best(n, l).votes = Cardinality(Proposing) => New(n, l).chosen = Best(n, l).time
    BY <1>4, CalmVotes
  <2>2. \A m \in Proposing : Ballot(n)[m] = w
    BY <2>1 DEF Settled
  <2>3. Best(n, l) = [time |-> w, votes |-> Cardinality(Proposing)]
    BY <1>1, <1>2, <2>1, <2>2, Agreed DEF Best
  <2> QED
    BY <2>1, <2>3, SMTT(30)
<1> QED
  BY <1>3, <1>4

LEMMA DriftedTally ==
    ASSUME TypeOK, Quiet, Proposing # {}, NEW l \in 0 .. 3, Drifted(l), NEW n \in Running
    PROVE  /\ n \in Proposing => RoundCloseTime(New(n, l).own) \in {Zero, Epoch}
           /\ IF n \in Proposing /\ New(n, l).own = Zero THEN Share(l) = Cardinality(Proposing)
              ELSE New(n, l).chosen = Epoch
<1>1. IsFiniteSet(Proposing) /\ Share(l) \in Nat /\ Share(l) <= Cardinality(Proposing)
      /\ Cardinality(Proposing) \in Nat /\ Proposing \subseteq Running /\ n \in Nodes
  BY ProposingFinite
<1>2. Epoch \in Moment /\ Zero # Epoch /\ RoundCloseTime(Zero) = Zero
  BY Zeros DEF Moment
<1>3. /\ own[n] = Zero <=> RoundCloseTime(own[n]) = Zero
      /\ New(n, l).own = Zero <=> RoundCloseTime(New(n, l).own) = Zero
  <2>1. own[n] \in CloseTimes /\ New(n, l).own \in CloseTimes
    BY <1>1, UpdatedType DEF New, TypeOK
  <2> QED
    BY <2>1, Stamps, Moments
<1>4. CASE Positions(n) = {}
  <2>1. /\ Proposing = {n} /\ Cardinality(Proposing) = 1 /\ Share(l) = 1
        /\ New(n, l).own = own[n] /\ New(n, l).chosen = RoundCloseTime(own[n])
    BY <1>4, CalmAlone
  <2>2. RoundCloseTime(own[n]) \in {Zero, Epoch}
    BY <2>1 DEF Drifted
  <2> QED
    BY <1>3, <2>1, <2>2
<1>5. CASE Positions(n) # {}
  <2>1. /\ Ballot(n) \in [Proposing -> Moment]
        /\ \A m \in Proposing :
              Ballot(n)[m] = RoundCloseTime(IF m = n THEN own[n] ELSE seen[n][m])
        /\ n \in Proposing => RoundCloseTime(New(n, l).own) = Best(n, l).time
        /\ Best(n, l).votes >= ParticipantsNeeded(Cardinality(Proposing), ConsensusPct) =>
              New(n, l).chosen = Best(n, l).time
        /\ Best(n, l).votes = Cardinality(Proposing) => New(n, l).chosen = Best(n, l).time
    BY <1>5, CalmVotes
  <2>2. \A m \in Proposing \ {n} : Ballot(n)[m] = Epoch
    BY <2>1 DEF Drifted
  <2>3. CASE n \in Proposing /\ own[n] = Zero
    <3>1. Ballot(n)[n] = Zero /\ Proposing # {n}
      BY <1>2, <1>5, <2>1, <2>3 DEF Quiet
    <3>2. /\ Cardinality(Proposing) > 1
          /\ Best(n, l) = IF Cardinality(Proposing) - 1 < Share(l) THEN [time |-> Zero, votes |-> 0]
                          ELSE [time |-> Epoch, votes |-> Cardinality(Proposing) - 1]
      BY <1>1, <2>1, <2>2, <2>3, <3>1, LastToDrift DEF Best
    <3>3. CASE Cardinality(Proposing) - 1 < Share(l)
      <4>1. Share(l) = Cardinality(Proposing)
        BY <1>1, <3>3, SMTT(30)
      <4>2. Best(n, l).time = Zero
        BY <3>2, <3>3, SMTT(30)
      <4> QED
        BY <1>3, <2>1, <2>3, <4>1, <4>2
    <3>4. CASE ~(Cardinality(Proposing) - 1 < Share(l))
      <4>1. Best(n, l).time = Epoch /\ Best(n, l).votes = Cardinality(Proposing) - 1
        BY <3>2, <3>4, SMTT(30)
      <4>2. Cardinality(Proposing) - 1 >= ParticipantsNeeded(Cardinality(Proposing), ConsensusPct)
        BY <1>1, <3>2, NeededLess
      <4> QED
        BY <1>2, <1>3, <2>1, <2>3, <4>1, <4>2
    <3> QED
      BY <3>3, <3>4
  <2>4. CASE ~(n \in Proposing /\ own[n] = Zero)
    <3>1. \A m \in Proposing : Ballot(n)[m] = Epoch
      <4>1. n \in Proposing => RoundCloseTime(own[n]) = Epoch
        BY <1>3, <2>4 DEF Drifted
      <4> QED
        BY <2>1, <2>2, <4>1
    <3>2. Best(n, l) = [time |-> Epoch, votes |-> Cardinality(Proposing)]
      BY <1>1, <1>2, <2>1, <3>1, Agreed DEF Best
    <3>3. Best(n, l).time = Epoch /\ Best(n, l).votes = Cardinality(Proposing)
      BY <3>2, SMTT(30)
    <3> QED
      BY <1>2, <1>3, <2>1, <3>3
  <2> QED
    BY <2>3, <2>4
<1> QED
  BY <1>4, <1>5

-----------------------------------------------------------------------------
(* The steps of a calm beat keep its stage. *)

LEMMA CalmTally ==
    ASSUME TypeOK, CalmInv, NEW n \in Running, Tally(n, Positions(n)), calm' > 0,
           seen' = seen, mode' = mode, age' = age, ticked' = ticked \cup {n}, Pruned'
    PROVE  CalmInv'
<1>1. n \in Nodes /\ Proposing \subseteq Running /\ Running \subseteq Nodes
  BY DEF Running, Proposing
<1>2. PICK l \in 0 .. 3 :
              LET new == UpdateCloseTimePosition(n, Positions(n), l)
              IN  /\ own' = [own EXCEPT ![n] = new.own]
                  /\ chosen' = [chosen EXCEPT ![n] = new.chosen]
                  /\ level' = [level EXCEPT ![n] = l]
                  /\ calm' = 0 \/ (calm' = calm /\ l = level[n])
  BY <1>1, TallyStep
<1>3. /\ own' = [own EXCEPT ![n] = New(n, l).own] /\ chosen' = [chosen EXCEPT ![n] = New(n, l).chosen]
      /\ calm' = calm /\ level' = level /\ l = level[n]
  BY <1>2, SMTT(30) DEF TypeOK, New
<1>4. /\ \A k \in Nodes : own'[k] = IF k = n THEN New(n, l).own ELSE own[k]
      /\ \A k \in Nodes : chosen'[k] = IF k = n THEN New(n, l).chosen ELSE chosen[k]
  BY <1>3 DEF TypeOK
<1>5. /\ Proposing' = Proposing /\ Running' = Running /\ (\A k : Positions(k)' = Positions(k))
      /\ \A j : Share(j)' = Share(j)
  BY DEF Proposing, Running, Positions, Share
<1>6. Quiet /\ Quiet' /\ Shown' = Shown
  BY <1>3, <1>5 DEF CalmInv, Quiet, Shown
<1>7. ASSUME Proposing # {}, IsFirm PROVE IsFirm'
  <2>1. PICK P \in Shown, Z \in SUBSET Proposing, j \in 0 .. 3, w \in WireTimes : Firm(P, Z, j, w)
    BY <1>7 DEF IsFirm
  <2>2. j = l
    BY <1>3, <2>1 DEF Firm, Level
  <2>3. n \in Proposing => RoundCloseTime(New(n, l).own) = w
    BY <1>6, <2>1, <2>2, FirmTally
  <2>4. \A m \in Proposing :
            RoundCloseTime(own'[m]) = IF m \in ticked' THEN w ELSE View(P, Z, m)[m]
    BY <1>1, <1>4, <2>1, <2>3 DEF Firm
  <2>5. Firm(P, Z, j, w)'
    BY <1>3, <1>5, <2>1, <2>4 DEF Firm, Level
  <2> QED
    BY <1>5, <1>6, <2>5 DEF IsFirm
<1>8. ASSUME Proposing # {}, IsDrifting PROVE IsDrifting'
  <2>1. PICK P \in Shown, j \in 0 .. 3 : Drifting(P, j)
    BY <1>8 DEF IsDrifting
  <2>2. j = l
    BY <1>3, <2>1 DEF Drifting, Level
  <2>3. n \in Proposing => RoundCloseTime(New(n, l).own) \in {Zero, Epoch}
    BY <1>6, <2>1, <2>2, DriftingTally
  <2>4. \A m \in Proposing : \/ RoundCloseTime(own'[m]) \in {Zero, Epoch}
                             \/ m \notin ticked' /\ RoundCloseTime(own'[m]) = P[m]
    BY <1>1, <1>4, <2>1, <2>3 DEF Drifting
  <2>5. Drifting(P, j)'
    BY <1>3, <1>5, <2>1, <2>4 DEF Drifting, Level
  <2> QED
    BY <1>6, <2>5 DEF IsDrifting
<1>9. ASSUME Proposing # {}, IsParting PROVE IsParting'
  <2>1. PICK P \in Shown, j \in 0 .. 3, u \in WireTimes : Parting(P, j, u)
    BY <1>9 DEF IsParting
  <2>2. j = l
    BY <1>3, <2>1 DEF Parting, Level
  <2>3. n \in Proposing => RoundCloseTime(New(n, l).own) \in {Epoch, u}
    BY <1>6, <2>1, <2>2, PartingTally
  <2>4. \A m \in Proposing : \/ RoundCloseTime(own'[m]) \in {Epoch, u}
                             \/ m \notin ticked' /\ RoundCloseTime(own'[m]) \in {Zero, P[m]}
    BY <1>1, <1>4, <2>1, <2>3 DEF Parting
  <2>5. Parting(P, j, u)'
    BY <1>3, <1>5, <2>1, <2>4 DEF Parting, Level
  <2> QED
    BY <1>6, <2>5 DEF IsParting
<1>10. ASSUME Proposing # {}, IsSettled PROVE IsSettled'
  <2>1. PICK w \in WireTimes : Settled(w)
    BY <1>10 DEF IsSettled
  <2>2. New(n, l).chosen = w /\ (n \in Proposing => RoundCloseTime(New(n, l).own) = w)
    BY <1>6, <1>10, <2>1, SettledTally
  <2>3. \A m \in Proposing : RoundCloseTime(own'[m]) = w
    BY <1>1, <1>4, <2>1, <2>2 DEF Settled
  <2>4. \A k \in Running : k \in ticked' \/ calm' = SettleBeats => chosen'[k] = w
    BY <1>1, <1>3, <1>4, <2>1, <2>2 DEF Settled
  <2>5. Settled(w)'
    BY <1>5, <2>1, <2>3, <2>4 DEF Settled
  <2> QED
    BY <2>5 DEF IsSettled
<1>11. ASSUME Proposing # {}, IsDrifted PROVE IsDrifted'
  <2>1. PICK j \in 0 .. 3 : Drifted(j)
    BY <1>11 DEF IsDrifted
  <2>2. j = l
    BY <1>3, <2>1 DEF Drifted, Level
  <2>3. /\ n \in Proposing => RoundCloseTime(New(n, l).own) \in {Zero, Epoch}
        /\ IF n \in Proposing /\ New(n, l).own = Zero THEN Share(l) = Cardinality(Proposing)
           ELSE New(n, l).chosen = Epoch
    BY <1>6, <1>11, <2>1, <2>2, DriftedTally
  <2>4. \A m \in Proposing : RoundCloseTime(own'[m]) \in {Zero, Epoch}
    BY <1>1, <1>4, <2>1, <2>3 DEF Drifted
  <2>5. ASSUME NEW k \in Running, k \in ticked' \/ calm' = SettleBeats
        PROVE  IF k \in Proposing /\ own'[k] = Zero THEN Share(l) = Cardinality(Proposing)
               ELSE chosen'[k] = Epoch
    <3>1. CASE k = n
      BY <1>1, <1>4, <2>3, <3>1
    <3>2. CASE k # n
      BY <1>1, <1>3, <1>4, <2>1, <2>2, <2>5, <3>2 DEF Drifted
    <3> QED
      BY <3>1, <3>2
  <2>6. Drifted(l)'
    BY <1>3, <1>5, <2>1, <2>2, <2>4, <2>5 DEF Drifted, Level
  <2> QED
    BY <2>6 DEF IsDrifted
<1>12. Proposing # {} => Stages'
  BY <1>3, <1>7, <1>8, <1>9, <1>10, <1>11 DEF CalmInv, Stages
<1> QED
  BY <1>5, <1>6, <1>12 DEF CalmInv

LEMMA CalmTick == ASSUME TypeOK, CalmInv, NEW n \in Nodes, Tick(n) PROVE CalmInv'
<1> DEFINE fresh == {m \in Positions(n) : age[m] < Freshness}
<1>1. /\ n \in Running /\ Tally(n, fresh) /\ ticked' = ticked \cup {n}
      /\ mode' = mode /\ age' = age
  BY DEF Tick
<1>2. seen' = [seen EXCEPT ![n] = [m \in Nodes |-> IF m \in fresh THEN seen[n][m] ELSE None]]
  BY DEF Tick, TypeOK
<1>3. \A k, m \in Nodes : seen'[k][m] =
          IF k = n THEN (IF m \in fresh THEN seen[n][m] ELSE None) ELSE seen[k][m]
  <2> HIDE DEF fresh
  <2> QED
    BY <1>2 DEF TypeOK
<1>4. Pruned'
  <2>1. Running' = Running
    BY <1>1 DEF Running
  <2>2. ASSUME NEW k \in Running \cap ticked', NEW m \in Nodes, age[m] = Freshness
        PROVE  seen'[k][m] = None
    <3>1. k \in Nodes
      BY DEF Running
    <3>2. m \notin fresh
      BY <2>2, TimesAssumption, SMTT(30)
    <3>3. k # n => seen[k][m] = None
      BY <1>1, <2>2 DEF CalmInv, Pruned
    <3> QED
      BY <1>3, <3>1, <3>2, <3>3
  <2> QED
    BY <1>1, <2>1, <2>2 DEF Pruned
<1>5. CASE calm' > 0
  <2>1. calm > 0
    <3>1. fresh \in SUBSET Positions(n)
      OBVIOUS
    <3>2. calm' = 0 \/ calm' = calm
      <4> HIDE DEF fresh
      <4> QED
        BY <1>1, <3>1, TallyStep
    <3> QED
      BY <1>5, <3>2, SMTT(30)
  <2>2. fresh = Positions(n)
    <3>1. \A m \in Proposing : age[m] < Freshness
      BY TimesAssumption, SMTT(30) DEF TypeOK, Proposing
    <3>2. Positions(n) \subseteq Proposing
      BY <1>1, <2>1 DEF CalmInv, Quiet
    <3> QED
      BY <3>1, <3>2
  <2>3. [m \in Nodes |-> IF m \in fresh THEN seen[n][m] ELSE None] = seen[n]
    BY <2>2 DEF Positions, TypeOK
  <2>4. seen' = seen
    BY <1>2, <2>3 DEF TypeOK
  <2> QED
    BY <1>1, <1>4, <1>5, <2>2, <2>4, CalmTally
<1>6. CASE ~(calm' > 0)
  <2>1. calm' \in Nat
    BY TickType, SMTT(30) DEF TypeOK, SettleBeats
  <2> QED
    BY <1>4, <1>6, <2>1, SMTT(30) DEF CalmInv, Stages
<1> QED
  BY <1>5, <1>6

LEMMA CalmRetry == ASSUME TypeOK, CalmInv, NEW n \in Nodes, Retry(n) PROVE CalmInv'
<1>1. /\ n \in Running /\ Tally(n, Positions(n)) /\ ticked' = ticked /\ n \in ticked
      /\ mode' = mode /\ age' = age /\ seen' = seen
  BY DEF Retry
<1>2. Pruned' /\ ticked' = ticked \cup {n}
  BY <1>1 DEF CalmInv, Pruned, Running
<1>3. CASE calm' > 0
  BY <1>1, <1>2, <1>3, CalmTally
<1>4. CASE ~(calm' > 0)
  <2>1. calm' \in Nat
    BY RetryType, SMTT(30) DEF TypeOK, SettleBeats
  <2> QED
    BY <1>2, <1>4, <2>1, SMTT(30) DEF CalmInv, Stages
<1> QED
  BY <1>3, <1>4

LEMMA CalmDeliver ==
    ASSUME TypeOK, CalmInv, NEW m \in Nodes, NEW n \in Nodes, Deliver(m, n)
    PROVE  CalmInv'
<1>1. /\ seen' = [seen EXCEPT ![n][m] = Sent(m)] /\ n \in Running /\ n # m /\ age[m] = 0
      /\ mode' = mode /\ own' = own /\ age' = age /\ chosen' = chosen /\ level' = level
      /\ calm' = calm /\ ticked' = ticked
  BY DEF Deliver, Undelivered
<1>2. \A k, j \in Nodes : seen'[k][j] = IF k = n /\ j = m THEN Sent(m) ELSE seen[k][j]
  BY <1>1 DEF TypeOK
<1>3. /\ Running' = Running /\ Proposing' = Proposing
      /\ Running \subseteq Nodes /\ Proposing \subseteq Running
      /\ \A j : Share(j)' = Share(j)
  BY <1>1 DEF Running, Proposing, Share
<1>4. Freshness \in Nat /\ Freshness # 0 /\ Shown' = Shown
  BY <1>3, TimesAssumption DEF Shown
<1>5. Pruned'
  BY <1>1, <1>2, <1>3, <1>4, SMTT(30) DEF CalmInv, Pruned
<1> DEFINE x == RoundCloseTime(Sent(m))
<1>6. ASSUME calm > 0
      PROVE  m \in Proposing /\ Quiet' /\ x = Wire(RoundCloseTime(own[m]))
  <2>1. Quiet
    BY <1>6 DEF CalmInv
  <2>2. m \in Proposing
    BY <1>1, <1>4, <2>1 DEF Quiet
  <2>3. Sent(m) = Wire(own[m]) /\ own[m] \in CloseTimes
    BY <2>2 DEF Sent, Proposing, TypeOK
  <2>4. Sent(m) # None /\ x = Wire(RoundCloseTime(own[m]))
    BY <2>3, Stamps
  <2>5. ASSUME NEW k \in Running PROVE Positions(k)' = Positions(k)
    <3>1. k = n => seen[k][m] # None
      BY <1>1, <2>1, <2>2 DEF Quiet, Positions
    <3> QED
      BY <1>2, <1>3, <2>4, <3>1 DEF Positions
  <2>6. Quiet'
    BY <1>1, <1>3, <2>1, <2>5 DEF Quiet
  <2> QED
    BY <2>2, <2>4, <2>6
<1>7. \A k \in Running : \A j \in Proposing :
          RoundCloseTime(seen'[k][j]) = x \/ RoundCloseTime(seen'[k][j]) = RoundCloseTime(seen[k][j])
  BY <1>2, <1>3
<1>8. \A k \in Running : \A j \in Proposing :
          j # m => RoundCloseTime(seen'[k][j]) = RoundCloseTime(seen[k][j])
  BY <1>2, <1>3
<1> HIDE DEF x
<1>9. Wire(Zero) = Epoch /\ Wire(Epoch) = Epoch /\ \A t \in WireTimes : Wire(t) = t /\ t # Zero
  BY Stamps, Zeros DEF Wire
<1>10. ASSUME calm > 0, IsFirm PROVE IsFirm'
  <2>1. PICK P \in Shown, Z \in SUBSET Proposing, l \in 0 .. 3, w \in WireTimes : Firm(P, Z, l, w)
    BY <1>10 DEF IsFirm
  <2>2. x \in {P[m], w}
    <3>1. m \in Proposing /\ P[m] \in WireTimes /\ (m \in Z => P[m] = Epoch)
      BY <1>6, <1>10, <2>1 DEF Firm, Shown
    <3>2. RoundCloseTime(own[m]) = w \/ RoundCloseTime(own[m]) = View(P, Z, m)[m]
      BY <2>1, <3>1 DEF Firm
    <3>3. View(P, Z, m)[m] = IF m \in Z THEN Zero ELSE P[m]
      BY <3>1 DEF View, Shown
    <3> QED
      BY <1>6, <1>9, <1>10, <3>1, <3>2, <3>3
  <2>3. \A k \in Running : \A j \in Proposing \ {k} : RoundCloseTime(seen'[k][j]) \in {P[j], w}
    BY <1>7, <1>8, <2>1, <2>2 DEF Firm
  <2>4. Firm(P, Z, l, w)'
    BY <1>1, <1>3, <2>1, <2>3 DEF Firm, Level
  <2> QED
    BY <1>3, <1>4, <2>4 DEF IsFirm
<1>11. ASSUME calm > 0, IsDrifting PROVE IsDrifting'
  <2>1. PICK P \in Shown, l \in 0 .. 3 : Drifting(P, l)
    BY <1>11 DEF IsDrifting
  <2>2. x \in {P[m], Epoch}
    <3>1. m \in Proposing /\ P[m] \in WireTimes
      BY <1>6, <1>11 DEF Shown
    <3>2. RoundCloseTime(own[m]) \in {Zero, Epoch, P[m]}
      BY <2>1, <3>1 DEF Drifting
    <3> QED
      BY <1>6, <1>9, <1>11, <3>1, <3>2
  <2>3. \A k \in Running : \A j \in Proposing \ {k} : RoundCloseTime(seen'[k][j]) \in {P[j], Epoch}
    BY <1>7, <1>8, <2>1, <2>2 DEF Drifting
  <2>4. Drifting(P, l)'
    BY <1>1, <1>3, <2>1, <2>3 DEF Drifting, Level
  <2> QED
    BY <1>4, <2>4 DEF IsDrifting
<1>12. ASSUME calm > 0, IsParting PROVE IsParting'
  <2>1. PICK P \in Shown, l \in 0 .. 3, u \in WireTimes : Parting(P, l, u)
    BY <1>12 DEF IsParting
  <2>2. x \in {P[m], Epoch, u}
    <3>1. m \in Proposing /\ P[m] \in WireTimes
      BY <1>6, <1>12 DEF Shown
    <3>2. RoundCloseTime(own[m]) \in {Zero, Epoch, u, P[m]}
      BY <2>1, <3>1 DEF Parting
    <3> QED
      BY <1>6, <1>9, <1>12, <3>1, <3>2
  <2>3. \A k \in Running : \A j \in Proposing \ {k} :
            RoundCloseTime(seen'[k][j]) \in {P[j], Epoch, u}
    BY <1>7, <1>8, <2>1, <2>2 DEF Parting
  <2>4. Parting(P, l, u)'
    BY <1>1, <1>3, <2>1, <2>3 DEF Parting, Level
  <2> QED
    BY <1>4, <2>4 DEF IsParting
<1>13. ASSUME calm > 0, IsSettled PROVE IsSettled'
  <2>1. PICK w \in WireTimes : Settled(w)
    BY <1>13 DEF IsSettled
  <2>2. x = w
    BY <1>6, <1>9, <1>13, <2>1 DEF Settled
  <2>3. \A k \in Running : \A j \in Proposing \ {k} : RoundCloseTime(seen'[k][j]) = w
    BY <1>7, <2>1, <2>2 DEF Settled
  <2>4. Settled(w)'
    BY <1>1, <1>3, <2>1, <2>3 DEF Settled
  <2> QED
    BY <2>4 DEF IsSettled
<1>14. ASSUME calm > 0, IsDrifted PROVE IsDrifted'
  <2>1. PICK l \in 0 .. 3 : Drifted(l)
    BY <1>14 DEF IsDrifted
  <2>2. x = Epoch
    BY <1>6, <1>9, <1>14, <2>1 DEF Drifted
  <2>3. \A k \in Running : \A j \in Proposing \ {k} : RoundCloseTime(seen'[k][j]) = Epoch
    BY <1>7, <2>1, <2>2 DEF Drifted
  <2>4. Drifted(l)'
    BY <1>1, <1>3, <2>1, <2>3 DEF Drifted, Level
  <2> QED
    BY <2>4 DEF IsDrifted
<1>15. calm \in Nat /\ (calm = 1 => calm > 0) /\ (calm = 2 => calm > 0) /\ (calm > 2 => calm > 0)
  BY SMTT(30) DEF TypeOK, SettleBeats
<1>16. Proposing # {} => Stages'
  BY <1>1, <1>10, <1>11, <1>12, <1>13, <1>14, <1>15 DEF CalmInv, Stages
<1> QED
  BY <1>1, <1>3, <1>5, <1>6, <1>16 DEF CalmInv

-----------------------------------------------------------------------------
(* The end of a beat. *)

\* A beat is calm only if nothing was lost and the levels are one: then every
\* node holds every proposer's position, as it now is.
LEMMA CalmViews ==
    ASSUME TypeOK, CalmInv, Beat, calm' # 0
    PROVE  /\ Quiet'
           /\ \A n \in Running : \A m \in Proposing \ {n} :
                 RoundCloseTime(seen[n][m]) = Wire(RoundCloseTime(own[m]))
           /\ \E l \in 0 .. 3 : Level(l)
<1>1. /\ age' = [m \in Nodes |-> IF mode[m] = "proposing" THEN 0
                                 ELSE Min({age[m] + 1, Freshness})]
      /\ Running \subseteq ticked /\ mode' = mode /\ seen' = seen
  BY DEF Beat
<1>2. /\ Running' = Running /\ Proposing' = Proposing
      /\ Running \subseteq Nodes /\ Proposing \subseteq Running
      /\ \A k : Positions(k)' = Positions(k)
  BY <1>1 DEF Running, Proposing, Positions
<1>3. /\ ~\E n, m \in Running : Undelivered(m, n)
      /\ ~\E n, m \in Running : level[n] # level[m]
      /\ {m \in Nodes : age[m] < Freshness /\ mode[m] # "proposing"} = {}
  BY DEF Beat
<1>4. \A m \in Nodes \ Proposing : age[m] = Freshness /\ age'[m] = Freshness
  <2>1. ASSUME NEW m \in Nodes \ Proposing PROVE age[m] = Freshness /\ age'[m] = Freshness
    <3>1. mode[m] # "proposing" /\ age[m] \in 0 .. Freshness /\ ~(age[m] < Freshness)
      BY <1>3 DEF Proposing, TypeOK
    <3>2. age[m] = Freshness
      BY <3>1, TimesAssumption, SMTT(30)
    <3>3. Min({age[m] + 1, Freshness}) = Freshness
      BY <3>1, <3>2, Older
    <3> QED
      BY <1>1, <3>1, <3>2, <3>3
  <2> QED
    BY <2>1
<1>5. ASSUME NEW n \in Running, NEW m \in Proposing \ {n}
      PROVE  seen[n][m] # None /\ RoundCloseTime(seen[n][m]) = Wire(RoundCloseTime(own[m]))
  <2>1. ~Undelivered(m, n)
    BY <1>2, <1>3
  <2>2. m \in Nodes /\ mode[m] = "proposing" /\ m \notin Observers /\ age[m] = 0 /\ own[m] \in CloseTimes
    BY DEF TypeOK, Proposing
  <2>3. Sent(m) = Wire(own[m]) /\ seen[n][m] = Sent(m)
    BY <2>1, <2>2 DEF Sent, Undelivered
  <2> QED
    BY <2>2, <2>3, Stamps
<1>6. Quiet'
  <2>1. ASSUME NEW n \in Running PROVE Positions(n) = Proposing \ {n}
    <3>1. \A m \in Nodes \ Proposing : seen[n][m] = None
      BY <1>1, <1>4 DEF CalmInv, Pruned
    <3>2. seen[n][n] = None
      BY <1>2 DEF TypeOK
    <3> QED
      BY <1>2, <1>5, <3>1, <3>2 DEF Positions
  <2> QED
    BY <1>2, <1>4, <2>1 DEF Quiet
<1>7. \E l \in 0 .. 3 : Level(l)
  <2>1. \A n \in Running : level[n] \in 0 .. 3
    BY <1>2 DEF TypeOK
  <2>2. 0 \in 0 .. 3
    BY SMTT(30)
  <2> QED
    BY <1>3, <2>1, <2>2 DEF Level
<1> QED
  BY <1>5, <1>6, <1>7

\* What a calm beat leaves alone, and what it counts.
LEMMA CalmFrame ==
    ASSUME TypeOK, Beat, calm' # 0
    PROVE  /\ Running \subseteq ticked /\ ticked' = {}
           /\ own' = own /\ seen' = seen /\ chosen' = chosen
           /\ Running' = Running /\ Proposing' = Proposing /\ Proposing \subseteq Running
           /\ Running \subseteq Nodes /\ Shown' = Shown
           /\ \A l : Share(l)' = Share(l) /\ (Level(l) => Level(l)')
           /\ calm' = IF calm = SettleBeats THEN SettleBeats ELSE calm + 1
           /\ calm \in 0 .. 4 /\ SettleBeats = 4
<1>1. /\ Running \subseteq ticked /\ ticked' = {} /\ calm' = Min({calm + 1, SettleBeats})
      /\ mode' = mode /\ own' = own /\ seen' = seen /\ chosen' = chosen /\ level' = level
  BY DEF Beat
<1>2. /\ Running' = Running /\ Proposing' = Proposing /\ Proposing \subseteq Running
      /\ Running \subseteq Nodes
  BY <1>1 DEF Running, Proposing
<1>3. calm \in 0 .. 4 /\ SettleBeats = 4
  BY DEF TypeOK, SettleBeats
<1>4. calm' = IF calm + 1 <= 4 THEN calm + 1 ELSE 4
  BY <1>1, <1>3, MinIs, SMTT(30)
<1>5. calm' = IF calm = SettleBeats THEN SettleBeats ELSE calm + 1
  BY <1>3, <1>4, SMTT(30)
<1> QED
  BY <1>1, <1>2, <1>3, <1>5 DEF Shown, Share, Level

\* The first calm beat begins at one of three stages, whatever the positions.
LEMMA CalmBegins ==
    ASSUME TypeOK, CalmInv, Beat, calm' # 0, Proposing # {}
    PROVE  IsFirm' \/ IsDrifting' \/ IsParting'
<1>1. PICK l \in 0 .. 3 : Level(l)
  BY CalmViews
<1>2. /\ ticked' = {} /\ own' = own /\ seen' = seen
      /\ Running' = Running /\ Proposing' = Proposing /\ Proposing \subseteq Nodes
      /\ Shown' = Shown /\ Share(l)' = Share(l) /\ Level(l)'
  BY <1>1, CalmFrame
<1>3. /\ IsFiniteSet(Proposing) /\ Share(l) \in Nat /\ Share(l) > 0
  BY ProposingFinite
<1>4. \A m \in Proposing : own[m] \in CloseTimes
  BY <1>2 DEF TypeOK
<1>5. PICK P \in Shown : \A m \in Proposing : P[m] = Wire(RoundCloseTime(own[m]))
  <2> DEFINE Q == [m \in Proposing |-> Wire(RoundCloseTime(own[m]))]
  <2>1. Q \in Shown
    BY <1>4, Stamps DEF Shown
  <2> QED
    BY <2>1
<1>6. PICK Z \in SUBSET Proposing : \A m \in Proposing : m \in Z <=> own[m] = Zero
  <2> DEFINE Q == {m \in Proposing : own[m] = Zero}
  <2>1. Q \in SUBSET Proposing
    OBVIOUS
  <2> QED
    BY <2>1
<1>7. P \in [Proposing -> Nat] /\ \A m \in Z : P[m] = Epoch
  BY <1>5, <1>6, Stamps, Zeros DEF Shown, Wire
<1>8. ASSUME NEW m \in Proposing
      PROVE  /\ RoundCloseTime(own[m]) = View(P, Z, m)[m]
             /\ RoundCloseTime(own[m]) = P[m] \/ RoundCloseTime(own[m]) = Zero
  <2>1. own[m] = Zero <=> RoundCloseTime(own[m]) = Zero
    BY <1>4, Stamps, Moments
  <2>2. View(P, Z, m)[m] = IF m \in Z THEN Zero ELSE P[m]
    BY <1>7 DEF View
  <2> QED
    BY <1>5, <1>6, <2>1, <2>2 DEF Wire
<1>9. \A n \in Running : \A m \in Proposing \ {n} : RoundCloseTime(seen[n][m]) = P[m]
  BY <1>5, CalmViews
<1>10. \A t \in Times(P) : t \in WireTimes
  BY <1>5 DEF Times, Shown
<1>11. CASE \E w \in Nat \cap Times(P) : \A n : Wins(View(P, Z, n), w, Share(l))
  <2>1. PICK w \in WireTimes : \A n : Wins(View(P, Z, n), w, Share(l))
    BY <1>10, <1>11
  <2>2. Firm(P, Z, l, w)'
    BY <1>2, <1>8, <1>9, <1>7, <2>1 DEF Firm
  <2> QED
    BY <1>2, <1>5, <2>2 DEF IsFirm
<1>12. CASE \A t \in Nat \ {Epoch} : Count(P, t) < Share(l)
  <2>1. Drifting(P, l)'
    BY <1>2, <1>8, <1>9, <1>12 DEF Drifting
  <2> QED
    BY <1>2, <1>5, <2>1 DEF IsDrifting
<1>13. CASE \E u \in Times(P) : Split(P, u, Share(l))
  <2>1. PICK u \in WireTimes : Split(P, u, Share(l))
    BY <1>10, <1>13
  <2>2. Parting(P, l, u)'
    BY <1>2, <1>8, <1>9, <2>1 DEF Parting
  <2> QED
    BY <1>2, <1>5, <2>2 DEF IsParting
<1> QED
  BY <1>3, <1>11, <1>12, <1>13, <1>7, Trichotomy

\* All have moved to the one time.
LEMMA FirmEnds ==
    ASSUME TypeOK, CalmInv, Beat, calm' # 0, calm' # SettleBeats, IsFirm
    PROVE  IsSettled'
<1>1. PICK P \in Shown, Z \in SUBSET Proposing, l \in 0 .. 3, w \in WireTimes : Firm(P, Z, l, w)
  BY DEF IsFirm
<1>2. /\ Running \subseteq ticked /\ ticked' = {} /\ own' = own /\ seen' = seen
      /\ Running' = Running /\ Proposing' = Proposing /\ Proposing \subseteq Running
  BY CalmFrame
<1>3. \A m \in Proposing : RoundCloseTime(own[m]) = w
  BY <1>1, <1>2 DEF Firm
<1>4. Wire(w) = w
  BY DEF Wire, WireTimes
<1>5. \A n \in Running : \A m \in Proposing \ {n} : RoundCloseTime(seen[n][m]) = w
  BY <1>3, <1>4, CalmViews
<1>6. Settled(w)'
  BY <1>2, <1>3, <1>5 DEF Settled
<1> QED
  BY <1>6 DEF IsSettled

\* Of two camps one wins.
LEMMA PartingEnds ==
    ASSUME TypeOK, CalmInv, Beat, calm' # 0, Proposing # {}, IsParting
    PROVE  IsFirm'
<1>1. PICK P \in Shown, l \in 0 .. 3, u \in WireTimes : Parting(P, l, u)
  BY DEF IsParting
<1>2. /\ Running \subseteq ticked /\ ticked' = {} /\ own' = own /\ seen' = seen
      /\ Running' = Running /\ Proposing' = Proposing /\ Proposing \subseteq Running
      /\ Shown' = Shown /\ Share(l)' = Share(l) /\ (Level(l) => Level(l)')
  BY CalmFrame
<1>3. IsFiniteSet(Proposing) /\ Share(l) \in Nat
  BY ProposingFinite
<1>4. Epoch \in WireTimes /\ WireTimes \subseteq Nat
  BY Stamps, Zeros DEF WireTimes
<1>5. PICK V \in Shown : \A m \in Proposing : V[m] \in {Epoch, u} /\ V[m] = RoundCloseTime(own[m])
  <2> DEFINE Q == [m \in Proposing |-> RoundCloseTime(own[m])]
  <2>1. \A m \in Proposing : Q[m] \in {Epoch, u}
    BY <1>1, <1>2 DEF Parting
  <2>2. Q \in Shown
    BY <1>4, <2>1 DEF Shown
  <2> QED
    BY <2>1, <2>2
<1>6. V \in [Proposing -> Nat] /\ P \in [Proposing -> Nat]
  BY <1>4 DEF Shown
<1>7. Split(P, u, Share(l)) /\ Level(l) /\ \A m \in Proposing : V[m] \in {Epoch, u}
  BY <1>1, <1>5 DEF Parting
<1>8. PICK w \in {Epoch, u} : Wins(V, w, Share(l))
  BY <1>3, <1>6, <1>7, SplitEnds, SMTT(30)
<1>9. w \in WireTimes
  BY <1>4, <1>8
<1>10. \A n : View(V, {}, n) = V
  BY <1>6 DEF View
<1>11. \A n \in Running : \A m \in Proposing \ {n} : RoundCloseTime(seen[n][m]) = V[m]
  <2>1. \A m \in Proposing : Wire(V[m]) = V[m]
    BY DEF Shown, Wire, WireTimes
  <2> QED
    BY <1>5, <2>1, CalmViews
<1>12. \A n \in Running' : Wins(View(V, {}, n), w, Share(l)')
  BY <1>2, <1>8, <1>10
<1>13. \A m \in Proposing' :
           RoundCloseTime(own'[m]) = IF m \in ticked' THEN w ELSE View(V, {}, m)[m]
  BY <1>2, <1>5, <1>10
<1>14. \A n \in Running' : \A m \in Proposing' \ {n} : RoundCloseTime(seen'[n][m]) \in {V[m], w}
  BY <1>2, <1>11
<1>15. Firm(V, {}, l, w)'
  BY <1>2, <1>7, <1>12, <1>13, <1>14 DEF Firm
<1> QED
  BY <1>2, <1>9, <1>15 DEF IsFirm

\* None has a time left.
LEMMA DriftingEnds ==
    ASSUME TypeOK, CalmInv, Beat, calm' # 0, calm' # SettleBeats, IsDrifting
    PROVE  IsDrifted'
<1>1. PICK P \in Shown, l \in 0 .. 3 : Drifting(P, l)
  BY DEF IsDrifting
<1>2. /\ Running \subseteq ticked /\ ticked' = {} /\ own' = own /\ seen' = seen
      /\ Running' = Running /\ Proposing' = Proposing /\ Proposing \subseteq Running
      /\ (Level(l) => Level(l)')
  BY CalmFrame
<1>3. \A m \in Proposing : RoundCloseTime(own[m]) \in {Zero, Epoch}
  BY <1>1, <1>2 DEF Drifting
<1>4. Wire(Zero) = Epoch /\ Wire(Epoch) = Epoch
  BY DEF Wire
<1>5. \A n \in Running : \A m \in Proposing \ {n} : RoundCloseTime(seen[n][m]) = Epoch
  BY <1>3, <1>4, CalmViews
<1>6. Drifted(l)'
  BY <1>1, <1>2, <1>3, <1>5 DEF Drifted, Drifting
<1> QED
  BY <1>6 DEF IsDrifted

LEMMA SettledStays ==
    ASSUME TypeOK, CalmInv, Beat, calm' # 0, IsSettled
    PROVE  IsSettled'
<1>1. PICK w \in WireTimes : Settled(w)
  BY DEF IsSettled
<1>2. /\ Running \subseteq ticked /\ own' = own /\ seen' = seen /\ chosen' = chosen
      /\ Running' = Running /\ Proposing' = Proposing
  BY CalmFrame
<1>3. \A n \in Running : chosen[n] = w
  BY <1>1, <1>2 DEF Settled
<1>4. Settled(w)'
  BY <1>1, <1>2, <1>3 DEF Settled
<1> QED
  BY <1>4 DEF IsSettled

LEMMA DriftedStays ==
    ASSUME TypeOK, CalmInv, Beat, calm' # 0, IsDrifted
    PROVE  IsDrifted'
<1>1. PICK l \in 0 .. 3 : Drifted(l)
  BY DEF IsDrifted
<1>2. /\ Running \subseteq ticked /\ own' = own /\ seen' = seen /\ chosen' = chosen
      /\ Running' = Running /\ Proposing' = Proposing
      /\ Share(l)' = Share(l) /\ (Level(l) => Level(l)')
  BY CalmFrame
<1>3. \A n \in Running :
          IF n \in Proposing /\ own[n] = Zero THEN Share(l) = Cardinality(Proposing)
          ELSE chosen[n] = Epoch
  BY <1>1, <1>2 DEF Drifted
<1>4. Drifted(l)'
  BY <1>1, <1>2, <1>3 DEF Drifted
<1> QED
  BY <1>4 DEF IsDrifted

LEMMA CalmBeat == ASSUME TypeOK, CalmInv, Beat PROVE CalmInv'
<1>1. Pruned'
  BY DEF Beat, Pruned
<1>2. calm' \in Nat
  BY BeatType, SMTT(30) DEF TypeOK, SettleBeats
<1>3. CASE calm' = 0
  <2>1. ~(calm' > 0) /\ Stages'
    BY <1>3, SMTT(30) DEF Stages
  <2> QED
    BY <1>1, <2>1 DEF CalmInv
<1>4. CASE calm' # 0
  <2>1. /\ Proposing' = Proposing /\ calm \in 0 .. 4 /\ SettleBeats = 4
        /\ calm' = IF calm = SettleBeats THEN SettleBeats ELSE calm + 1
    BY <1>4, CalmFrame
  <2>2. ASSUME Proposing # {} PROVE Stages'
    <3>1. CASE calm = 0
      <4>1. calm' = 1
        BY <2>1, <3>1, SMTT(30)
      <4> QED
        BY <1>4, <2>2, <4>1, CalmBegins, SMTT(30) DEF Stages
    <3>2. CASE calm = 1
      <4>1. calm' = 2 /\ calm' # SettleBeats
        BY <2>1, <3>2, SMTT(30)
      <4>2. IsSettled' \/ IsDrifted' \/ IsFirm'
        BY <1>4, <2>2, <3>2, <4>1, FirmEnds, DriftingEnds, PartingEnds DEF CalmInv, Stages
      <4> QED
        BY <4>1, <4>2, SMTT(30) DEF Stages
    <3>3. CASE calm = 2
      <4>1. calm' = 3 /\ calm' # SettleBeats
        BY <2>1, <3>3, SMTT(30)
      <4>2. IsSettled' \/ IsDrifted'
        BY <1>4, <2>2, <3>3, <4>1, FirmEnds, SettledStays, DriftedStays DEF CalmInv, Stages
      <4> QED
        BY <4>1, <4>2, SMTT(30) DEF Stages
    <3>4. CASE calm > 2
      <4>1. IsSettled' \/ IsDrifted'
        BY <1>4, <2>2, <3>4, SettledStays, DriftedStays DEF CalmInv, Stages
      <4>2. calm' > 2
        BY <2>1, <3>4, SMTT(30)
      <4> QED
        BY <4>1, <4>2, SMTT(30) DEF Stages
    <3> QED
      BY <2>1, <3>1, <3>2, <3>3, <3>4, SMTT(30)
  <2> QED
    BY <1>1, <1>4, <2>1, <2>2, CalmViews DEF CalmInv
<1> QED
  BY <1>3, <1>4

LEMMA CalmLeave ==
    ASSUME TypeOK, CalmInv, NEW n \in Nodes, Stop(n) \/ LeaveConsensus(n)
    PROVE  CalmInv'
<1>1. PICK to \in {"observing", "gone", "left"} : Leave(n, to) /\ n \in Running
  BY DEF Stop, LeaveConsensus, Running
<1>2. /\ mode' = [mode EXCEPT ![n] = to] /\ calm' = 0
      /\ seen' = seen /\ age' = age /\ ticked' = ticked
  BY <1>1 DEF Leave
<1>3. Running' \subseteq Running
  BY <1>1, <1>2 DEF Running, TypeOK
<1>4. Pruned'
  BY <1>2, <1>3 DEF CalmInv, Pruned
<1> QED
  BY <1>2, <1>4, SMTT(30) DEF CalmInv, Stages

LEMMA CalmStutter == ASSUME CalmInv, UNCHANGED vars PROVE CalmInv'
<1>1. /\ Running' = Running /\ Proposing' = Proposing /\ (\A j : Share(j)' = Share(j))
      /\ (\A j : Level(j)' = Level(j)) /\ own' = own /\ seen' = seen /\ ticked' = ticked
      /\ chosen' = chosen /\ calm' = calm
  BY DEF vars, Running, Proposing, Share, Level
<1>2. Pruned' = Pruned /\ Quiet' = Quiet /\ Shown' = Shown
  BY <1>1 DEF vars, Pruned, Quiet, Positions, Shown
<1>3. \A P, Z, l, w : Firm(P, Z, l, w)' = Firm(P, Z, l, w)
  BY <1>1, SMTT(30) DEF Firm
<1>4. \A P, l : Drifting(P, l)' = Drifting(P, l)
  BY <1>1 DEF Drifting
<1>5. \A P, l, u : Parting(P, l, u)' = Parting(P, l, u)
  BY <1>1 DEF Parting
<1>6. (\A w : Settled(w)' = Settled(w)) /\ (\A l : Drifted(l)' = Drifted(l))
  BY <1>1 DEF Settled, Drifted
<1>7. /\ IsFirm' = IsFirm /\ IsDrifting' = IsDrifting /\ IsParting' = IsParting
      /\ IsSettled' = IsSettled /\ IsDrifted' = IsDrifted
  BY <1>1, <1>2, <1>3, <1>4, <1>5, <1>6 DEF IsFirm, IsDrifting, IsParting, IsSettled, IsDrifted
<1> QED
  BY <1>1, <1>2, <1>7 DEF CalmInv, Stages

LEMMA CalmNext == ASSUME TypeOK, CalmInv, [Next]_vars PROVE CalmInv'
  BY CalmStutter, CalmTick, CalmRetry, CalmDeliver, CalmBeat, CalmLeave DEF Next

\* Four beats after the last lost position, departure, stale position or
\* escalation, and while a node proposes and none is adrift, every running
\* node has consensus on the close time and all have the same.  Of the
\* positions the faults left, updateCloseTimePosition finds the same time
\* everywhere, or the epoch and one other, or none; who moves there does not
\* change that for those still to tally; and the votes that divide the epoch
\* from no time, cast as one and received as the other, decide a beat later.
THEOREM SettlesCorrect == Spec => []SettlesWithin
<1>1. Init => CalmInv
  BY SMTT(30) DEF Init, CalmInv, Pruned, Stages
<1>2. TypeOK /\ CalmInv /\ [Next]_vars => CalmInv'
  BY CalmNext
<1>3. TypeOK /\ CalmInv => SettlesWithin
  <2>1. SUFFICES ASSUME TypeOK, CalmInv, calm = SettleBeats, Proposing # {}, ~Adrift,
                        NEW n \in Running, NEW m \in Running
                 PROVE  chosen[n] # None /\ chosen[n] = chosen[m]
    BY DEF SettlesWithin
  <2>2. calm > 2
    BY <2>1, SMTT(30) DEF SettleBeats
  <2>3. Stages
    BY <2>1 DEF CalmInv
  <2>4. CASE IsSettled
    <3>1. PICK w \in WireTimes : Settled(w)
      BY <2>4 DEF IsSettled
    <3>2. chosen[n] = w /\ chosen[m] = w
      BY <2>1, <3>1 DEF Settled
    <3> QED
      BY <3>2, Stamps
  <2>5. CASE IsDrifted
    <3>1. PICK l \in 0 .. 3 : Drifted(l)
      BY <2>5 DEF IsDrifted
    <3>2. Proposing \subseteq Running
      BY DEF Proposing, Running
    <3>3. \A k \in Proposing : own[k] = Zero => Share(l) # Cardinality(Proposing)
      BY <2>1, <3>1, <3>2 DEF Adrift, Drifted, Level, Share
    <3>4. chosen[n] = Epoch /\ chosen[m] = Epoch
      BY <2>1, <3>1, <3>3 DEF Drifted
    <3> QED
      BY <3>4, Stamps
  <2> QED
    BY <2>2, <2>3, <2>4, <2>5 DEF Stages
<1> QED
  BY <1>1, <1>2, <1>3, TypeCorrect, PTL DEF Spec

=============================================================================
