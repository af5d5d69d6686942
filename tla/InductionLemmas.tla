--------------------------- MODULE InductionLemmas ---------------------------
(* Facts about numbers that the proofs share.  Induction is stated over sets,  *)
(* whose members a proof chooses as those for which its claim holds.           *)
EXTENDS Naturals, FiniteSets, FiniteSetTheorems, NaturalsInduction, WellFoundedInduction,
        TLAPS

\* Leaves without arithmetic are for Zenon, which is the default.
USE Zenon

Below == {p \in Nat \X Nat : p[1] < p[2]}

\* A set of numbers has a least element.
LEMMA LeastNumber ==
    ASSUME NEW T \in SUBSET Nat, T # {}
    PROVE  \E x \in T : \A y \in T : x <= y
<1>1. OpToRel(<, Nat) = Below
  BY DEF OpToRel, Below
<1>2. IsWellFoundedOn(Below, Nat)
  BY <1>1, NatLessThanWellFounded
<1>3. T \subseteq Nat
  OBVIOUS
<1>4. \E x \in T : \A y \in T : ~(<<y, x>> \in Below)
  BY <1>2, <1>3, WFMin
<1>5. PICK x \in T : \A y \in T : ~(<<y, x>> \in Below)
  BY <1>4
<1>6. ASSUME NEW y \in T PROVE x <= y
  <2>1. x \in Nat /\ y \in Nat
    BY <1>3
  <2>2. <<y, x>> \notin Below
    BY <1>5
  <2>3. ~(y < x)
    BY <2>1, <2>2 DEF Below
  <2> QED
    BY <2>1, <2>3, SMTT(30)
<1> QED
  BY <1>6

\* A bounded set of numbers has a greatest element.
LEMMA GreatestNumber ==
    ASSUME NEW N \in Nat, NEW T \in SUBSET (0..N), T # {}
    PROVE  \E x \in T : \A y \in T : y <= x
<1> DEFINE D == {N - x : x \in T}
<1>1. D \in SUBSET Nat /\ D # {}
  <2>1. \A x \in T : N - x \in Nat
    <3>1. \A x \in 0..N : N - x \in Nat
      BY SMTT(30)
    <3>2. T \subseteq 0..N
      OBVIOUS
    <3> QED
      BY <3>1, <3>2
  <2> QED
    BY <2>1
<1>2. PICK d \in D : \A c \in D : d <= c
  <2> HIDE DEF D
  <2> QED
    BY <1>1, LeastNumber
<1>3. PICK x \in T : d = N - x
  OBVIOUS
<1>4. ASSUME NEW y \in T PROVE y <= x
  <2>1. N - y \in D
    OBVIOUS
  <2>2. d <= N - y
    BY <1>2, <2>1
  <2> HIDE DEF D
  <2> QED
    BY <1>3, <2>2, SMTT(30)
<1> QED
  BY <1>4

\* A finite set of numbers has a greatest element.
LEMMA FiniteGreatest ==
    ASSUME NEW S \in SUBSET Nat, S # {}, IsFiniteSet(S)
    PROVE  \E x \in S : \A y \in S : y <= x
<1> DEFINE Bad == {X \in SUBSET S : X # {} /\ ~\E x \in X : \A y \in X : y <= x}
           T == {Cardinality(X) : X \in Bad}
<1>1. SUFFICES ASSUME Bad # {} PROVE FALSE
  OBVIOUS
<1>2. \A X \in SUBSET S : IsFiniteSet(X) /\ Cardinality(X) \in Nat
  BY FS_Subset, FS_CardinalityType
<1>3. T \in SUBSET Nat /\ T # {}
  BY <1>1, <1>2
<1>4. PICK c \in T : \A d \in T : c <= d
  <2> HIDE DEF T
  <2> QED
    BY <1>3, LeastNumber
<1>5. PICK X \in Bad : c = Cardinality(X)
  OBVIOUS
<1>6. PICK x \in X : TRUE
  BY <1>5
<1> DEFINE Y == X \ {x}
<1>7. X \in SUBSET S /\ Y \in SUBSET S /\ X \subseteq Nat
  BY <1>5
<1>8. Cardinality(Y) = Cardinality(X) - 1 /\ Cardinality(X) \in Nat
  BY <1>2, <1>6, <1>7, FS_RemoveElement
<1>9. Y \notin Bad
  <2>1. SUFFICES ASSUME Y \in Bad PROVE FALSE
    OBVIOUS
  <2>2. c <= Cardinality(Y)
    BY <1>4, <2>1
  <2> QED
    BY <1>5, <1>8, <2>2, SMTT(30)
<1>10. CASE Y = {}
  <2>1. X = {x} /\ x \in Nat
    BY <1>6, <1>7, <1>10
  <2> QED
    BY <1>5, <2>1, SMTT(30)
<1>11. CASE Y # {}
  <2>1. PICK z \in Y : \A y \in Y : y <= z
    BY <1>7, <1>9, <1>11
  <2>2. z \in Nat /\ x \in Nat /\ z \in X
    BY <1>6, <1>7
  <2>3. CASE x <= z
    <3>1. \A y \in X : y <= z
      BY <2>1, <2>3
    <3> QED
      BY <1>5, <2>2, <3>1
  <2>4. CASE z <= x
    <3>1. \A y \in X : y \in Nat /\ (y = x \/ y <= z)
      BY <1>7, <2>1
    <3>2. \A y \in X : y <= x
      BY <2>2, <2>4, <3>1, SMTT(30)
    <3> QED
      BY <1>5, <1>6, <3>2
  <2> QED
    BY <2>2, <2>3, <2>4, SMTT(30)
<1> QED
  BY <1>10, <1>11

=============================================================================
