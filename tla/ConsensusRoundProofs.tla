------------------------ MODULE ConsensusRoundProofs ------------------------
(* Machine-checked proofs about the consensus round, for any finite set of     *)
(* peers and any transactions, ledgers, proposals and trust views.             *)
EXTENDS ConsensusRound, TLAPS

\* Leaves without arithmetic are for Zenon, which is the default.
USE Zenon

(* Maps and counts.                                                        *)

\* What the lemmas need to know of finite sets and of sets of numbers.  They take it
\* as a hypothesis, which FactsHold proves by induction before the theorems.
Facts ==
    /\ \A T : IsFiniteSet(T) =>
          /\ Cardinality(T) \in Nat
          /\ \A S \in SUBSET T : IsFiniteSet(S)
          /\ \A S : Cardinality(T \ S) = Cardinality(T) - Cardinality(T \cap S)
    /\ IsFiniteSet({}) /\ Cardinality({}) = 0
    /\ \A S, T : IsFiniteSet(S) /\ IsFiniteSet(T) =>
          Cardinality(S \cup T) = Cardinality(S) + Cardinality(T) - Cardinality(S \cap T)
    /\ \A T \in SUBSET Nat : T # {} => \E x \in T : \A y \in T : x <= y
    /\ \A n \in Nat : \A T \in SUBSET (0..n) : T # {} => \E x \in T : \A y \in T : y <= x

LEMMA FiniteSubset ==
    ASSUME Facts, NEW T, IsFiniteSet(T), NEW S \in SUBSET T
    PROVE  IsFiniteSet(S)
BY DEF Facts

LEMMA CountType ==
    ASSUME Facts, NEW T, IsFiniteSet(T)
    PROVE  Cardinality(T) \in Nat
BY DEF Facts

LEMMA CountEmpty ==
    ASSUME Facts
    PROVE  IsFiniteSet({}) /\ Cardinality({}) = 0
BY DEF Facts

LEMMA CountDifference ==
    ASSUME Facts, NEW T, IsFiniteSet(T), NEW S
    PROVE  Cardinality(T \ S) = Cardinality(T) - Cardinality(T \cap S)
BY DEF Facts

LEMMA CountUnion ==
    ASSUME Facts, NEW S, NEW T, IsFiniteSet(S), IsFiniteSet(T)
    PROVE  Cardinality(S \cup T) = Cardinality(S) + Cardinality(T) - Cardinality(S \cap T)
BY DEF Facts

LEMMA LeastOf ==
    ASSUME Facts, NEW T \in SUBSET Nat, T # {}
    PROVE  \E x \in T : \A y \in T : x <= y
BY DEF Facts

LEMMA GreatestOf ==
    ASSUME Facts, NEW n \in Nat, NEW T \in SUBSET (0..n), T # {}
    PROVE  \E x \in T : \A y \in T : y <= x
BY DEF Facts

\* The maps whose keys are in S and whose values are in T.
Partial(S, T) == UNION {[D -> T] : D \in SUBSET S}

LEMMA PartialIntro ==
    ASSUME NEW S, NEW T, NEW D \in SUBSET S, NEW f \in [D -> T]
    PROVE  f \in Partial(S, T)
BY DEF Partial

LEMMA PartialElim ==
    ASSUME NEW S, NEW T, NEW f \in Partial(S, T)
    PROVE  /\ DOMAIN f \subseteq S
           /\ \A n \in DOMAIN f : f[n] \in T
           /\ f \in [DOMAIN f -> T]
BY DEF Partial

\* Overriding a map with another.
LEMMA PutShape ==
    ASSUME NEW S, NEW T, NEW f \in Partial(S, T), NEW g \in Partial(S, T)
    PROVE  /\ Put(f, g) \in Partial(S, T)
           /\ DOMAIN Put(f, g) = DOMAIN f \cup DOMAIN g
           /\ \A n \in DOMAIN f \cup DOMAIN g :
                 Put(f, g)[n] = IF n \in DOMAIN f THEN f[n] ELSE g[n]
<1>1. Put(f, g) \in [DOMAIN f \cup DOMAIN g -> T]
  BY PartialElim DEF Put
<1>2. DOMAIN f \cup DOMAIN g \in SUBSET S
  BY PartialElim
<1> QED
  BY <1>1, <1>2, PartialIntro DEF Put

LEMMA KeepShape ==
    ASSUME NEW S, NEW T, NEW f \in Partial(S, T), NEW R
    PROVE  /\ Keep(f, R) \in Partial(S, T)
           /\ DOMAIN Keep(f, R) = DOMAIN f \cap R
           /\ \A n \in DOMAIN f \cap R : Keep(f, R)[n] = f[n]
<1>1. Keep(f, R) \in [DOMAIN f \cap R -> T]
  BY PartialElim DEF Keep
<1>2. DOMAIN f \cap R \in SUBSET S
  BY PartialElim
<1> QED
  BY <1>1, <1>2, PartialIntro DEF Keep

LEMMA EmptyShape ==
    ASSUME NEW S, NEW T
    PROVE  Empty \in Partial(S, T) /\ DOMAIN Empty = {}
<1>1. Empty \in [{} -> T] /\ DOMAIN Empty = {}
  BY DEF Empty
<1> QED
  BY <1>1, PartialIntro

\* The finite set A loses L and gains G, which makes it B.
Moves(A, G, L, B) ==
    /\ IsFiniteSet(A) /\ IsFiniteSet(G) /\ G \cap A = {} /\ L \subseteq A
    /\ B = (A \ L) \cup G

LEMMA CountMoves ==
    ASSUME Facts, NEW A, NEW G, NEW L, NEW B, Moves(A, G, L, B)
    PROVE  Cardinality(B) = Cardinality(A) + Cardinality(G) - Cardinality(L)
<1> USE DEF Moves
<1>1. IsFiniteSet(L) /\ IsFiniteSet(A \ L)
  BY FiniteSubset
<1>2. Cardinality(A) \in Nat /\ Cardinality(G) \in Nat /\ Cardinality(L) \in Nat
      /\ Cardinality(A \ L) \in Nat
  BY <1>1, CountType
<1>3. Cardinality(A \ L) = Cardinality(A) - Cardinality(A \cap L)
  BY CountDifference
<1>4. A \cap L = L
  OBVIOUS
<1>5. Cardinality((A \ L) \cup G)
        = Cardinality(A \ L) + Cardinality(G) - Cardinality((A \ L) \cap G)
  BY <1>1, CountUnion
<1>6. (A \ L) \cap G = {}
  OBVIOUS
<1>7. Cardinality({}) = 0
  BY CountEmpty
<1>8. Cardinality(A \ L) = Cardinality(A) - Cardinality(L)
  BY <1>3, <1>4
<1>9. Cardinality((A \ L) \cap G) = 0
  BY <1>6, <1>7
<1> QED
  BY <1>2, <1>5, <1>8, <1>9, SMTT(30)

-----------------------------------------------------------------------------
(* Votes.                                                                  *)

\* A position as the engine keeps it: one that its peer signed.
Held ==
    {h \in Entries : \E m \in Messages : /\ h.node = m.node /\ h.prev = m.prev
                                        /\ h.pos = m.pos /\ h.set = m.set}

Disputes == [our : BOOLEAN, votes : Partial(Peers, BOOLEAN), yays : Int, nays : Int]

\* The voters of d that voted b.
Cast(d, b) == {n \in DOMAIN d.votes : d.votes[n] = b}

Exact(d) ==
    /\ d.yays = Cardinality(Cast(d, TRUE))
    /\ d.nays = Cardinality(Cast(d, FALSE))

LEMMA VoteSets ==
    ASSUME Facts, NEW d \in Disputes
    PROVE  /\ DOMAIN d.votes \subseteq Peers /\ IsFiniteSet(DOMAIN d.votes)
           /\ \A n \in DOMAIN d.votes : d.votes[n] \in BOOLEAN
           /\ \A b : IsFiniteSet(Cast(d, b)) /\ Cardinality(Cast(d, b)) \in Nat
<1>1. d.votes \in Partial(Peers, BOOLEAN)
  BY DEF Disputes
<1>2. DOMAIN d.votes \subseteq Peers /\ \A n \in DOMAIN d.votes : d.votes[n] \in BOOLEAN
  BY <1>1, PartialElim
<1>3. IsFiniteSet(DOMAIN d.votes)
  BY <1>2, MessagesAssumption, FiniteSubset
<1>4. \A b : Cast(d, b) \subseteq DOMAIN d.votes
  BY DEF Cast
<1> QED
  BY <1>2, <1>3, <1>4, FiniteSubset, CountType

\* updateVoteCount: the new votes replace the old and the tallies follow.
LEMMA SetVotesShape ==
    ASSUME Facts, NEW d \in Disputes, NEW v \in Partial(Peers, BOOLEAN)
    PROVE  /\ SetVotes(d, v) \in Disputes /\ SetVotes(d, v).our = d.our
           /\ DOMAIN SetVotes(d, v).votes = DOMAIN v \cup DOMAIN d.votes
           /\ \A n \in DOMAIN v \cup DOMAIN d.votes :
                 SetVotes(d, v).votes[n] = IF n \in DOMAIN v THEN v[n] ELSE d.votes[n]
           /\ Exact(d) => Exact(SetVotes(d, v))
<1> DEFINE was(n, b) == n \in DOMAIN d.votes /\ d.votes[n] = b
           G(b) == {n \in DOMAIN v : v[n] = b /\ ~was(n, b)}
           L(b) == {n \in DOMAIN v : v[n] # b /\ was(n, b)}
           w == Put(v, d.votes)
           y == d.yays + Cardinality(G(TRUE)) - Cardinality(L(TRUE))
           z == d.nays + Cardinality(G(FALSE)) - Cardinality(L(FALSE))
<1>1. SetVotes(d, v) = [d EXCEPT !.votes = w, !.yays = y, !.nays = z]
  BY DEF SetVotes
<1>2. d.votes \in Partial(Peers, BOOLEAN) /\ d.our \in BOOLEAN /\ d.yays \in Int /\ d.nays \in Int
  BY DEF Disputes
<1>3. /\ w \in Partial(Peers, BOOLEAN) /\ DOMAIN w = DOMAIN v \cup DOMAIN d.votes
      /\ \A n \in DOMAIN v \cup DOMAIN d.votes :
            w[n] = IF n \in DOMAIN v THEN v[n] ELSE d.votes[n]
  <2> DEFINE old == d.votes
  <2>1. old \in Partial(Peers, BOOLEAN)
    BY <1>2
  <2> HIDE DEF old
  <2>2. Put(v, old) \in Partial(Peers, BOOLEAN)
    BY <2>1, PutShape
  <2>3. DOMAIN Put(v, old) = DOMAIN v \cup DOMAIN old
    BY DEF Put
  <2>4. \A n \in DOMAIN v \cup DOMAIN old :
            Put(v, old)[n] = IF n \in DOMAIN v THEN v[n] ELSE old[n]
    BY DEF Put
  <2> QED
    BY <2>2, <2>3, <2>4 DEF old
<1>4. \A b : /\ IsFiniteSet(G(b)) /\ Cardinality(G(b)) \in Nat
             /\ IsFiniteSet(L(b)) /\ Cardinality(L(b)) \in Nat
  <2>1. DOMAIN v \subseteq Peers
    BY PartialElim
  <2>2. \A b : G(b) \subseteq Peers /\ L(b) \subseteq Peers
    BY <2>1
  <2> HIDE DEF G, L
  <2> QED
    BY <2>2, MessagesAssumption, FiniteSubset, CountType
<1>5. y \in Int /\ z \in Int
  <2> DEFINE gt == Cardinality(G(TRUE))  lt == Cardinality(L(TRUE))
             gf == Cardinality(G(FALSE)) lf == Cardinality(L(FALSE))
  <2>1. gt \in Nat /\ lt \in Nat /\ gf \in Nat /\ lf \in Nat
    BY <1>4
  <2> HIDE DEF gt, lt, gf, lf
  <2>2. d.yays + gt - lt \in Int /\ d.nays + gf - lf \in Int
    BY <1>2, <2>1, SMTT(30)
  <2> QED
    BY <2>2 DEF gt, lt, gf, lf
<1>6. /\ SetVotes(d, v) \in Disputes /\ SetVotes(d, v).our = d.our
      /\ SetVotes(d, v).votes = w /\ SetVotes(d, v).yays = y /\ SetVotes(d, v).nays = z
  <2> HIDE DEF w, y, z
  <2> QED
    BY <1>1, <1>2, <1>3, <1>5 DEF Disputes
<1>7. ASSUME NEW b
      PROVE  Cardinality(Cast(SetVotes(d, v), b))
               = Cardinality(Cast(d, b)) + Cardinality(G(b)) - Cardinality(L(b))
  <2>1. Cast(SetVotes(d, v), b) = {n \in DOMAIN w : w[n] = b}
    BY <1>6 DEF Cast
  <2>2. {n \in DOMAIN w : w[n] = b} = (Cast(d, b) \ L(b)) \cup G(b)
    <3> HIDE DEF w
    <3> QED
      BY <1>3 DEF Cast
  <2>3. L(b) \in SUBSET Cast(d, b) /\ G(b) \cap Cast(d, b) = {}
    BY DEF Cast
  <2>4. IsFiniteSet(Cast(d, b)) /\ IsFiniteSet(G(b))
    BY VoteSets, <1>4
  <2>5. Moves(Cast(d, b), G(b), L(b), Cast(SetVotes(d, v), b))
    BY <2>1, <2>2, <2>3, <2>4 DEF Moves
  <2> HIDE DEF G, L
  <2> QED
    BY <2>5, CountMoves, SMTT(30)
<1>8. Exact(d) => Exact(SetVotes(d, v))
  <2> HIDE DEF G, L, w
  <2> QED
    BY <1>6, <1>7 DEF Exact
<1> QED
  BY <1>3, <1>6, <1>8

\* unVote: the votes of S go and the tallies follow.
LEMMA UnVoteShape ==
    ASSUME Facts, NEW d \in Disputes, NEW S
    PROVE  /\ UnVoteOne(d, S) \in Disputes /\ UnVoteOne(d, S).our = d.our
           /\ DOMAIN UnVoteOne(d, S).votes = DOMAIN d.votes \ S
           /\ \A n \in DOMAIN d.votes \ S : UnVoteOne(d, S).votes[n] = d.votes[n]
           /\ Exact(d) => Exact(UnVoteOne(d, S))
<1> DEFINE L(b) == {n \in DOMAIN d.votes \cap S : d.votes[n] = b}
           w == Keep(d.votes, DOMAIN d.votes \ S)
           y == d.yays - Cardinality(L(TRUE))
           z == d.nays - Cardinality(L(FALSE))
<1>1. UnVoteOne(d, S) = [d EXCEPT !.votes = w, !.yays = y, !.nays = z]
  BY DEF UnVoteOne
<1>2. d.votes \in Partial(Peers, BOOLEAN) /\ d.our \in BOOLEAN /\ d.yays \in Int /\ d.nays \in Int
  BY DEF Disputes
<1>3. /\ w \in Partial(Peers, BOOLEAN) /\ DOMAIN w = DOMAIN d.votes \ S
      /\ \A n \in DOMAIN d.votes \ S : w[n] = d.votes[n]
  <2>1. DOMAIN d.votes \cap (DOMAIN d.votes \ S) = DOMAIN d.votes \ S
    OBVIOUS
  <2> QED
    BY <1>2, <2>1, KeepShape, SMTT(30)
<1>4. \A b : L(b) \in SUBSET Cast(d, b)
  BY DEF Cast
<1>5. \A b : Cardinality(L(b)) \in Nat
  <2> HIDE DEF L
  <2> QED
    BY <1>4, VoteSets, FiniteSubset, CountType
<1>6. y \in Int /\ z \in Int
  <2> DEFINE lt == Cardinality(L(TRUE)) lf == Cardinality(L(FALSE))
  <2>1. lt \in Nat /\ lf \in Nat
    BY <1>5
  <2> HIDE DEF lt, lf
  <2>2. d.yays - lt \in Int /\ d.nays - lf \in Int
    BY <1>2, <2>1, SMTT(30)
  <2> QED
    BY <2>2 DEF lt, lf
<1>7. /\ UnVoteOne(d, S) \in Disputes /\ UnVoteOne(d, S).our = d.our
      /\ UnVoteOne(d, S).votes = w /\ UnVoteOne(d, S).yays = y /\ UnVoteOne(d, S).nays = z
  <2> HIDE DEF w, y, z
  <2> QED
    BY <1>1, <1>2, <1>3, <1>6 DEF Disputes
<1>8. ASSUME NEW b
      PROVE  Cardinality(Cast(UnVoteOne(d, S), b))
               = Cardinality(Cast(d, b)) - Cardinality(L(b))
  <2>1. Cast(UnVoteOne(d, S), b) = {n \in DOMAIN w : w[n] = b}
    BY <1>7 DEF Cast
  <2>2. {n \in DOMAIN w : w[n] = b} = Cast(d, b) \ L(b)
    <3> HIDE DEF w
    <3> QED
      BY <1>3 DEF Cast
  <2>3. IsFiniteSet(Cast(d, b))
    BY VoteSets
  <2>4. Moves(Cast(d, b), {}, L(b), Cast(UnVoteOne(d, S), b))
    BY <1>4, <2>1, <2>2, <2>3, CountEmpty DEF Moves
  <2>5. Cardinality({}) = 0 /\ Cardinality(Cast(d, b)) \in Nat /\ Cardinality(L(b)) \in Nat
    BY <1>5, CountEmpty, VoteSets
  <2> HIDE DEF L
  <2> QED
    BY <2>4, <2>5, CountMoves, SMTT(30)
<1>9. Exact(d) => Exact(UnVoteOne(d, S))
  <2> HIDE DEF L, w
  <2> QED
    BY <1>7, <1>8 DEF Exact
<1> QED
  BY <1>3, <1>7, <1>9

\* unVote for every node of S, dispute by dispute.
LEMMA UnVoteMap ==
    ASSUME Facts, NEW D \in Partial(Txs, Disputes), NEW S
    PROVE  /\ UnVote(D, S) \in Partial(Txs, Disputes)
           /\ DOMAIN UnVote(D, S) = DOMAIN D
           /\ \A x \in DOMAIN D :
                 /\ UnVote(D, S)[x].our = D[x].our
                 /\ DOMAIN UnVote(D, S)[x].votes = DOMAIN D[x].votes \ S
                 /\ \A n \in DOMAIN D[x].votes \ S :
                       UnVote(D, S)[x].votes[n] = D[x].votes[n]
                 /\ Exact(D[x]) => Exact(UnVote(D, S)[x])
<1>1. DOMAIN D \in SUBSET Txs /\ \A x \in DOMAIN D : D[x] \in Disputes
  BY PartialElim
<1>2. DOMAIN UnVote(D, S) = DOMAIN D /\ \A x \in DOMAIN D : UnVote(D, S)[x] = UnVoteOne(D[x], S)
  BY DEF UnVote
<1>3. \A x \in DOMAIN D : UnVoteOne(D[x], S) \in Disputes
  BY <1>1, UnVoteShape
<1>4. UnVote(D, S) \in [DOMAIN D -> Disputes]
  BY <1>3 DEF UnVote
<1>5. UnVote(D, S) \in Partial(Txs, Disputes)
  BY <1>1, <1>4, PartialIntro
<1> QED
  BY <1>1, <1>2, <1>5, UnVoteShape, SMTT(30)

\* updateDisputes for every node of S, dispute by dispute.
LEMMA UpdateMap ==
    ASSUME Facts, NEW D \in Partial(Txs, Disputes), NEW S \in SUBSET Peers, NEW s
    PROVE  /\ UpdateDisputes(D, S, s) \in Partial(Txs, Disputes)
           /\ DOMAIN UpdateDisputes(D, S, s) = DOMAIN D
           /\ \A x \in DOMAIN D :
                 /\ UpdateDisputes(D, S, s)[x].our = D[x].our
                 /\ DOMAIN UpdateDisputes(D, S, s)[x].votes = S \cup DOMAIN D[x].votes
                 /\ \A n \in S : UpdateDisputes(D, S, s)[x].votes[n] = (x \in s)
                 /\ \A n \in DOMAIN D[x].votes \ S :
                       UpdateDisputes(D, S, s)[x].votes[n] = D[x].votes[n]
                 /\ Exact(D[x]) => Exact(UpdateDisputes(D, S, s)[x])
<1> DEFINE v(x) == [n \in S |-> x \in s]
<1>1. DOMAIN D \in SUBSET Txs /\ \A x \in DOMAIN D : D[x] \in Disputes
  BY PartialElim
<1>2. /\ DOMAIN UpdateDisputes(D, S, s) = DOMAIN D
      /\ \A x \in DOMAIN D : UpdateDisputes(D, S, s)[x] = SetVotes(D[x], v(x))
  BY DEF UpdateDisputes
<1>3. \A x : /\ v(x) \in Partial(Peers, BOOLEAN) /\ DOMAIN v(x) = S
             /\ \A n \in S : v(x)[n] = (x \in s)
  <2>1. \A x : v(x) \in [S -> BOOLEAN]
    BY SMTT(30)
  <2>2. \A x : v(x) \in Partial(Peers, BOOLEAN)
    <3> HIDE DEF v
    <3> QED
      BY <2>1, PartialIntro
  <2> QED
    BY <2>2
<1>4. UpdateDisputes(D, S, s) = [x \in DOMAIN D |-> SetVotes(D[x], v(x))]
  BY DEF UpdateDisputes
<1> HIDE DEF v
<1>5. \A x \in DOMAIN D : SetVotes(D[x], v(x)) \in Disputes
  BY <1>1, <1>3, SetVotesShape
<1>6. UpdateDisputes(D, S, s) \in [DOMAIN D -> Disputes]
  BY <1>4, <1>5
<1>7. UpdateDisputes(D, S, s) \in Partial(Txs, Disputes)
  BY <1>1, <1>6, PartialIntro
<1>8. ASSUME NEW x \in DOMAIN D
      PROVE  LET d == SetVotes(D[x], v(x))
             IN  /\ d.our = D[x].our
                 /\ DOMAIN d.votes = S \cup DOMAIN D[x].votes
                 /\ \A n \in S \cup DOMAIN D[x].votes :
                       d.votes[n] = IF n \in S THEN v(x)[n] ELSE D[x].votes[n]
                 /\ Exact(D[x]) => Exact(d)
  BY <1>1, <1>3, SetVotesShape, SMTT(30)
<1> QED
  BY <1>2, <1>3, <1>7, <1>8

\* createDispute and seedDisputeVotes.
LEMMA NewDisputeShape ==
    ASSUME Facts, NEW x, NEW ours, NEW acquired, NEW P \in Partial(Peers, Held)
    PROVE  LET d == NewDispute(x, ours, P, acquired)
           IN  /\ d \in Disputes /\ Exact(d) /\ d.our = (x \in ours)
               /\ DOMAIN d.votes = {n \in DOMAIN P \cap trustedSnapshot : P[n].set \in acquired}
               /\ \A n \in DOMAIN d.votes : d.votes[n] = (x \in P[n].set)
<1> DEFINE voters == {n \in DOMAIN P \cap trustedSnapshot : P[n].set \in acquired}
           v == [n \in voters |-> x \in P[n].set]
           none == [our |-> x \in ours, votes |-> Empty, yays |-> 0, nays |-> 0]
<1>1. voters \in SUBSET Peers
  BY PartialElim
<1>2. /\ v \in Partial(Peers, BOOLEAN) /\ DOMAIN v = voters
      /\ \A n \in voters : v[n] = (x \in P[n].set)
  <2>1. v \in [voters -> BOOLEAN]
    BY SMTT(30)
  <2>2. v \in Partial(Peers, BOOLEAN)
    <3> HIDE DEF v, voters
    <3> QED
      BY <1>1, <2>1, PartialIntro
  <2> QED
    BY <2>2
<1>3. none \in Disputes /\ none.our = (x \in ours) /\ DOMAIN none.votes = {}
  BY EmptyShape, SMTT(30) DEF Disputes
<1>4. Exact(none)
  <2>1. Cast(none, TRUE) = {} /\ Cast(none, FALSE) = {}
    BY <1>3 DEF Cast
  <2>2. Cardinality({}) = 0
    BY CountEmpty
  <2>3. none.yays = 0 /\ none.nays = 0
    OBVIOUS
  <2> QED
    BY <2>1, <2>2, <2>3 DEF Exact
<1>5. NewDispute(x, ours, P, acquired) = SetVotes(none, v)
  BY DEF NewDispute
<1> HIDE DEF none, v, voters
<1>6. /\ SetVotes(none, v) \in Disputes /\ SetVotes(none, v).our = none.our
      /\ DOMAIN SetVotes(none, v).votes = voters
      /\ \A n \in voters : SetVotes(none, v).votes[n] = v[n]
      /\ Exact(SetVotes(none, v))
  <2>1. /\ SetVotes(none, v) \in Disputes /\ SetVotes(none, v).our = none.our
        /\ Exact(SetVotes(none, v))
        /\ DOMAIN SetVotes(none, v).votes = DOMAIN v \cup DOMAIN none.votes
    BY <1>2, <1>3, <1>4, SetVotesShape
  <2>2. \A n \in DOMAIN v \cup DOMAIN none.votes :
            SetVotes(none, v).votes[n] = IF n \in DOMAIN v THEN v[n] ELSE none.votes[n]
    BY <1>2, <1>3, SetVotesShape
  <2> QED
    BY <1>2, <1>3, <2>1, <2>2
<1> QED
  BY <1>2, <1>3, <1>5, <1>6 DEF voters

-----------------------------------------------------------------------------
(* The inductive invariant, as predicates on a record the engine may hold. *)

Engines ==
    [phase : Phases, mode : Modes, prev : Ledgers, building : BOOLEAN,
     proposals : Partial(Peers, Held), dead : SUBSET Peers,
     recent : [Peers -> Seq(Held)], disputes : Partial(Txs, Disputes),
     acquired : SUBSET TxSets, compares : SUBSET TxSets, ours : TxSets \cup {Nil},
     position : Positions \cup {Nil}, cache : SUBSET TxSets]

\* A position is its own peer's and not of the dead; a buffer keeps to its
\* bound; a ledger is built only in an accepted round that has its parent.
Sane(e) ==
    /\ e \in Engines
    /\ \A n \in DOMAIN e.proposals : e.proposals[n].node = n
    /\ DOMAIN e.proposals \cap e.dead = {}
    /\ \A n \in Peers : /\ Len(e.recent[n]) <= RecentPerNode
                        /\ \A i \in 1..Len(e.recent[n]) : e.recent[n][i].node = n
    /\ e.building => e.phase = "Accepted" /\ e.mode # "WrongLedger"

\* Outside P nothing is held from before its peer last lost trust.
Fresh(e, P) ==
    \A n \in Peers \ P :
        /\ n \in DOMAIN e.proposals => e.proposals[n].epoch = epoch[n]
        /\ \A i \in 1..Len(e.recent[n]) : e.recent[n][i].epoch = epoch[n]

\* Disputes exist once we have a set: tallies are exact, voters have
\* positions, and our vote is what our set says.
Counted(e) ==
    \A x \in DOMAIN e.disputes :
        /\ e.ours # Nil /\ Exact(e.disputes[x])
        /\ DOMAIN e.disputes[x].votes \subseteq DOMAIN e.proposals
        /\ e.disputes[x].our = (x \in e.ours)

\* The round still waiting for its ledger aside, positions are on the parent
\* until the ledger being built is committed.
OnParent(e) ==
    e.mode # "WrongLedger" /\ (e.phase # "Accepted" \/ e.building) =>
        /\ \A n \in DOMAIN e.proposals : e.proposals[n].prev = e.prev
        /\ e.mode = "Proposing" /\ e.position # Nil => e.position.prev = e.prev

\* What was compared with our set, or is held and proposed, differs from it
\* on disputed transactions only.
Complete(e) ==
    e.ours # Nil =>
        /\ \A s \in e.compares : SymmetricDifference(s, e.ours) \subseteq DOMAIN e.disputes
        /\ \A n \in DOMAIN e.proposals : e.proposals[n].set \in e.acquired =>
              SymmetricDifference(e.proposals[n].set, e.ours) \subseteq DOMAIN e.disputes

\* The vote of n on x is from a set we hold and from a position n signed, no
\* later than the one it has and, outside the wrong-ledger wait, on its parent.
VoteSigned(e, x, n) ==
    \E m \in Messages :
        /\ m.node = n /\ m.set \in e.acquired
        /\ m.pos <= e.proposals[n].pos
        /\ e.mode # "WrongLedger" => m.prev = e.proposals[n].prev
        /\ e.disputes[x].votes[n] = (x \in m.set)

Voted(e) ==
    \A x \in DOMAIN e.disputes : \A n \in DOMAIN e.disputes[x].votes : VoteSigned(e, x, n)

\* The validator lists never change.
Steady == \A S, T \in TrustChanges : S = T

Sound(e) ==
    /\ Sane(e) /\ Counted(e) /\ OnParent(e) /\ Voted(e)
    /\ Steady => Complete(e)

LEMMA Fields ==
    ASSUME Facts, NEW e \in Engines
    PROVE  /\ e.phase \in Phases /\ e.mode \in Modes /\ e.prev \in Ledgers
           /\ e.building \in BOOLEAN /\ e.dead \in SUBSET Peers
           /\ e.proposals \in Partial(Peers, Held)
           /\ DOMAIN e.proposals \subseteq Peers
           /\ \A n \in DOMAIN e.proposals : e.proposals[n] \in Held
           /\ e.recent \in [Peers -> Seq(Held)]
           /\ e.disputes \in Partial(Txs, Disputes)
           /\ DOMAIN e.disputes \subseteq Txs
           /\ \A x \in DOMAIN e.disputes :
                 /\ e.disputes[x] \in Disputes
                 /\ DOMAIN e.disputes[x].votes \subseteq Peers
           /\ e.acquired \in SUBSET TxSets /\ e.compares \in SUBSET TxSets
           /\ e.ours \in TxSets \cup {Nil} /\ e.position \in Positions \cup {Nil}
           /\ e.cache \in SUBSET TxSets
<1>1. /\ e.proposals \in Partial(Peers, Held) /\ e.disputes \in Partial(Txs, Disputes)
  BY DEF Engines
<1>2. /\ DOMAIN e.proposals \subseteq Peers
      /\ \A n \in DOMAIN e.proposals : e.proposals[n] \in Held
      /\ DOMAIN e.disputes \subseteq Txs
      /\ \A x \in DOMAIN e.disputes : e.disputes[x] \in Disputes
  BY <1>1, PartialElim
<1>3. \A x \in DOMAIN e.disputes : DOMAIN e.disputes[x].votes \subseteq Peers
  BY <1>2, VoteSets
<1> QED
  BY <1>1, <1>2, <1>3 DEF Engines

\* A vote that stays, with what it was cast on.
LEMMA SignedKept ==
    ASSUME NEW e, NEW r, NEW x, NEW n, VoteSigned(e, x, n),
           r.proposals[n] = e.proposals[n], e.acquired \subseteq r.acquired,
           e.mode = "WrongLedger" => r.mode = "WrongLedger",
           r.disputes[x].votes[n] = e.disputes[x].votes[n]
    PROVE  VoteSigned(r, x, n)
BY DEF VoteSigned

\* A vote cast from the position its peer now has.
LEMMA SignedNow ==
    ASSUME NEW r, NEW x, NEW n, r.proposals[n] \in Held, r.proposals[n].node = n,
           r.proposals[n].set \in r.acquired,
           r.disputes[x].votes[n] = (x \in r.proposals[n].set)
    PROVE  VoteSigned(r, x, n)
<1>1. PICK m \in Messages : /\ r.proposals[n].node = m.node /\ r.proposals[n].prev = m.prev
                             /\ r.proposals[n].pos = m.pos /\ r.proposals[n].set = m.set
  BY DEF Held
<1>2. m.pos \in 0..SeqLeave
  BY MessagesAssumption
<1>3. m.pos <= r.proposals[n].pos
  BY <1>1, <1>2, SMTT(30)
<1> QED
  BY <1>1, <1>3 DEF VoteSigned

\* The votes of a record that keeps them, their positions and their sets.
LEMMA VotedKept ==
    ASSUME NEW e, NEW r, Voted(e), r.disputes = e.disputes, r.proposals = e.proposals,
           e.acquired \subseteq r.acquired, e.mode = "WrongLedger" => r.mode = "WrongLedger"
    PROVE  Voted(r)
BY SignedKept DEF Voted

-----------------------------------------------------------------------------
(* Removals: purgeNode and the stale pruning. *)

\* What p and e have in common when only positions, buffers and votes went.
Alike(p, e) ==
    /\ p \in Engines
    /\ p.phase = e.phase /\ p.mode = e.mode /\ p.prev = e.prev /\ p.building = e.building
    /\ p.dead = e.dead /\ p.acquired = e.acquired /\ p.compares = e.compares
    /\ p.ours = e.ours /\ p.position = e.position /\ p.cache = e.cache

\* The record p is e without the positions and votes of S.
Without(p, e, S) ==
    /\ Alike(p, e)
    /\ DOMAIN p.proposals = DOMAIN e.proposals \ S
    /\ \A n \in DOMAIN p.proposals : p.proposals[n] = e.proposals[n]
    /\ DOMAIN p.disputes = DOMAIN e.disputes
    /\ \A x \in DOMAIN e.disputes :
          /\ p.disputes[x].our = e.disputes[x].our
          /\ DOMAIN p.disputes[x].votes = DOMAIN e.disputes[x].votes \ S
          /\ \A n \in DOMAIN e.disputes[x].votes \ S :
                p.disputes[x].votes[n] = e.disputes[x].votes[n]
          /\ Exact(e.disputes[x]) => Exact(p.disputes[x])

Others(f, S) == Keep(f, Peers \ S)

LEMMA KeepOthers ==
    ASSUME NEW f \in Partial(Peers, Held), NEW S
    PROVE  /\ Others(f, S) \in Partial(Peers, Held)
           /\ DOMAIN Others(f, S) = DOMAIN f \ S
           /\ \A n \in DOMAIN Others(f, S) : Others(f, S)[n] = f[n]
<1> DEFINE g == Others(f, S)
<1>1. DOMAIN f \cap (Peers \ S) = DOMAIN f \ S /\ DOMAIN f \ S \in SUBSET Peers
  BY PartialElim
<1>2. g = [n \in DOMAIN f \cap (Peers \ S) |-> f[n]]
  BY DEF Keep, Others
<1> HIDE DEF g
<1>3. g = [n \in DOMAIN f \ S |-> f[n]]
  BY <1>1, <1>2
<1>4. g \in [DOMAIN f \ S -> Held]
  <2>1. \A n \in DOMAIN f : f[n] \in Held
    BY PartialElim
  <2> QED
    BY <1>3, <2>1
<1>5. g \in Partial(Peers, Held)
  BY <1>1, <1>4, PartialIntro
<1> QED
  BY <1>3, <1>5 DEF g

LEMMA PurgeShape ==
    ASSUME Facts, NEW e \in Engines, NEW S
    PROVE  /\ Without(PurgeNodes(e, S), e, S)
           /\ \A n \in Peers : PurgeNodes(e, S).recent[n] = IF n \in S THEN <<>> ELSE e.recent[n]
<1> DEFINE P == Others(e.proposals, S)
           R == [n \in Peers |-> IF n \in S THEN <<>> ELSE e.recent[n]]
           D == UnVote(e.disputes, S)
           p == PurgeNodes(e, S)
<1>1. p = [e EXCEPT !.proposals = P, !.recent = R, !.disputes = D]
  BY DEF PurgeNodes, Others
<1>2. /\ P \in Partial(Peers, Held) /\ DOMAIN P = DOMAIN e.proposals \ S
      /\ \A n \in DOMAIN P : P[n] = e.proposals[n]
  BY Fields, KeepOthers
<1>3. R \in [Peers -> Seq(Held)]
  BY Fields, SMTT(30)
<1>4. /\ D \in Partial(Txs, Disputes) /\ DOMAIN D = DOMAIN e.disputes
      /\ \A x \in DOMAIN e.disputes :
            /\ D[x].our = e.disputes[x].our
            /\ DOMAIN D[x].votes = DOMAIN e.disputes[x].votes \ S
            /\ \A n \in DOMAIN e.disputes[x].votes \ S : D[x].votes[n] = e.disputes[x].votes[n]
            /\ Exact(e.disputes[x]) => Exact(D[x])
  BY Fields, UnVoteMap
<1>5. \A n \in Peers : R[n] = IF n \in S THEN <<>> ELSE e.recent[n]
  OBVIOUS
<1> HIDE DEF P, R, D, p
<1>6. Alike(p, e) /\ p.proposals = P /\ p.recent = R /\ p.disputes = D
  BY <1>1, <1>2, <1>3, <1>4 DEF Engines, Alike
<1> QED
  BY <1>2, <1>4, <1>5, <1>6 DEF Without, p

LEMMA StaleShape ==
    ASSUME Facts, NEW e \in Engines, NEW S
    PROVE  /\ Without(PruneStaleProposals(e, S), e, S)
           /\ PruneStaleProposals(e, S).recent = e.recent
<1> DEFINE P == Others(e.proposals, S)
           D == UnVote(e.disputes, S)
           p == PruneStaleProposals(e, S)
<1>1. p = [e EXCEPT !.proposals = P, !.disputes = D]
  BY DEF PruneStaleProposals, Others
<1>2. /\ P \in Partial(Peers, Held) /\ DOMAIN P = DOMAIN e.proposals \ S
      /\ \A n \in DOMAIN P : P[n] = e.proposals[n]
  BY Fields, KeepOthers
<1>3. /\ D \in Partial(Txs, Disputes) /\ DOMAIN D = DOMAIN e.disputes
      /\ \A x \in DOMAIN e.disputes :
            /\ D[x].our = e.disputes[x].our
            /\ DOMAIN D[x].votes = DOMAIN e.disputes[x].votes \ S
            /\ \A n \in DOMAIN e.disputes[x].votes \ S : D[x].votes[n] = e.disputes[x].votes[n]
            /\ Exact(e.disputes[x]) => Exact(D[x])
  BY Fields, UnVoteMap
<1> HIDE DEF P, D, p
<1>4. Alike(p, e) /\ p.proposals = P /\ p.recent = e.recent /\ p.disputes = D
  BY <1>1, <1>2, <1>3 DEF Engines, Alike
<1> QED
  BY <1>2, <1>3, <1>4 DEF Without, p

Trimmed(p, e) == \A n \in Peers : p.recent[n] = <<>> \/ p.recent[n] = e.recent[n]

LEMMA WithoutSane ==
    ASSUME NEW p, NEW e, NEW S, Sane(e), Without(p, e, S), Trimmed(p, e)
    PROVE  Sane(p)
<1>1. p \in Engines /\ (p.building => p.phase = "Accepted" /\ p.mode # "WrongLedger")
  BY DEF Sane, Without, Alike
<1>2. /\ \A n \in DOMAIN p.proposals : p.proposals[n].node = n
      /\ DOMAIN p.proposals \cap p.dead = {}
  BY DEF Sane, Without, Alike
<1>3. ASSUME NEW n \in Peers
      PROVE  /\ Len(p.recent[n]) <= RecentPerNode
             /\ \A i \in 1..Len(p.recent[n]) : p.recent[n][i].node = n
  <2>1. CASE p.recent[n] = <<>>
    BY <2>1, MessagesAssumption, SMTT(30)
  <2>2. CASE p.recent[n] = e.recent[n]
    BY <2>2 DEF Sane
  <2> QED
    BY <2>1, <2>2 DEF Trimmed
<1> QED
  BY <1>1, <1>2, <1>3 DEF Sane

LEMMA WithoutSound ==
    ASSUME NEW p, NEW e, NEW S, Sound(e), Without(p, e, S), Trimmed(p, e)
    PROVE  Sound(p)
<1>1. Sane(p)
  BY WithoutSane DEF Sound
<1>2. Counted(p)
  BY SMTT(30) DEF Sound, Counted, Without, Alike
<1>3. OnParent(e) => OnParent(p)
  BY DEF OnParent, Without, Alike
<1>4. Complete(e) => Complete(p)
  BY DEF Complete, Without, Alike
<1>5. Voted(p)
  <2> SUFFICES ASSUME NEW x \in DOMAIN p.disputes, NEW n \in DOMAIN p.disputes[x].votes
               PROVE  VoteSigned(p, x, n)
    BY DEF Voted
  <2>1. x \in DOMAIN e.disputes /\ n \in DOMAIN e.disputes[x].votes \ S
    BY DEF Without
  <2>2. n \in DOMAIN p.proposals
    BY <2>1, <1>2 DEF Counted, Without
  <2>3. p.proposals[n] = e.proposals[n] /\ p.disputes[x].votes[n] = e.disputes[x].votes[n]
    BY <2>1, <2>2 DEF Without
  <2>4. VoteSigned(e, x, n)
    BY <2>1 DEF Sound, Voted
  <2>5. e.acquired \subseteq p.acquired /\ p.mode = e.mode
    BY DEF Without, Alike
  <2> QED
    BY <2>3, <2>4, <2>5, SignedKept
<1> QED
  BY <1>1, <1>2, <1>3, <1>4, <1>5 DEF Sound

\* Purging S makes what is left fresh outside P \ S.
LEMMA PurgeFresh ==
    ASSUME Facts, NEW e \in Engines, NEW S, NEW P, Fresh(e, P)
    PROVE  Fresh(PurgeNodes(e, S), P \ S)
<1> DEFINE p == PurgeNodes(e, S)
<1>1. /\ Without(p, e, S)
      /\ \A n \in Peers : p.recent[n] = IF n \in S THEN <<>> ELSE e.recent[n]
  BY PurgeShape, SMTT(30)
<1> HIDE DEF p
<1> SUFFICES ASSUME NEW n \in Peers \ (P \ S)
             PROVE  /\ n \in DOMAIN p.proposals => p.proposals[n].epoch = epoch[n]
                    /\ \A i \in 1..Len(p.recent[n]) : p.recent[n][i].epoch = epoch[n]
  BY DEF Fresh, p
<1>2. CASE n \in S
  <2>1. n \notin DOMAIN p.proposals /\ p.recent[n] = <<>>
    BY <1>1, <1>2 DEF Without
  <2> QED
    BY <2>1, SMTT(30)
<1>3. CASE n \notin S
  <2>1. p.recent[n] = e.recent[n] /\ n \in Peers \ P
    BY <1>1, <1>3
  <2>2. n \in DOMAIN p.proposals => n \in DOMAIN e.proposals /\ p.proposals[n] = e.proposals[n]
    BY <1>1 DEF Without
  <2> QED
    BY <2>1, <2>2 DEF Fresh
<1> QED
  BY <1>2, <1>3

LEMMA FreshGrows ==
    ASSUME NEW e, NEW P, Fresh(e, {})
    PROVE  Fresh(e, P)
BY DEF Fresh

LEMMA PurgeSane ==
    ASSUME Facts, NEW e, NEW S, Sane(e)
    PROVE  Sane(PurgeNodes(e, S))
<1>1. e \in Engines
  BY DEF Sane
<1>2. Without(PurgeNodes(e, S), e, S) /\ Trimmed(PurgeNodes(e, S), e)
  BY <1>1, PurgeShape, SMTT(30) DEF Trimmed
<1> QED
  BY <1>2, WithoutSane

LEMMA PurgeSound ==
    ASSUME Facts, NEW e, NEW S, Sound(e)
    PROVE  Sound(PurgeNodes(e, S))
<1>1. e \in Engines
  BY DEF Sound, Sane
<1>2. Without(PurgeNodes(e, S), e, S) /\ Trimmed(PurgeNodes(e, S), e)
  BY <1>1, PurgeShape, SMTT(30) DEF Trimmed
<1> QED
  BY <1>2, WithoutSound

\* The round record of a purge is the round record before it.
LEMMA PurgeAlike ==
    ASSUME Facts, NEW e \in Engines, NEW S
    PROVE  Alike(PurgeNodes(e, S), e)
BY PurgeShape DEF Without

\* The positions of p are positions of e.
Fewer(p, e) ==
    /\ DOMAIN p.proposals \subseteq DOMAIN e.proposals
    /\ \A n \in DOMAIN p.proposals : p.proposals[n] = e.proposals[n]

LEMMA PurgeFewer ==
    ASSUME Facts, NEW e \in Engines, NEW S
    PROVE  /\ Fewer(PurgeNodes(e, S), e)
           /\ DOMAIN PurgeNodes(e, S).proposals \cap S = {}
           /\ DOMAIN PurgeNodes(e, S).disputes = DOMAIN e.disputes
BY PurgeShape, SMTT(30) DEF Without, Fewer

LEMMA PendingPurged ==
    ASSUME Facts, NEW e, Sane(e), Fresh(e, pendingTrustPurge)
    PROVE  /\ Sane(PurgePendingTrust(e)) /\ Fresh(PurgePendingTrust(e), {})
           /\ Alike(PurgePendingTrust(e), e) /\ Fewer(PurgePendingTrust(e), e)
           /\ Sound(e) => Sound(PurgePendingTrust(e))
<1>1. e \in Engines
  BY DEF Sane
<1>2. Fresh(PurgePendingTrust(e), pendingTrustPurge \ pendingTrustPurge)
  BY <1>1, PurgeFresh DEF PurgePendingTrust
<1>3. pendingTrustPurge \ pendingTrustPurge = {}
  OBVIOUS
<1>4. Fresh(PurgePendingTrust(e), {})
  BY <1>2, <1>3
<1> QED
  BY <1>1, <1>4, PurgeSane, PurgeSound, PurgeAlike, PurgeFewer DEF PurgePendingTrust

LEMMA UntrustedPruned ==
    ASSUME Facts, NEW e, Sane(e), Fresh(e, {})
    PROVE  /\ Sane(PruneUntrustedProposals(e)) /\ Fresh(PruneUntrustedProposals(e), {})
           /\ Alike(PruneUntrustedProposals(e), e) /\ Fewer(PruneUntrustedProposals(e), e)
           /\ DOMAIN PruneUntrustedProposals(e).proposals \subseteq trustedSnapshot
           /\ DOMAIN PruneUntrustedProposals(e).disputes = DOMAIN e.disputes
           /\ Sound(e) => Sound(PruneUntrustedProposals(e))
<1> DEFINE p == PurgePendingTrust(e)
           U == Peers \ trustedSnapshot
           q == PruneUntrustedProposals(e)
<1>1. /\ Sane(p) /\ Fresh(p, {}) /\ Alike(p, e) /\ Fewer(p, e) /\ (Sound(e) => Sound(p))
      /\ DOMAIN p.disputes = DOMAIN e.disputes
  BY FreshGrows, PendingPurged, PurgeFewer DEF PurgePendingTrust, Sane
<1>2. q = PurgeNodes(p, U)
  BY DEF PruneUntrustedProposals
<1> HIDE DEF p, q, U
<1>3. p \in Engines
  BY <1>1 DEF Sane
<1>4. Fresh(q, {} \ U) /\ {} \ U = {}
  BY <1>1, <1>2, <1>3, PurgeFresh
<1>5. Sane(q) /\ Alike(q, p) /\ (Sound(p) => Sound(q)) /\ Fresh(q, {})
  BY <1>1, <1>2, <1>3, <1>4, PurgeSane, PurgeSound, PurgeAlike
<1>6. Alike(q, e)
  BY <1>1, <1>5 DEF Alike
<1>7. /\ Fewer(q, p) /\ DOMAIN q.proposals \cap U = {} /\ DOMAIN q.disputes = DOMAIN p.disputes
  BY <1>2, <1>3, PurgeFewer
<1>8. Fewer(q, e)
  BY <1>1, <1>7 DEF Fewer
<1>9. DOMAIN q.proposals \subseteq Peers
  BY <1>5, Fields DEF Sane
<1>10. DOMAIN q.proposals \subseteq trustedSnapshot
  BY <1>7, <1>9 DEF U
<1> QED
  BY <1>1, <1>5, <1>6, <1>7, <1>8, <1>10 DEF q

-----------------------------------------------------------------------------
(* Playback: the buffered positions on a ledger become current. *)

\* The position store keeps is one of the buffered ones on l.
LEMMA LatestShape ==
    ASSUME Facts, NEW e \in Engines, NEW n \in Peers, NEW l, Buffered(e, n, l) # {}
    PROVE  \E i \in 1..Len(e.recent[n]) :
              LatestBuffered(e, n, l) = e.recent[n][i] /\ e.recent[n][i].prev = l
<1> DEFINE b == e.recent[n]
           B == Buffered(e, n, l)
           best(i) == \A j \in B : \/ b[j].pos < b[i].pos
                                   \/ b[j].pos = b[i].pos /\ i <= j
<1>1. b \in Seq(Held)
  BY Fields
<1>2. B \subseteq 1..Len(b) /\ \A i \in B : b[i].prev = l
  BY <1>1, SMTT(30) DEF Buffered
<1>3. \A i \in B : b[i] \in Held /\ b[i].pos \in 0..SeqLeave /\ i \in Nat
  <2> HIDE DEF b, B
  <2>1. Len(b) \in Nat /\ \A i \in 1..Len(b) : b[i] \in Held
    BY <1>1, SMTT(30)
  <2> QED
    BY <1>2, <2>1, SMTT(30) DEF Held, Entries
<1>4. \E i \in B : best(i)
  <2> HIDE DEF b, B
  <2> DEFINE T == {b[i].pos : i \in B}
  <2>1. T \in SUBSET (0..SeqLeave) /\ T # {}
    BY <1>3 DEF B
  <2>2. PICK t \in T : \A u \in T : u <= t
    <3> HIDE DEF T
    <3>1. SeqLeave \in Nat
      BY MessagesAssumption
    <3> QED
      BY <2>1, <3>1, GreatestOf
  <2> DEFINE F == {i \in B : b[i].pos = t}
  <2>3. F \in SUBSET Nat /\ F # {}
    BY <1>3
  <2>4. PICK i \in F : \A j \in F : i <= j
    <3> HIDE DEF F, T
    <3> QED
      BY <2>3, LeastOf
  <2>5. ASSUME NEW j \in B
        PROVE  b[j].pos < b[i].pos \/ (b[j].pos = b[i].pos /\ i <= j)
    <3>1. b[j].pos \in T /\ b[i].pos = t
      OBVIOUS
    <3>2. b[j].pos <= t /\ b[j].pos \in Int /\ t \in Int
      BY <1>3, <2>2, <3>1, SMTT(30)
    <3>3. b[j].pos = t => i <= j
      BY <2>4
    <3> HIDE DEF F, T
    <3> QED
      BY <3>1, <3>2, <3>3, SMTT(30)
  <2> QED
    BY <2>5
<1>5. LatestBuffered(e, n, l) = b[CHOOSE i \in B : best(i)]
  BY DEF LatestBuffered
<1>6. PICK k \in B : LatestBuffered(e, n, l) = b[k]
  <2> HIDE DEF b, B, best
  <2> QED
    BY <1>4, <1>5
<1> QED
  BY <1>2, <1>6

\* Replay: positions on l of trusted peers outside the dead, none stale; the
\* rest of the round as it was.
LEMMA ReplayShape ==
    ASSUME Facts, NEW e0, Sane(e0), Fresh(e0, {}), NEW l \in Ledgers, DOMAIN e0.disputes = {}
    PROVE  LET r == Replay(e0, l)
           IN  /\ Sane(r) /\ Fresh(r, {})
               /\ r.phase = e0.phase /\ r.mode = e0.mode /\ r.prev = e0.prev
               /\ r.building = e0.building /\ r.acquired = e0.acquired
               /\ r.compares = e0.compares /\ r.ours = e0.ours
               /\ r.position = e0.position /\ r.cache = e0.cache
               /\ DOMAIN r.disputes = {}
               /\ DOMAIN r.proposals \subseteq trustedSnapshot
               /\ \A n \in DOMAIN r.proposals : r.proposals[n].prev = l
<1> DEFINE U == Peers \ trustedSnapshot
           e == PurgeNodes(e0, U)
           dead == e.dead \cup {n \in Peers : BowedOut(e, n, l)}
           back == {m \in Peers \ dead : Buffered(e, m, l) # {}}
           P == [n \in back |-> LatestBuffered(e, n, l)]
           D == UnVote(e.disputes, dead)
           r == Replay(e0, l)
<1>1. r = [e EXCEPT !.dead = dead, !.disputes = D, !.proposals = P]
  BY DEF Replay
<1>2. e0 \in Engines
  BY DEF Sane
<1>3. /\ Without(e, e0, U)
      /\ \A n \in Peers : e.recent[n] = IF n \in U THEN <<>> ELSE e0.recent[n]
  BY <1>2, PurgeShape, SMTT(30)
<1>4. Sane(e) /\ Fresh(e, {})
  <2>1. Fresh(e, {} \ U) /\ {} \ U = {}
    BY <1>2, PurgeFresh
  <2> QED
    BY <2>1, PurgeSane
<1>5. Alike(e, e0) /\ e \in Engines /\ DOMAIN e.disputes = {}
  BY <1>3, <1>4 DEF Sane, Without
<1> HIDE DEF e
<1>6. dead \in SUBSET Peers /\ back \subseteq Peers /\ back \cap dead = {}
  BY <1>5, Fields
<1>7. ASSUME NEW n \in back
      PROVE  /\ P[n] \in Held /\ P[n].node = n /\ P[n].prev = l
             /\ P[n].epoch = epoch[n] /\ n \in trustedSnapshot
  <2>1. PICK i \in 1..Len(e.recent[n]) :
              LatestBuffered(e, n, l) = e.recent[n][i] /\ e.recent[n][i].prev = l
    BY <1>5, <1>6, LatestShape, SMTT(30)
  <2>2. P[n] = e.recent[n][i] /\ n \in Peers
    BY <1>6, <2>1
  <2>3. e.recent[n] \in Seq(Held)
    BY <1>5, <2>2, Fields
  <2>4. e.recent[n][i] \in Held
    BY <2>3, SMTT(30)
  <2>5. e.recent[n][i].node = n /\ e.recent[n][i].epoch = epoch[n]
    BY <1>4, <2>2 DEF Sane, Fresh
  <2>6. n \in trustedSnapshot
    <3>1. SUFFICES ASSUME n \in U PROVE FALSE
      BY <2>2
    <3>2. e.recent[n] = <<>>
      BY <1>3, <2>2, <3>1
    <3> QED
      BY <3>2, SMTT(30)
  <2> QED
    BY <2>1, <2>2, <2>4, <2>5, <2>6
<1>8. P \in [back -> Held] /\ DOMAIN P = back
  <2>1. \A n \in back : P[n] \in Held
    BY <1>7
  <2>2. DOMAIN P = back /\ P = [n \in back |-> P[n]]
    OBVIOUS
  <2> HIDE DEF P, back
  <2> QED
    BY <2>1, <2>2
<1>9. P \in Partial(Peers, Held)
  <2> HIDE DEF P, back
  <2> QED
    BY <1>6, <1>8, PartialIntro
<1>10. D \in Partial(Txs, Disputes) /\ DOMAIN D = {}
  BY <1>5, Fields, UnVoteMap
<1> HIDE DEF P, D, dead, back, r, U
<1>11. /\ r \in Engines /\ r.proposals = P /\ r.disputes = D /\ r.dead = dead
       /\ r.recent = e.recent /\ r.phase = e.phase /\ r.mode = e.mode
       /\ r.prev = e.prev /\ r.building = e.building /\ r.acquired = e.acquired
       /\ r.compares = e.compares /\ r.ours = e.ours /\ r.position = e.position
       /\ r.cache = e.cache
  BY <1>1, <1>5, <1>6, <1>9, <1>10 DEF Engines
<1>12. Sane(r)
  BY <1>4, <1>6, <1>7, <1>8, <1>11, SMTT(30) DEF Sane
<1>13. Fresh(r, {})
  BY <1>4, <1>7, <1>8, <1>11, SMTT(30) DEF Fresh
<1> QED
  BY <1>5, <1>7, <1>8, <1>10, <1>11, <1>12, <1>13 DEF Alike, r

-----------------------------------------------------------------------------
(* Closing our ledger. *)

\* A record that has just taken a position: closeLedger before its loop.
Positioned(c, e) ==
    /\ Sane(c) /\ Fresh(c, {}) /\ Fewer(c, e)
    /\ DOMAIN c.proposals \subseteq trustedSnapshot
    /\ c.phase = "Establish" /\ c.mode = e.mode /\ c.prev = e.prev
    /\ ~c.building
    /\ c.ours \in TxSets
    /\ c.position = e.position \/ (c.position \in Positions /\ c.position.prev = e.prev)

LEMMA TakeShape ==
    ASSUME Facts, NEW e, Sane(e), Fresh(e, {}), ~e.building, NEW s \in OurSets, NEW sign
    PROVE  Positioned(TakePosition(e, s, sign), e)
<1> DEFINE p == PurgePendingTrust(e)
           pos == IF e.mode = "Proposing" /\ sign THEN Position(e, s) ELSE p.position
           q == [p EXCEPT !.ours = s, !.cache = p.cache \cup {s},
                          !.acquired = p.acquired \cup {s}, !.position = pos,
                          !.phase = "Establish"]
           c == TakePosition(e, s, sign)
<1>1. Sane(p) /\ Fresh(p, {}) /\ Alike(p, e) /\ Fewer(p, e)
  BY FreshGrows, PendingPurged
<1>2. c = PruneUntrustedProposals(q)
  BY DEF TakePosition
<1>3. s \in TxSets
  BY MessagesAssumption DEF TxSets
<1> HIDE DEF p
<1>4. p \in Engines /\ e \in Engines
  BY <1>1 DEF Sane
<1>5. /\ pos \in Positions \cup {Nil}
      /\ pos = e.position \/ (pos \in Positions /\ pos.prev = e.prev)
  BY <1>1, <1>3, <1>4, Fields DEF Position, Positions, Alike
<1> HIDE DEF pos
<1>6. /\ q \in Engines /\ q.ours = s /\ q.cache = e.cache \cup {s}
      /\ q.acquired = e.acquired \cup {s} /\ q.position = pos /\ q.phase = "Establish"
      /\ q.mode = e.mode /\ q.prev = e.prev /\ q.building = e.building
      /\ q.proposals = p.proposals /\ q.recent = p.recent /\ q.dead = p.dead
  <2>1. /\ p.cache \cup {s} \in SUBSET TxSets /\ p.acquired \cup {s} \in SUBSET TxSets
        /\ "Establish" \in Phases /\ s \in TxSets \cup {Nil}
    BY <1>3, <1>4, Fields DEF Phases
  <2> QED
    BY <1>1, <1>4, <1>5, <2>1 DEF Engines, Alike
<1> HIDE DEF q, c
<1>7. Sane(q) /\ Fresh(q, {})
  BY <1>1, <1>6, SMTT(30) DEF Sane, Fresh
<1>8. Sane(c) /\ Fresh(c, {}) /\ Alike(c, q) /\ Fewer(c, q) /\ DOMAIN c.proposals \subseteq trustedSnapshot
  BY <1>2, <1>7, UntrustedPruned
<1>9. Fewer(c, e)
  BY <1>1, <1>6, <1>8, SMTT(30) DEF Fewer
<1>10. c.ours = s
  BY <1>6, <1>8 DEF Alike
<1>11. c.phase = "Establish" /\ c.mode = e.mode /\ c.prev = e.prev /\ ~c.building /\ c.position = pos
  BY <1>6, <1>8 DEF Alike
<1> QED
  BY <1>3, <1>5, <1>8, <1>9, <1>10, <1>11 DEF Positioned, c

\* What a round starts closing with.
Opening(e) == Sane(e) /\ Fresh(e, {}) /\ ~e.building /\ OnParent(e)

\* A record a handler may leave, or one that is not building a ledger.
Good(r) == Sound(r) /\ Fresh(r, {})
Idle(r) == Good(r) /\ ~r.building

LEMMA SeedSound ==
    ASSUME Facts, NEW e, Opening(e), e.phase # "Accepted",
           NEW c, Positioned(c, e), NEW order
    PROVE  Idle(SeedDisputes(c, order))
<1> DEFINE held(n) == c.proposals[n].set \in c.acquired \cup c.cache
           holders == {n \in DOMAIN c.proposals : held(n)}
           by(i) == c.acquired \cup
                      {c.proposals[n].set : n \in {m \in holders : order[m] <= i}}
           differ(x) == {n \in holders :
                           x \in SymmetricDifference(c.proposals[n].set, c.ours)}
           turn(x) == CHOOSE i \in {order[n] : n \in differ(x)} :
                           \A n \in differ(x) : i <= order[n]
           sets == {c.proposals[n].set : n \in holders}
           xs == {y \in Txs : differ(y) # {}}
           D == [x \in xs |-> NewDispute(x, c.ours, c.proposals, by(turn(x)))]
           r == SeedDisputes(c, order)
<1>1. r = [c EXCEPT !.acquired = c.acquired \cup sets, !.compares = sets, !.disputes = D]
  BY DEF SeedDisputes
<1>2. c \in Engines /\ Sane(c)
  BY DEF Positioned, Sane
<1>3. sets \in SUBSET TxSets /\ c.acquired \cup sets \in SUBSET TxSets
  <2>1. c.acquired \in SUBSET TxSets /\ \A n \in DOMAIN c.proposals : c.proposals[n] \in Entries
    BY <1>2, Fields DEF Held
  <2>2. \A n \in DOMAIN c.proposals : c.proposals[n].set \in TxSets
    BY <2>1, SMTT(30) DEF Entries
  <2>3. sets \in SUBSET TxSets
    BY <2>2
  <2> QED
    BY <2>1, <2>3
<1>4. DOMAIN D = xs /\ xs \subseteq Txs
  OBVIOUS
<1>5. \A x \in xs : /\ D[x] \in Disputes /\ Exact(D[x]) /\ D[x].our = (x \in c.ours)
                    /\ DOMAIN D[x].votes \subseteq DOMAIN c.proposals
                    /\ \A n \in DOMAIN D[x].votes :
                          /\ D[x].votes[n] = (x \in c.proposals[n].set)
                          /\ c.proposals[n].set \in c.acquired \cup sets
  <2> SUFFICES ASSUME NEW x \in xs
               PROVE  /\ D[x] \in Disputes /\ Exact(D[x]) /\ D[x].our = (x \in c.ours)
                      /\ DOMAIN D[x].votes \subseteq DOMAIN c.proposals
                      /\ \A n \in DOMAIN D[x].votes :
                            /\ D[x].votes[n] = (x \in c.proposals[n].set)
                            /\ c.proposals[n].set \in c.acquired \cup sets
    OBVIOUS
  <2> DEFINE a == by(turn(x))
  <2>1. D[x] = NewDispute(x, c.ours, c.proposals, a)
    OBVIOUS
  <2>2. \A i : by(i) \subseteq c.acquired \cup sets
    OBVIOUS
  <2> HIDE DEF by
  <2>3. a \subseteq c.acquired \cup sets
    BY <2>2
  <2> HIDE DEF a, D, sets
  <2>4. c.proposals \in Partial(Peers, Held)
    BY <1>2, Fields
  <2> QED
    BY <2>1, <2>3, <2>4, NewDisputeShape, SMTT(30)
<1> HIDE DEF by, turn
<1>6. D \in Partial(Txs, Disputes)
  <2>1. D \in [xs -> Disputes]
    BY <1>5
  <2> HIDE DEF D, xs
  <2> QED
    BY <1>4, <2>1, PartialIntro
<1> HIDE DEF D, r
<1>7. /\ r \in Engines /\ r.acquired = c.acquired \cup sets /\ r.compares = sets
      /\ r.disputes = D /\ r.phase = c.phase /\ r.mode = c.mode /\ r.prev = c.prev
      /\ r.building = c.building /\ r.proposals = c.proposals /\ r.dead = c.dead
      /\ r.recent = c.recent /\ r.ours = c.ours /\ r.position = c.position
      /\ r.cache = c.cache
  <2> HIDE DEF sets
  <2> QED
    BY <1>1, <1>2, <1>3, <1>6 DEF Engines
<1>8. Sane(r) /\ Fresh(r, {})
  BY <1>2, <1>7, SMTT(30) DEF Sane, Fresh, Positioned
<1>9. Counted(r)
  <2>1. c.ours # Nil
    BY NilAssumption DEF Positioned, TxSets
  <2> HIDE DEF xs
  <2> QED
    BY <1>4, <1>5, <1>7, <2>1 DEF Counted
<1>10. OnParent(r)
  BY <1>7, SMTT(30) DEF OnParent, Opening, Positioned, Fewer
<1>11. Complete(r)
  <2>1. \A n \in holders : SymmetricDifference(c.proposals[n].set, c.ours) \subseteq xs
    <3> SUFFICES ASSUME NEW n \in holders,
                        NEW x \in SymmetricDifference(c.proposals[n].set, c.ours)
                 PROVE  x \in xs
      OBVIOUS
    <3>1. n \in differ(x)
      OBVIOUS
    <3>2. c.proposals[n].set \in TxSets /\ c.ours \in TxSets
      BY <1>2, Fields DEF Positioned, Held, Entries
    <3>3. x \in Txs
      BY <3>2 DEF SymmetricDifference, TxSets
    <3> QED
      BY <3>1, <3>3
  <2>2. \A n \in DOMAIN c.proposals : c.proposals[n].set \in c.acquired \cup sets => n \in holders
    <3> SUFFICES ASSUME NEW n \in DOMAIN c.proposals,
                        c.proposals[n].set \in c.acquired \cup sets
                 PROVE  held(n)
      OBVIOUS
    <3>1. \A m \in holders : c.proposals[m].set \in c.acquired \cup c.cache
      OBVIOUS
    <3> QED
      BY <3>1
  <2> HIDE DEF holders, xs
  <2> QED
    BY <1>4, <1>7, <2>1, <2>2 DEF Complete
<1>12. Voted(r)
  <2> SUFFICES ASSUME NEW x \in DOMAIN r.disputes, NEW n \in DOMAIN r.disputes[x].votes
               PROVE  VoteSigned(r, x, n)
    BY DEF Voted
  <2> HIDE DEF xs, sets
  <2>1. /\ n \in DOMAIN c.proposals /\ D[x].votes[n] = (x \in c.proposals[n].set)
        /\ c.proposals[n].set \in c.acquired \cup sets
    BY <1>4, <1>5, <1>7
  <2>2. c.proposals[n] \in Held /\ c.proposals[n].node = n
    BY <1>2, <2>1, Fields DEF Sane
  <2> QED
    BY <1>7, <2>1, <2>2, SignedNow
<1>13. ~r.building
  BY <1>7 DEF Positioned
<1> QED
  BY <1>8, <1>9, <1>10, <1>11, <1>12, <1>13 DEF Sound, Good, Idle, r

LEMMA CloseSound ==
    ASSUME Facts, NEW e, Opening(e), e.phase # "Accepted", NEW r \in CloseLedger(e)
    PROVE  Idle(r)
<1>1. PICK c \in {TakePosition(e, s, sign) : s \in OurSets, sign \in Signs} :
          r \in {SeedDisputes(c, order) : order \in Orders(DOMAIN c.proposals)}
  BY SMTT(30) DEF CloseLedger
<1>2. PICK order \in Orders(DOMAIN c.proposals) : r = SeedDisputes(c, order)
  BY <1>1, SMTT(30)
<1>3. PICK s \in OurSets, sign \in Signs : c = TakePosition(e, s, sign)
  BY SMTT(30)
<1>4. Positioned(c, e)
  BY <1>3, TakeShape, SMTT(30) DEF Opening
<1> QED
  BY <1>2, <1>4, SeedSound, SMTT(30)

\* phaseOpen.
LEMMA OpenSound ==
    ASSUME Facts, NEW e, Idle(e), e.phase # "Accepted", NEW r \in PhaseOpen(e)
    PROVE  Idle(r)
<1>1. Opening(e)
  BY DEF Opening, Idle, Good, Sound
<1> QED
  BY <1>1, CloseSound DEF PhaseOpen

-----------------------------------------------------------------------------
(* Starting a round, and clearing one for another ledger. *)

LEMMA CleanSound ==
    ASSUME Facts, NEW q, Sane(q), Fresh(q, {}), ~q.building, DOMAIN q.disputes = {},
           q.phase = "Open", q.ours = Nil, q.position = Nil,
           NEW l \in Ledgers, q.prev = l
    PROVE  Idle(PruneUntrustedProposals(Replay(q, l)))
<1> DEFINE v == Replay(q, l)
           u == PruneUntrustedProposals(v)
<1>1. /\ Sane(v) /\ Fresh(v, {})
      /\ v.phase = q.phase /\ v.mode = q.mode /\ v.prev = q.prev
      /\ v.building = q.building /\ v.acquired = q.acquired
      /\ v.ours = q.ours /\ v.position = q.position
      /\ DOMAIN v.disputes = {}
      /\ DOMAIN v.proposals \subseteq trustedSnapshot
      /\ \A n \in DOMAIN v.proposals : v.proposals[n].prev = l
  BY ReplayShape, SMTT(30)
<1> HIDE DEF v
<1>2. Sound(v)
  <2>1. Counted(v)
    BY <1>1 DEF Counted
  <2>2. OnParent(v)
    BY <1>1 DEF OnParent
  <2>3. Complete(v)
    BY <1>1 DEF Complete
  <2>4. Voted(v)
    BY <1>1 DEF Voted
  <2> QED
    BY <1>1, <2>1, <2>2, <2>3, <2>4 DEF Sound
<1>3. Sound(u) /\ Fresh(u, {}) /\ Alike(u, v)
  BY <1>1, <1>2, UntrustedPruned
<1> QED
  BY <1>1, <1>3 DEF Idle, Good, Alike, v

\* startRoundLocked needs only the shape of the engine: everything else is
\* reset.
LEMMA StartSound ==
    ASSUME Facts, NEW e, Sane(e), Fresh(e, pendingTrustPurge), ~e.building,
           NEW recovering, NEW r \in StartRound(e, recovering)
    PROVE  Idle(r)
<1> DEFINE p == PurgePendingTrust(e)
           q(mode) == [p EXCEPT
                !.mode = mode, !.phase = "Open", !.ours = Nil, !.position = Nil,
                !.proposals = Empty, !.dead = {}, !.disputes = Empty,
                !.acquired = {}, !.compares = {}]
           u(mode) == PruneUntrustedProposals(Replay(q(mode), e.prev))
<1>1. PICK mode \in Modes : r \in PhaseOpen(u(mode))
  BY DEF StartRound, Modes
<1>2. Sane(p) /\ Fresh(p, {}) /\ Alike(p, e)
  BY PendingPurged
<1> DEFINE s == q(mode)
<1>3. /\ s \in Engines /\ s.mode = mode /\ s.phase = "Open" /\ s.ours = Nil
      /\ s.position = Nil /\ s.proposals = Empty /\ s.dead = {} /\ s.disputes = Empty
      /\ s.acquired = {} /\ s.prev = p.prev /\ s.building = p.building
      /\ s.recent = p.recent
  <2>1. p \in Engines
    BY <1>2 DEF Sane
  <2>2. Empty \in Partial(Peers, Held) /\ Empty \in Partial(Txs, Disputes)
    BY EmptyShape
  <2>3. "Open" \in Phases
    BY DEF Phases
  <2> HIDE DEF p
  <2> QED
    BY <2>1, <2>2, <2>3 DEF Engines
<1>4. DOMAIN Empty = {}
  BY DEF Empty
<1>5. r \in PhaseOpen(PruneUntrustedProposals(Replay(s, e.prev)))
  BY <1>1
<1> HIDE DEF p, s
<1>6. Sane(s) /\ Fresh(s, {}) /\ ~s.building /\ s.prev = e.prev /\ e.prev \in Ledgers
  <2>1. ~s.building /\ s.prev = e.prev
    BY <1>2, <1>3 DEF Alike
  <2>2. e.prev \in Ledgers
    BY Fields DEF Sane
  <2>3. Sane(s)
    BY <1>2, <1>3, <1>4, <2>1, SMTT(30) DEF Sane
  <2>4. Fresh(s, {})
    BY <1>2, <1>3, <1>4 DEF Fresh
  <2> QED
    BY <2>1, <2>2, <2>3, <2>4
<1> DEFINE v == PruneUntrustedProposals(Replay(s, e.prev))
<1>7. Idle(v)
  BY <1>3, <1>4, <1>6, CleanSound
<1>8. v.phase = "Open"
  <2>1. /\ Sane(Replay(s, e.prev)) /\ Fresh(Replay(s, e.prev), {})
        /\ Replay(s, e.prev).phase = s.phase
    BY <1>3, <1>4, <1>6, ReplayShape
  <2> QED
    BY <1>3, <2>1, UntrustedPruned DEF Alike
<1> HIDE DEF v
<1> QED
  BY <1>5, <1>7, <1>8, OpenSound DEF v

\* resetWrongLedgerStateLocked for a target other than the parent.
LEMMA ResetShape ==
    ASSUME Facts, NEW e, Sane(e), Fresh(e, pendingTrustPurge), NEW l \in Ledgers
    PROVE  LET r == ResetForTarget(e, l)
           IN  /\ Sane(r) /\ Fresh(r, {})
               /\ r.phase = e.phase /\ r.mode = e.mode /\ r.prev = e.prev
               /\ r.building = e.building /\ r.ours = e.ours /\ r.cache = e.cache
               /\ r.position = e.position
               /\ l # e.prev => /\ DOMAIN r.disputes = {} /\ r.acquired = {}
                                /\ r.compares = {}
                                /\ \A n \in DOMAIN r.proposals : r.proposals[n].prev = l
<1> DEFINE p == PurgePendingTrust(e)
           s == [p EXCEPT !.proposals = Empty, !.disputes = Empty,
                          !.acquired = {}, !.compares = {}]
           v == Replay(s, l)
           r == ResetForTarget(e, l)
<1>1. Sane(p) /\ Fresh(p, {}) /\ Alike(p, e)
  BY PendingPurged
<1>2. CASE l = e.prev
  <2>1. r = p
    BY <1>2 DEF ResetForTarget
  <2> QED
    BY <1>1, <1>2, <2>1 DEF Alike
<1>3. CASE l # e.prev
  <2>1. r = PruneUntrustedProposals(v)
    BY <1>3 DEF ResetForTarget
  <2> HIDE DEF p
  <2>2. /\ s \in Engines /\ s.proposals = Empty /\ s.disputes = Empty /\ s.acquired = {}
        /\ s.compares = {} /\ s.phase = p.phase /\ s.mode = p.mode /\ s.prev = p.prev
        /\ s.building = p.building /\ s.ours = p.ours /\ s.cache = p.cache
        /\ s.position = p.position /\ s.dead = p.dead /\ s.recent = p.recent
    <3>1. Empty \in Partial(Peers, Held) /\ Empty \in Partial(Txs, Disputes)
      BY EmptyShape
    <3>2. p \in Engines
      BY <1>1 DEF Sane
    <3> QED
      BY <3>1, <3>2 DEF Engines
  <2>3. DOMAIN Empty = {}
    BY DEF Empty
  <2> HIDE DEF s
  <2>4. Sane(s) /\ Fresh(s, {})
    BY <1>1, <2>2, <2>3, SMTT(30) DEF Sane, Fresh
  <2>5. /\ Sane(v) /\ Fresh(v, {})
        /\ v.phase = s.phase /\ v.mode = s.mode /\ v.prev = s.prev
        /\ v.building = s.building /\ v.acquired = s.acquired
        /\ v.compares = s.compares /\ v.ours = s.ours
        /\ v.position = s.position /\ v.cache = s.cache
        /\ DOMAIN v.disputes = {}
        /\ \A n \in DOMAIN v.proposals : v.proposals[n].prev = l
    BY <2>2, <2>3, <2>4, ReplayShape, SMTT(30)
  <2> HIDE DEF v, r
  <2>6. /\ Sane(r) /\ Fresh(r, {}) /\ Alike(r, v) /\ DOMAIN r.disputes = DOMAIN v.disputes
        /\ Fewer(r, v)
    BY <2>1, <2>5, UntrustedPruned
  <2>7. \A n \in DOMAIN r.proposals : r.proposals[n].prev = l
    BY <2>5, <2>6 DEF Fewer
  <2> QED
    BY <1>1, <2>2, <2>5, <2>6, <2>7 DEF Alike, r
<1> QED
  BY <1>2, <1>3

\* Stopping to propose changes nothing else.
LEMMA StopShape ==
    ASSUME NEW e, Idle(e)
    PROVE  /\ Idle(StopProposing(e)) /\ StopProposing(e).prev = e.prev
           /\ StopProposing(e).mode # "Proposing"
<1> DEFINE s == [e EXCEPT !.mode = "Observing"]
<1>1. CASE e.mode # "Proposing"
  BY <1>1 DEF StopProposing
<1>2. CASE e.mode = "Proposing"
  <2>1. StopProposing(e) = s
    BY <1>2 DEF StopProposing
  <2>2. e \in Engines /\ "Observing" \in Modes
    BY DEF Idle, Good, Sound, Sane, Modes
  <2>3. /\ s \in Engines /\ s.mode = "Observing" /\ s.phase = e.phase /\ s.prev = e.prev
        /\ s.building = e.building /\ s.proposals = e.proposals /\ s.dead = e.dead
        /\ s.recent = e.recent /\ s.disputes = e.disputes /\ s.acquired = e.acquired
        /\ s.compares = e.compares /\ s.ours = e.ours /\ s.position = e.position
        /\ s.cache = e.cache
    BY <2>2 DEF Engines
  <2> HIDE DEF s
  <2>4. Sane(s) /\ Fresh(s, {}) /\ ~s.building
    BY <2>3, SMTT(30) DEF Sane, Fresh, Idle, Good, Sound
  <2>5. Counted(s)
    BY <2>3 DEF Counted, Idle, Good, Sound
  <2>6. OnParent(e) => OnParent(s)
    BY <1>2, <2>3 DEF OnParent
  <2>7. Complete(e) => Complete(s)
    BY <2>3 DEF Complete
  <2>8. Voted(e) => Voted(s)
    BY <1>2, <2>3, VotedKept
  <2> QED
    BY <2>1, <2>3, <2>4, <2>5, <2>6, <2>7, <2>8 DEF Idle, Good, Sound
<1> QED
  BY <1>1, <1>2

\* A round cleared for l: waiting for l, or on l without proposing.
LEMMA ClearedSound ==
    ASSUME Facts, NEW e, Idle(e), NEW l \in Ledgers, l # e.prev, NEW mode \in Modes,
           NEW prev \in Ledgers, mode = "WrongLedger" \/ (prev = l /\ mode # "Proposing")
    PROVE  Idle([ResetForTarget(e, l) EXCEPT !.mode = mode, !.prev = prev])
<1> DEFINE r == ResetForTarget(e, l)
           s == [r EXCEPT !.mode = mode, !.prev = prev]
<1>1. Sane(e) /\ Fresh(e, pendingTrustPurge) /\ ~e.building
  BY FreshGrows DEF Idle, Good, Sound
<1>2. /\ Sane(r) /\ Fresh(r, {}) /\ r.building = e.building
      /\ r.ours = e.ours /\ r.cache = e.cache
      /\ DOMAIN r.disputes = {} /\ r.acquired = {} /\ r.compares = {}
      /\ \A n \in DOMAIN r.proposals : r.proposals[n].prev = l
  BY <1>1, ResetShape
<1> HIDE DEF r
<1>3. /\ s \in Engines /\ s.mode = mode /\ s.phase = r.phase /\ s.prev = prev
      /\ s.building = r.building /\ s.proposals = r.proposals /\ s.dead = r.dead
      /\ s.recent = r.recent /\ s.disputes = r.disputes /\ s.acquired = r.acquired
      /\ s.compares = r.compares /\ s.ours = r.ours /\ s.cache = r.cache
  <2>1. r \in Engines
    BY <1>2 DEF Sane
  <2> QED
    BY <2>1 DEF Engines
<1> HIDE DEF s
<1>4. Sane(s) /\ Fresh(s, {}) /\ ~s.building
  BY <1>1, <1>2, <1>3, SMTT(30) DEF Sane, Fresh
<1>5. Counted(s)
  BY <1>2, <1>3 DEF Counted
<1>6. OnParent(s)
  BY <1>2, <1>3 DEF OnParent
<1>7. Complete(s)
  BY <1>2, <1>3 DEF Complete
<1>8. Voted(s)
  BY <1>2, <1>3 DEF Voted
<1> QED
  BY <1>4, <1>5, <1>6, <1>7, <1>8 DEF Idle, Good, Sound, r, s

LEMMA WrongLedgerSound ==
    ASSUME Facts, NEW e, Idle(e), NEW l \in Ledgers, l # e.prev, NEW r \in HandleWrongLedger(e, l)
    PROVE  Idle(r)
<1> DEFINE s == StopProposing(e)
           t == ResetForTarget(s, l)
           on == [t EXCEPT !.prev = l]
<1>1. \/ r = e \/ r = s \/ r = [t EXCEPT !.mode = "WrongLedger"]
      \/ r \in StartRound(on, TRUE) \/ (SwitchFails /\ r = on)
  BY DEF HandleWrongLedger
<1>2. Idle(s) /\ l # s.prev /\ s.mode # "Proposing"
  BY StopShape
<1> HIDE DEF s
<1>3. Sane(s) /\ Fresh(s, pendingTrustPurge) /\ ~s.building /\ s.prev \in Ledgers
  BY <1>2, FreshGrows, Fields DEF Idle, Good, Sound, Sane
<1>4. Sane(t) /\ Fresh(t, {}) /\ t.building = s.building /\ t.prev = s.prev /\ t.mode = s.mode
  BY <1>3, ResetShape
<1>5. t \in Engines /\ t.mode \in Modes
  BY <1>4, Fields DEF Sane
<1>6. CASE r = [t EXCEPT !.mode = "WrongLedger"]
  <2>1. Idle([t EXCEPT !.mode = "WrongLedger", !.prev = s.prev])
    BY <1>2, <1>3, ClearedSound DEF Modes
  <2>2. [t EXCEPT !.mode = "WrongLedger", !.prev = s.prev] = [t EXCEPT !.mode = "WrongLedger"]
    <3> HIDE DEF t
    <3> QED
      BY <1>4, <1>5 DEF Engines
  <2> QED
    BY <1>6, <2>1, <2>2
<1>7. CASE r \in StartRound(on, TRUE)
  <2> HIDE DEF t
  <2>1. /\ on \in Engines /\ on.mode = t.mode /\ on.phase = t.phase
        /\ on.building = t.building /\ on.proposals = t.proposals /\ on.dead = t.dead
        /\ on.recent = t.recent
    BY <1>5 DEF Engines
  <2> HIDE DEF on
  <2>2. Sane(on) /\ Fresh(on, {}) /\ ~on.building
    BY <1>3, <1>4, <2>1, SMTT(30) DEF Sane, Fresh
  <2> QED
    BY <1>7, <2>2, FreshGrows, StartSound
<1>8. CASE SwitchFails /\ r = on
  <2>1. Idle([t EXCEPT !.mode = t.mode, !.prev = l])
    BY <1>2, <1>4, <1>5, ClearedSound
  <2>2. [t EXCEPT !.mode = t.mode, !.prev = l] = on
    <3> HIDE DEF t
    <3> QED
      BY <1>5 DEF Engines
  <2> QED
    BY <1>8, <2>1, <2>2
<1> QED
  BY <1>1, <1>2, <1>6, <1>7, <1>8

LEMMA CheckLedgerSound ==
    ASSUME Facts, NEW e, Idle(e), NEW r \in CheckLedger(e)
    PROVE  Idle(r)
<1>1. r = e \/ \E l \in Ledgers \ {e.prev} : r \in HandleWrongLedger(e, l)
  BY DEF CheckLedger
<1> QED
  BY <1>1, WrongLedgerSound

\* A record on another parent keeps its shape.
LEMMA MoveShape ==
    ASSUME NEW e, Sane(e), NEW P, Fresh(e, P), NEW l \in Ledgers
    PROVE  LET m == [e EXCEPT !.prev = l]
           IN  /\ Sane(m) /\ Fresh(m, P) /\ m.prev = l
               /\ m.building = e.building /\ m.phase = e.phase /\ m.mode = e.mode
               /\ m.proposals = e.proposals /\ m.disputes = e.disputes
               /\ m.acquired = e.acquired /\ m.compares = e.compares
               /\ m.ours = e.ours /\ m.position = e.position /\ m.cache = e.cache
<1> DEFINE m == [e EXCEPT !.prev = l]
<1>1. /\ m \in Engines /\ m.mode = e.mode /\ m.phase = e.phase
      /\ m.building = e.building /\ m.proposals = e.proposals /\ m.dead = e.dead
      /\ m.recent = e.recent /\ m.disputes = e.disputes /\ m.prev = l
      /\ m.acquired = e.acquired /\ m.compares = e.compares
      /\ m.ours = e.ours /\ m.position = e.position /\ m.cache = e.cache
  BY DEF Engines, Sane
<1> HIDE DEF m
<1>2. Sane(m) /\ Fresh(m, P)
  BY <1>1, SMTT(30) DEF Sane, Fresh
<1> QED
  BY <1>1, <1>2 DEF m

LEMMA NextRoundSound ==
    ASSUME Facts, NEW e, Idle(e), NEW r \in CheckAndStartRoundInner(e)
    PROVE  Idle(r)
<1>1. r = e \/ \E l \in Ledgers : r \in StartRound([e EXCEPT !.prev = l], FALSE)
  BY DEF CheckAndStartRoundInner
<1>2. ASSUME NEW l \in Ledgers, r \in StartRound([e EXCEPT !.prev = l], FALSE)
      PROVE  Idle(r)
  <2>1. Sane(e) /\ Fresh(e, pendingTrustPurge) /\ ~e.building
    BY FreshGrows DEF Idle, Good, Sound
  <2> DEFINE m == [e EXCEPT !.prev = l]
  <2>2. Sane(m) /\ Fresh(m, pendingTrustPurge) /\ ~m.building
    BY <2>1, MoveShape
  <2> HIDE DEF m
  <2>3. r \in StartRound(m, FALSE)
    BY <1>2 DEF m
  <2> QED
    BY <2>2, <2>3, StartSound
<1> QED
  BY <1>1, <1>2

LEMMA SwitchSound ==
    ASSUME Facts, NEW e, Sane(e), Fresh(e, pendingTrustPurge), ~e.building, NEW l \in Ledgers,
           NEW r \in SwitchTo(e, l)
    PROVE  Idle(r)
<1>1. PICK t \in {e, ResetForTarget(e, l)} : r \in StartRound([t EXCEPT !.prev = l], TRUE)
  BY DEF SwitchTo
<1>2. Sane(t) /\ Fresh(t, pendingTrustPurge) /\ ~t.building
  <2>1. CASE t = e
    BY <2>1
  <2>2. CASE t = ResetForTarget(e, l)
    <3>1. Sane(t) /\ Fresh(t, {}) /\ t.building = e.building
      BY <2>2, ResetShape
    <3> QED
      BY <3>1, FreshGrows
  <2> QED
    BY <2>1, <2>2
<1> DEFINE m == [t EXCEPT !.prev = l]
<1>3. Sane(m) /\ Fresh(m, pendingTrustPurge) /\ ~m.building
  BY <1>2, MoveShape
<1> HIDE DEF m
<1>4. r \in StartRound(m, TRUE)
  BY <1>1 DEF m
<1> QED
  BY <1>3, <1>4, StartSound

-----------------------------------------------------------------------------
(* The establish phase. *)

\* Our votes taken anew: same voters, same tallies.
LEMMA VotedShape ==
    ASSUME NEW D \in Partial(Txs, Disputes), NEW vote, DOMAIN vote = DOMAIN D,
           \A x \in DOMAIN D : vote[x] \in BOOLEAN
    PROVE  LET V == [x \in DOMAIN vote |-> [D[x] EXCEPT !.our = vote[x]]]
           IN  /\ V \in Partial(Txs, Disputes) /\ DOMAIN V = DOMAIN D
               /\ \A x \in DOMAIN D : /\ V[x].our = vote[x] /\ V[x].votes = D[x].votes
                                      /\ Exact(D[x]) => Exact(V[x])
<1> DEFINE W(x) == [D[x] EXCEPT !.our = vote[x]]
           V == [x \in DOMAIN vote |-> W(x)]
<1>1. DOMAIN D \in SUBSET Txs /\ \A x \in DOMAIN D : D[x] \in Disputes
  BY PartialElim
<1>2. ASSUME NEW x \in DOMAIN D
      PROVE  /\ W(x) \in Disputes /\ W(x).our = vote[x] /\ W(x).votes = D[x].votes
             /\ W(x).yays = D[x].yays /\ W(x).nays = D[x].nays
  BY <1>1 DEF Disputes
<1>3. DOMAIN V = DOMAIN D /\ \A x \in DOMAIN D : V[x] = W(x)
  OBVIOUS
<1> HIDE DEF W
<1>4. V \in [DOMAIN D -> Disputes]
  BY <1>2, <1>3
<1> HIDE DEF V
<1>5. V \in Partial(Txs, Disputes)
  BY <1>1, <1>4, PartialIntro
<1>6. ASSUME NEW x \in DOMAIN D
      PROVE  Exact(D[x]) => Exact(V[x])
  <2>1. V[x].votes = D[x].votes /\ V[x].yays = D[x].yays /\ V[x].nays = D[x].nays
    BY <1>2, <1>3
  <2>2. \A b : Cast(V[x], b) = Cast(D[x], b)
    BY <2>1 DEF Cast
  <2> QED
    BY <2>1, <2>2 DEF Exact
<1> QED
  BY <1>2, <1>3, <1>5, <1>6 DEF V, W

LEMMA OurVoteTyped ==
    ASSUME NEW d, d.our \in BOOLEAN, NEW proposing, NEW required
    PROVE  OurVote(d, proposing, required) \in BOOLEAN
<1>1. CASE IF d.our THEN d.nays = 0 ELSE d.yays = 0
  BY <1>1 DEF OurVote
<1>2. CASE ~(IF d.our THEN d.nays = 0 ELSE d.yays = 0)
  <2> DEFINE weight == (d.yays * 100 + (IF d.our THEN 100 ELSE 0)) \div (d.yays + d.nays + 1)
  <2>1. OurVote(d, proposing, required)
          = IF proposing THEN weight > required ELSE d.yays > d.nays
    BY <1>2 DEF OurVote
  <2> HIDE DEF weight
  <2>2. (weight > required) \in BOOLEAN /\ (d.yays > d.nays) \in BOOLEAN
    BY SMTT(30)
  <2> QED
    BY <2>1, <2>2
<1> QED
  BY <1>1, <1>2

\* updatePosition.
LEMMA UpdateSound ==
    ASSUME Facts, NEW e0, Idle(e0), NEW required, NEW sign
    PROVE  /\ Idle(UpdatePositionWith(e0, required, sign))
           /\ UpdatePositionWith(e0, required, sign).phase = e0.phase
<1> DEFINE e == PurgePendingTrust(e0)
           vote == [x \in DOMAIN e.disputes |->
                       OurVote(e.disputes[x], e.mode = "Proposing", required[x])]
           flipped == {x \in DOMAIN vote : vote[x] # e.disputes[x].our}
           voted == [x \in DOMAIN vote |-> [e.disputes[x] EXCEPT !.our = vote[x]]]
           new == Rebuild(e.ours, flipped, vote)
           there == {n \in DOMAIN e.proposals \cap trustedSnapshot :
                       e.proposals[n].set = new}
           pos == IF e.mode = "Proposing" /\ e.position # Nil /\ sign
                  THEN Position(e, new) ELSE e.position
           D == UpdateDisputes(voted, there, new)
           q == [e EXCEPT !.disputes = voted]
           r == [e EXCEPT !.ours = new, !.cache = e.cache \cup {new},
                          !.acquired = e.acquired \cup {new},
                          !.position = pos, !.disputes = D]
           u == UpdatePositionWith(e0, required, sign)
<1>1. u = IF e.ours = Nil \/ flipped = {} THEN e ELSE IF new = e.ours THEN q ELSE r
  BY DEF UpdatePositionWith
<1>2. Sane(e0) /\ Fresh(e0, pendingTrustPurge) /\ Sound(e0) /\ ~e0.building
  BY FreshGrows DEF Idle, Good, Sound
<1>3. /\ Idle(e) /\ Sound(e) /\ Sane(e) /\ Counted(e) /\ e \in Engines
      /\ e.phase = e0.phase
  <2>1. Sound(e) /\ Fresh(e, {}) /\ Alike(e, e0)
    BY <1>2, PendingPurged
  <2>2. e.building = e0.building /\ e.phase = e0.phase
    BY <2>1 DEF Alike
  <2>3. Sane(e) /\ Counted(e) /\ e \in Engines
    BY <2>1 DEF Sound, Sane
  <2> QED
    BY <1>2, <2>1, <2>2, <2>3 DEF Idle, Good
<1> HIDE DEF e
<1>4. DOMAIN vote = DOMAIN e.disputes /\ \A x \in DOMAIN e.disputes : vote[x] \in BOOLEAN
  <2>1. \A x \in DOMAIN e.disputes : e.disputes[x].our \in BOOLEAN
    BY <1>3, Fields DEF Disputes
  <2>2. ASSUME NEW x \in DOMAIN e.disputes
        PROVE  vote[x] \in BOOLEAN
    BY <2>1, OurVoteTyped, SMTT(30)
  <2> QED
    BY <2>2
<1> HIDE DEF vote
<1>5. /\ voted \in Partial(Txs, Disputes) /\ DOMAIN voted = DOMAIN e.disputes
      /\ \A x \in DOMAIN e.disputes :
            /\ voted[x].our = vote[x] /\ voted[x].votes = e.disputes[x].votes
            /\ Exact(e.disputes[x]) => Exact(voted[x])
  <2>1. e.disputes \in Partial(Txs, Disputes)
    BY <1>3, Fields
  <2> QED
    BY <1>4, <2>1, VotedShape
<1> HIDE DEF voted
<1>6. CASE e.ours = Nil \/ flipped = {}
  BY <1>1, <1>3, <1>6
<1>7. CASE e.ours # Nil
  <2>1. e.ours \in TxSets /\ DOMAIN e.disputes \subseteq Txs
    BY <1>3, <1>7, Fields
  <2>2. new \in TxSets
    BY <1>4, <2>1 DEF Rebuild, TxSets
  <2>3. \A x \in DOMAIN e.disputes : vote[x] = (x \in new)
    <3> SUFFICES ASSUME NEW x \in DOMAIN e.disputes
                 PROVE  vote[x] = (x \in new)
      OBVIOUS
    <3>1. e.disputes[x].our = (x \in e.ours)
      BY <1>3 DEF Counted
    <3>2. vote[x] \in BOOLEAN
      BY <1>4
    <3>3. CASE x \in flipped
      <4>1. x \in new <=> vote[x]
        BY <3>3 DEF Rebuild
      <4> QED
        BY <3>2, <4>1, SMTT(30)
    <3>4. CASE x \notin flipped
      <4>1. x \in new <=> x \in e.ours
        BY <3>4 DEF Rebuild
      <4>2. vote[x] = e.disputes[x].our
        BY <1>4, <3>4
      <4> QED
        BY <3>1, <4>1, <4>2, SMTT(30)
    <3> QED
      BY <3>3, <3>4
  <2>4. SymmetricDifference(new, e.ours) \subseteq DOMAIN e.disputes
    BY <1>4 DEF Rebuild, SymmetricDifference
  <2>5. CASE u = q /\ new = e.ours
    <3>1. /\ q \in Engines /\ q.disputes = voted /\ q.phase = e.phase /\ q.mode = e.mode
          /\ q.prev = e.prev /\ q.building = e.building /\ q.proposals = e.proposals
          /\ q.dead = e.dead /\ q.recent = e.recent /\ q.acquired = e.acquired
          /\ q.compares = e.compares /\ q.ours = e.ours /\ q.position = e.position
          /\ q.cache = e.cache
      BY <1>3, <1>5 DEF Engines
    <3> HIDE DEF q, new
    <3>2. Sane(q) /\ Fresh(q, {}) /\ ~q.building
      BY <1>3, <3>1, SMTT(30) DEF Sane, Fresh, Idle, Good
    <3>3. Counted(q)
      BY <1>3, <1>5, <2>3, <2>5, <3>1, SMTT(30) DEF Counted
    <3>4. OnParent(e) => OnParent(q)
      BY <3>1 DEF OnParent
    <3>5. Complete(e) => Complete(q)
      BY <1>5, <3>1 DEF Complete
    <3>6. Voted(q)
      <4> SUFFICES ASSUME NEW x \in DOMAIN q.disputes, NEW n \in DOMAIN q.disputes[x].votes
                   PROVE  VoteSigned(q, x, n)
        BY DEF Voted
      <4>1. /\ x \in DOMAIN e.disputes /\ n \in DOMAIN e.disputes[x].votes
            /\ q.disputes[x].votes[n] = e.disputes[x].votes[n]
        BY <1>5, <3>1
      <4>2. VoteSigned(e, x, n)
        BY <1>3, <4>1 DEF Sound, Voted
      <4> QED
        BY <3>1, <4>1, <4>2, SignedKept
    <3> QED
      BY <1>3, <2>5, <3>1, <3>2, <3>3, <3>4, <3>5, <3>6 DEF Idle, Good, Sound
  <2>6. CASE u = r
    <3>1. there \in SUBSET Peers /\ there \subseteq DOMAIN e.proposals
      BY <1>3, Fields
    <3>2. /\ D \in Partial(Txs, Disputes) /\ DOMAIN D = DOMAIN e.disputes
          /\ \A x \in DOMAIN e.disputes :
                /\ D[x].our = (x \in new)
                /\ DOMAIN D[x].votes = there \cup DOMAIN e.disputes[x].votes
                /\ \A n \in there : D[x].votes[n] = (x \in new)
                /\ \A n \in DOMAIN e.disputes[x].votes \ there :
                      D[x].votes[n] = e.disputes[x].votes[n]
                /\ Exact(e.disputes[x]) => Exact(D[x])
      <4> HIDE DEF new, there
      <4>1. /\ D \in Partial(Txs, Disputes) /\ DOMAIN D = DOMAIN voted
            /\ \A x \in DOMAIN voted :
                  /\ D[x].our = voted[x].our
                  /\ DOMAIN D[x].votes = there \cup DOMAIN voted[x].votes
                  /\ \A n \in there : D[x].votes[n] = (x \in new)
                  /\ \A n \in DOMAIN voted[x].votes \ there :
                        D[x].votes[n] = voted[x].votes[n]
                  /\ Exact(voted[x]) => Exact(D[x])
        <5>1. there \in SUBSET Peers /\ voted \in Partial(Txs, Disputes)
          BY <1>5, <3>1
        <5>2. D \in Partial(Txs, Disputes) /\ DOMAIN D = DOMAIN voted
          <6>1. D \in Partial(Txs, Disputes)
            BY <5>1, UpdateMap
          <6>2. DOMAIN D = DOMAIN voted
            BY DEF UpdateDisputes
          <6> QED
            BY <6>1, <6>2
        <5>3. ASSUME NEW x \in DOMAIN voted
              PROVE  /\ D[x].our = voted[x].our
                     /\ DOMAIN D[x].votes = there \cup DOMAIN voted[x].votes
                     /\ \A n \in there : D[x].votes[n] = (x \in new)
                     /\ \A n \in DOMAIN voted[x].votes \ there :
                           D[x].votes[n] = voted[x].votes[n]
                     /\ Exact(voted[x]) => Exact(D[x])
          BY <5>1, UpdateMap
        <5> QED
          BY <5>2, <5>3
      <4> HIDE DEF D
      <4> QED
        BY <1>5, <2>3, <4>1, SMTT(30)
    <3>3. pos \in Positions \cup {Nil} /\ (pos = e.position \/ (pos # Nil /\ pos.prev = e.prev))
      <4>1. Position(e, new) \in Positions /\ Position(e, new).prev = e.prev
        BY <1>3, <2>2, Fields DEF Position, Positions
      <4>2. Nil \notin Positions
        BY NilAssumption DEF Positions, TxSets
      <4>3. e.position \in Positions \cup {Nil}
        BY <1>3, Fields
      <4> QED
        BY <4>1, <4>2, <4>3
    <3>4. \A n \in there : e.proposals[n].set = new
      OBVIOUS
    <3> HIDE DEF D, pos, there, new
    <3>6. /\ r \in Engines /\ r.disputes = D /\ r.phase = e.phase /\ r.mode = e.mode
          /\ r.prev = e.prev /\ r.building = e.building /\ r.proposals = e.proposals
          /\ r.dead = e.dead /\ r.recent = e.recent /\ r.acquired = e.acquired \cup {new}
          /\ r.compares = e.compares /\ r.ours = new /\ r.position = pos
          /\ r.cache = e.cache \cup {new}
      <4>1. /\ e.acquired \cup {new} \in SUBSET TxSets /\ e.cache \cup {new} \in SUBSET TxSets
            /\ new \in TxSets \cup {Nil}
        BY <1>3, <2>2, Fields
      <4> QED
        BY <1>3, <3>2, <3>3, <4>1 DEF Engines
    <3> HIDE DEF r
    <3>7. Sane(r) /\ Fresh(r, {}) /\ ~r.building
      BY <1>3, <3>6, SMTT(30) DEF Sane, Fresh, Idle, Good
    <3>8. new # Nil
      BY <2>2, NilAssumption DEF TxSets
    <3>9. Counted(r)
      BY <1>3, <3>1, <3>2, <3>6, <3>8, SMTT(30) DEF Counted
    <3>10. OnParent(e) => OnParent(r)
      BY <3>3, <3>6 DEF OnParent
    <3>11. ASSUME Complete(e) PROVE Complete(r)
      <4>1. \A s : SymmetricDifference(s, e.ours) \subseteq DOMAIN e.disputes
                     => SymmetricDifference(s, new) \subseteq DOMAIN e.disputes
        BY <2>4 DEF SymmetricDifference
      <4>2. \A s \in r.compares : SymmetricDifference(s, new) \subseteq DOMAIN e.disputes
        BY <1>7, <3>6, <3>11, <4>1 DEF Complete
      <4>3. ASSUME NEW n \in DOMAIN e.proposals, e.proposals[n].set \in e.acquired \cup {new}
            PROVE  SymmetricDifference(e.proposals[n].set, new) \subseteq DOMAIN e.disputes
        <5>1. CASE e.proposals[n].set = new
          BY <5>1 DEF SymmetricDifference
        <5>2. CASE e.proposals[n].set \in e.acquired
          BY <1>7, <3>11, <4>1, <5>2 DEF Complete
        <5> QED
          BY <4>3, <5>1, <5>2
      <4> QED
        BY <3>2, <3>6, <4>2, <4>3 DEF Complete
    <3>12. Voted(r)
      <4> SUFFICES ASSUME NEW x \in DOMAIN r.disputes, NEW n \in DOMAIN r.disputes[x].votes
                   PROVE  VoteSigned(r, x, n)
        BY DEF Voted
      <4>1. x \in DOMAIN e.disputes /\ n \in there \cup DOMAIN e.disputes[x].votes
        BY <3>2, <3>6
      <4>2. CASE n \in there
        <5>1. /\ e.proposals[n] \in Held /\ e.proposals[n].node = n
              /\ e.proposals[n].set = new
          BY <1>3, <3>1, <3>4, <4>2, Fields DEF Sane
        <5>2. r.disputes[x].votes[n] = (x \in new)
          BY <3>2, <3>6, <4>1, <4>2
        <5> QED
          BY <3>6, <5>1, <5>2, SignedNow
      <4>3. CASE n \notin there
        <5>1. n \in DOMAIN e.disputes[x].votes /\ VoteSigned(e, x, n)
          BY <1>3, <4>1, <4>3 DEF Sound, Voted
        <5>2. r.disputes[x].votes[n] = e.disputes[x].votes[n]
          BY <3>2, <3>6, <4>1, <4>3, <5>1
        <5> QED
          BY <3>6, <5>1, <5>2, SignedKept
      <4> QED
        BY <4>2, <4>3
    <3> QED
      BY <1>3, <2>6, <3>6, <3>7, <3>9, <3>10, <3>11, <3>12 DEF Idle, Good, Sound
  <2> QED
    BY <1>1, <1>6, <1>7, <2>5, <2>6
<1> QED
  BY <1>6, <1>7

LEMMA LeaveSound ==
    ASSUME Facts, NEW e, Idle(e), NEW sign
    PROVE  LET r == LeaveConsensus(e, sign)
           IN  Idle(r) /\ r.phase = e.phase /\ (r.mode = "WrongLedger" => e.mode = "WrongLedger")
<1> DEFINE pos == IF e.position # Nil /\ sign THEN [e.position EXCEPT !.prev = e.prev]
                  ELSE e.position
           r == [e EXCEPT !.mode = "Observing", !.position = pos]
<1>1. e \in Engines /\ Sound(e)
  BY DEF Idle, Good, Sound, Sane
<1>2. CASE e.mode # "Proposing"
  BY <1>2 DEF LeaveConsensus
<1>3. CASE e.mode = "Proposing"
  <2>1. LeaveConsensus(e, sign) = r
    BY <1>3 DEF LeaveConsensus
  <2>2. pos \in Positions \cup {Nil} /\ (pos = e.position \/ (pos # Nil /\ pos.prev = e.prev))
    <3>1. e.position \in Positions \cup {Nil} /\ e.prev \in Ledgers
      BY <1>1, Fields
    <3>2. Nil \notin Positions
      BY NilAssumption DEF Positions, TxSets
    <3>3. CASE e.position # Nil
      <4>1. /\ [e.position EXCEPT !.prev = e.prev] \in Positions
            /\ [e.position EXCEPT !.prev = e.prev].prev = e.prev
        BY <3>1, <3>3 DEF Positions
      <4> QED
        BY <3>1, <3>2, <4>1
    <3> QED
      BY <3>1, <3>3
  <2> HIDE DEF pos
  <2>3. /\ r \in Engines /\ r.mode = "Observing" /\ r.phase = e.phase /\ r.prev = e.prev
        /\ r.building = e.building /\ r.proposals = e.proposals /\ r.dead = e.dead
        /\ r.recent = e.recent /\ r.disputes = e.disputes /\ r.acquired = e.acquired
        /\ r.compares = e.compares /\ r.ours = e.ours /\ r.position = pos
        /\ r.cache = e.cache
    <3>1. "Observing" \in Modes
      BY DEF Modes
    <3> QED
      BY <1>1, <2>2, <3>1 DEF Engines
  <2> HIDE DEF r
  <2>4. Sane(r) /\ Fresh(r, {}) /\ ~r.building
    BY <2>3, SMTT(30) DEF Sane, Fresh, Idle, Good, Sound
  <2>5. Counted(r)
    BY <1>1, <2>3 DEF Counted, Sound
  <2>6. OnParent(e) => OnParent(r)
    BY <1>3, <2>2, <2>3 DEF OnParent
  <2>7. Complete(e) => Complete(r)
    BY <2>3 DEF Complete
  <2>8. Voted(e) => Voted(r)
    BY <1>3, <2>3, VotedKept
  <2>9. Idle(r)
    BY <1>1, <2>4, <2>5, <2>6, <2>7, <2>8 DEF Idle, Good, Sound
  <2> QED
    BY <2>1, <2>3, <2>9
<1> QED
  BY <1>2, <1>3

\* acceptLedger freezes a round that stands on its parent.
LEMMA AcceptSound ==
    ASSUME Facts, NEW e, Idle(e), e.mode # "WrongLedger", e.phase # "Accepted"
    PROVE  Good(Accept(e))
<1> DEFINE p == PurgePendingTrust(e)
           r == [p EXCEPT !.phase = "Accepted", !.building = TRUE]
<1>1. Sane(e) /\ Fresh(e, pendingTrustPurge) /\ Sound(e)
  BY FreshGrows DEF Idle, Good, Sound
<1>2. Sane(p) /\ Sound(p) /\ Fresh(p, {}) /\ Alike(p, e)
  BY <1>1, PendingPurged
<1>3. Accept(e) = r
  BY DEF Accept
<1> HIDE DEF p
<1>4. /\ r \in Engines /\ r.mode = e.mode /\ r.phase = "Accepted" /\ r.prev = p.prev
      /\ r.building = TRUE /\ r.proposals = p.proposals /\ r.dead = p.dead
      /\ r.recent = p.recent /\ r.disputes = p.disputes /\ r.acquired = p.acquired
      /\ r.compares = p.compares /\ r.ours = p.ours /\ r.position = p.position
      /\ r.cache = p.cache
  <2>1. p \in Engines /\ "Accepted" \in Phases /\ p.mode = e.mode
    BY <1>2 DEF Sane, Phases, Alike
  <2> QED
    BY <2>1 DEF Engines
<1> HIDE DEF r
<1>5. Sane(r) /\ Fresh(r, {})
  BY <1>2, <1>4, SMTT(30) DEF Sane, Fresh
<1>6. Counted(r)
  BY <1>2, <1>4, SMTT(30) DEF Counted, Sound
<1>7. OnParent(p) => OnParent(r)
  BY <1>2, <1>4, SMTT(30) DEF OnParent, Alike
<1>8. Complete(p) => Complete(r)
  BY <1>4 DEF Complete
<1>9. Voted(p) => Voted(r)
  BY <1>2, <1>4, VotedKept DEF Alike
<1> QED
  BY <1>2, <1>3, <1>5, <1>6, <1>7, <1>8, <1>9 DEF Good, Sound

LEMMA ConvergeSound ==
    ASSUME Facts, NEW e, Idle(e), e.phase # "Accepted", NEW r \in CheckConvergence(e)
    PROVE  Good(r)
<1>1. CASE r = e
  BY <1>1 DEF Idle
<1>2. CASE e.mode # "WrongLedger" /\ r = Accept(e)
  BY <1>2, AcceptSound
<1>3. ASSUME e.mode # "WrongLedger", NEW sign \in Signs,
             r \in {LeaveConsensus(e, sign), Accept(LeaveConsensus(e, sign))}
      PROVE  Good(r)
  <2> DEFINE c == LeaveConsensus(e, sign)
  <2>1. Idle(c) /\ c.phase # "Accepted" /\ c.mode # "WrongLedger"
    BY <1>3, LeaveSound
  <2> HIDE DEF c
  <2>2. r = c \/ r = Accept(c)
    BY <1>3 DEF c
  <2> QED
    BY <2>1, <2>2, AcceptSound DEF Idle
<1>4. \/ r = e \/ (e.mode # "WrongLedger" /\ r = Accept(e))
      \/ e.mode # "WrongLedger" /\ \E sign \in Signs :
              r \in {LeaveConsensus(e, sign), Accept(LeaveConsensus(e, sign))}
  BY SMTT(30) DEF CheckConvergence
<1> QED
  BY <1>1, <1>2, <1>3, <1>4

LEMMA StaleSound ==
    ASSUME Facts, NEW e, Idle(e), NEW S
    PROVE  Idle(PruneStaleProposals(e, S)) /\ PruneStaleProposals(e, S).phase = e.phase
<1> DEFINE p == PruneStaleProposals(e, S)
<1>1. e \in Engines /\ Sound(e) /\ Fresh(e, {}) /\ ~e.building
  BY DEF Idle, Good, Sound, Sane
<1>2. Without(p, e, S) /\ p.recent = e.recent
  BY <1>1, StaleShape
<1> HIDE DEF p
<1>3. Trimmed(p, e)
  BY <1>2 DEF Trimmed
<1>4. Sound(p)
  BY <1>1, <1>2, <1>3, WithoutSound
<1>5. Fresh(p, {})
  BY <1>1, <1>2, SMTT(30) DEF Fresh, Without
<1> QED
  BY <1>1, <1>2, <1>4, <1>5 DEF Idle, Good, Without, Alike, p

\* phaseEstablish.
LEMMA EstablishSound ==
    ASSUME Facts, NEW e, Idle(e), e.phase = "Establish", NEW r \in PhaseEstablish(e)
    PROVE  Good(r)
<1>1. CASE r = e
  BY <1>1 DEF Idle
<1>2. ASSUME NEW S, NEW u \in UpdatePosition(PruneStaleProposals(PruneUntrustedProposals(e), S)),
             r = u \/ r \in CheckConvergence(u)
      PROVE  Good(r)
  <2> DEFINE p == PruneUntrustedProposals(e)
             q == PruneStaleProposals(p, S)
  <2>1. Sane(e) /\ Fresh(e, {}) /\ Sound(e) /\ ~e.building
    BY DEF Idle, Good, Sound
  <2>2. Idle(p) /\ p.phase = "Establish"
    BY <2>1, UntrustedPruned DEF Idle, Good, Alike
  <2> HIDE DEF p
  <2>3. Idle(q) /\ q.phase = "Establish"
    BY <2>2, StaleSound
  <2>4. u \in UpdatePosition(q)
    BY <1>2 DEF p
  <2> HIDE DEF q
  <2>5. \E required, sign : u = UpdatePositionWith(q, required, sign)
    BY <2>4, SMTT(30) DEF UpdatePosition
  <2>6. Idle(u) /\ u.phase = "Establish"
    BY <2>3, <2>5, UpdateSound, SMTT(30)
  <2> QED
    BY <1>2, <2>6, ConvergeSound DEF Idle
<1>3. r = e \/ \E S : \E u \in UpdatePosition(PruneStaleProposals(PruneUntrustedProposals(e), S)) :
                          r = u \/ r \in CheckConvergence(u)
  <2>1. PhaseEstablish(e) = {e} \cup UNION {
            UNION {{u} \cup CheckConvergence(u) :
                   u \in UpdatePosition(PruneStaleProposals(PruneUntrustedProposals(e), S))} :
            S \in SUBSET DOMAIN e.proposals}
    BY DEF PhaseEstablish
  <2> QED
    BY <2>1, SMTT(30)
<1> QED
  BY <1>1, <1>2, <1>3

-----------------------------------------------------------------------------
(* Comparing a set with ours, and the votes of its holders. *)

LEMMA CompareShape ==
    ASSUME Facts, NEW e \in Engines, NEW s \in TxSets, e.ours # Nil
    PROVE  LET c == CreateDisputesAgainst(e, s)
           IN  /\ c \in Engines
               /\ c.phase = e.phase /\ c.mode = e.mode /\ c.prev = e.prev
               /\ c.building = e.building /\ c.proposals = e.proposals
               /\ c.dead = e.dead /\ c.recent = e.recent /\ c.acquired = e.acquired
               /\ c.ours = e.ours /\ c.position = e.position /\ c.cache = e.cache
               /\ c.compares \subseteq e.compares \cup {s}
               /\ DOMAIN e.disputes \subseteq DOMAIN c.disputes
               /\ s \in e.compares \/ SymmetricDifference(s, e.ours) \subseteq DOMAIN c.disputes
               /\ \A x \in DOMAIN e.disputes : c.disputes[x] = e.disputes[x]
               /\ \A x \in DOMAIN c.disputes \ DOMAIN e.disputes :
                     LET d == c.disputes[x]
                     IN  /\ Exact(d) /\ d.our = (x \in e.ours)
                         /\ DOMAIN d.votes \subseteq DOMAIN e.proposals
                         /\ \A n \in DOMAIN d.votes : /\ d.votes[n] = (x \in e.proposals[n].set)
                                                     /\ e.proposals[n].set \in e.acquired
<1> DEFINE c == CreateDisputesAgainst(e, s)
           xs == SymmetricDifference(s, e.ours) \ DOMAIN e.disputes
           N == [x \in xs |-> NewDispute(x, e.ours, e.proposals, e.acquired)]
           D == Put(e.disputes, N)
           r == [e EXCEPT !.compares = e.compares \cup {s}, !.disputes = D]
<1>1. CASE s \in e.compares
  <2>1. c = e
    BY <1>1 DEF CreateDisputesAgainst
  <2> QED
    BY <1>1, <2>1
<1>2. CASE s \notin e.compares
  <2>1. c = r
    BY <1>2 DEF CreateDisputesAgainst
  <2>2. xs \in SUBSET Txs
    <3>1. e.ours \in TxSets
      BY Fields
    <3> QED
      BY <3>1 DEF SymmetricDifference, TxSets
  <2>3. ASSUME NEW x \in xs
        PROVE  /\ N[x] \in Disputes /\ Exact(N[x]) /\ N[x].our = (x \in e.ours)
               /\ DOMAIN N[x].votes \subseteq DOMAIN e.proposals
               /\ \A n \in DOMAIN N[x].votes : /\ N[x].votes[n] = (x \in e.proposals[n].set)
                                               /\ e.proposals[n].set \in e.acquired
    <3>1. N[x] = NewDispute(x, e.ours, e.proposals, e.acquired)
      OBVIOUS
    <3>2. e.proposals \in Partial(Peers, Held)
      BY Fields
    <3> HIDE DEF N
    <3> QED
      BY <3>1, <3>2, NewDisputeShape, SMTT(30)
  <2>4. DOMAIN N = xs
    OBVIOUS
  <2>5. N \in Partial(Txs, Disputes)
    <3>1. N \in [xs -> Disputes]
      BY <2>3
    <3> HIDE DEF N, xs
    <3> QED
      BY <2>2, <3>1, PartialIntro
  <2>6. DOMAIN e.disputes \cup xs = DOMAIN e.disputes \cup SymmetricDifference(s, e.ours)
    OBVIOUS
  <2>7. xs \cap DOMAIN e.disputes = {}
    OBVIOUS
  <2> HIDE DEF N, xs
  <2>8. /\ D \in Partial(Txs, Disputes) /\ DOMAIN D = DOMAIN e.disputes \cup xs
        /\ \A x \in DOMAIN e.disputes : D[x] = e.disputes[x]
        /\ \A x \in xs : D[x] = N[x]
    <3> DEFINE old == e.disputes
    <3>1. old \in Partial(Txs, Disputes)
      BY Fields
    <3> HIDE DEF old
    <3>2. Put(old, N) \in Partial(Txs, Disputes)
      BY <2>5, <3>1, PutShape
    <3>3. /\ DOMAIN Put(old, N) = DOMAIN old \cup DOMAIN N
          /\ \A x \in DOMAIN old \cup DOMAIN N :
                Put(old, N)[x] = IF x \in DOMAIN old THEN old[x] ELSE N[x]
      BY DEF Put
    <3> QED
      BY <2>4, <2>7, <3>2, <3>3 DEF old
  <2> HIDE DEF D
  <2>9. /\ r \in Engines /\ r.disputes = D /\ r.compares = e.compares \cup {s}
        /\ r.phase = e.phase /\ r.mode = e.mode /\ r.prev = e.prev
        /\ r.building = e.building /\ r.proposals = e.proposals
        /\ r.dead = e.dead /\ r.recent = e.recent /\ r.acquired = e.acquired
        /\ r.ours = e.ours /\ r.position = e.position /\ r.cache = e.cache
    <3>1. e.compares \cup {s} \in SUBSET TxSets
      BY Fields
    <3> QED
      BY <2>8, <3>1 DEF Engines
  <2>10. \A x \in DOMAIN D \ DOMAIN e.disputes : x \in xs
    BY <2>8
  <2> HIDE DEF r, c
  <2>11. SymmetricDifference(s, e.ours) \subseteq DOMAIN D /\ DOMAIN e.disputes \subseteq DOMAIN D
    BY <2>6, <2>8
  <2>12. \A x \in DOMAIN D \ DOMAIN e.disputes :
            /\ Exact(D[x]) /\ D[x].our = (x \in e.ours)
            /\ DOMAIN D[x].votes \subseteq DOMAIN e.proposals
            /\ \A n \in DOMAIN D[x].votes : /\ D[x].votes[n] = (x \in e.proposals[n].set)
                                            /\ e.proposals[n].set \in e.acquired
    BY <2>3, <2>8, <2>10, SMTT(30)
  <2> QED
    BY <2>1, <2>8, <2>9, <2>11, <2>12 DEF c
<1> QED
  BY <1>1, <1>2

\* The set s arrives, is compared with ours, and the nodes of S vote for it.
Wired(e, s, S) ==
    LET got == [e EXCEPT !.acquired = e.acquired \cup {s}]
        c == CreateDisputesAgainst(got, s)
    IN  [c EXCEPT !.disputes = UpdateDisputes(c.disputes, S, s)]

\* Complete, but for s.
CompleteBut(e, s) ==
    /\ \A t \in e.compares : SymmetricDifference(t, e.ours) \subseteq DOMAIN e.disputes
    /\ \A n \in DOMAIN e.proposals :
          e.proposals[n].set \in e.acquired /\ e.proposals[n].set # s =>
              SymmetricDifference(e.proposals[n].set, e.ours) \subseteq DOMAIN e.disputes

LEMMA WiredSound ==
    ASSUME Facts, NEW e, Sane(e), Counted(e), e.ours # Nil, NEW s \in TxSets,
           NEW S, S \subseteq DOMAIN e.proposals,
           \A n \in S : e.proposals[n].set = s
    PROVE  LET r == Wired(e, s, S)
           IN  /\ Sane(r) /\ Counted(r)
               /\ OnParent(e) => OnParent(r)
               /\ Voted(e) => Voted(r)
               /\ CompleteBut(e, s) => Complete(r)
               /\ \A P : Fresh(e, P) => Fresh(r, P)
<1> DEFINE got == [e EXCEPT !.acquired = e.acquired \cup {s}]
           c == CreateDisputesAgainst(got, s)
           D == UpdateDisputes(c.disputes, S, s)
           r == Wired(e, s, S)
<1>1. e \in Engines
  BY DEF Sane
<1>2. /\ got \in Engines /\ got.acquired = e.acquired \cup {s}
      /\ got.phase = e.phase /\ got.mode = e.mode /\ got.prev = e.prev
      /\ got.building = e.building /\ got.proposals = e.proposals
      /\ got.dead = e.dead /\ got.recent = e.recent /\ got.disputes = e.disputes
      /\ got.compares = e.compares
      /\ got.ours = e.ours /\ got.position = e.position /\ got.cache = e.cache
  <2>1. e.acquired \cup {s} \in SUBSET TxSets
    BY <1>1, Fields
  <2> QED
    BY <1>1, <2>1 DEF Engines
<1>3. r = [c EXCEPT !.disputes = D]
  BY DEF Wired
<1> HIDE DEF got
<1>4. /\ c \in Engines
      /\ c.phase = e.phase /\ c.mode = e.mode /\ c.prev = e.prev
      /\ c.building = e.building /\ c.proposals = e.proposals
      /\ c.dead = e.dead /\ c.recent = e.recent /\ c.acquired = e.acquired \cup {s}
      /\ c.ours = e.ours /\ c.position = e.position /\ c.cache = e.cache
      /\ c.compares \subseteq e.compares \cup {s}
      /\ DOMAIN e.disputes \subseteq DOMAIN c.disputes
      /\ s \in e.compares \/ SymmetricDifference(s, e.ours) \subseteq DOMAIN c.disputes
      /\ \A x \in DOMAIN e.disputes : c.disputes[x] = e.disputes[x]
      /\ \A x \in DOMAIN c.disputes \ DOMAIN e.disputes :
            /\ Exact(c.disputes[x]) /\ c.disputes[x].our = (x \in e.ours)
            /\ DOMAIN c.disputes[x].votes \subseteq DOMAIN e.proposals
            /\ \A n \in DOMAIN c.disputes[x].votes :
                  /\ c.disputes[x].votes[n] = (x \in e.proposals[n].set)
                  /\ e.proposals[n].set \in e.acquired \cup {s}
  BY <1>2, CompareShape, SMTT(30)
<1> HIDE DEF c
<1>5. S \in SUBSET Peers
  BY <1>1, Fields
<1>6. /\ D \in Partial(Txs, Disputes) /\ DOMAIN D = DOMAIN c.disputes
      /\ \A x \in DOMAIN c.disputes :
            /\ D[x].our = c.disputes[x].our
            /\ DOMAIN D[x].votes = S \cup DOMAIN c.disputes[x].votes
            /\ \A n \in S : D[x].votes[n] = (x \in s)
            /\ \A n \in DOMAIN c.disputes[x].votes \ S :
                  D[x].votes[n] = c.disputes[x].votes[n]
            /\ Exact(c.disputes[x]) => Exact(D[x])
  <2> DEFINE C == c.disputes
  <2>1. C \in Partial(Txs, Disputes)
    BY <1>4, Fields
  <2> HIDE DEF C
  <2>2. UpdateDisputes(C, S, s) \in Partial(Txs, Disputes)
    BY <1>5, <2>1, UpdateMap
  <2>3. DOMAIN UpdateDisputes(C, S, s) = DOMAIN C
    BY DEF UpdateDisputes
  <2>4. ASSUME NEW x \in DOMAIN C
        PROVE  /\ UpdateDisputes(C, S, s)[x].our = C[x].our
               /\ DOMAIN UpdateDisputes(C, S, s)[x].votes = S \cup DOMAIN C[x].votes
               /\ \A n \in S : UpdateDisputes(C, S, s)[x].votes[n] = (x \in s)
               /\ \A n \in DOMAIN C[x].votes \ S :
                     UpdateDisputes(C, S, s)[x].votes[n] = C[x].votes[n]
               /\ Exact(C[x]) => Exact(UpdateDisputes(C, S, s)[x])
    BY <1>5, <2>1, UpdateMap
  <2> QED
    BY <2>2, <2>3, <2>4 DEF C
<1> HIDE DEF D, r
<1>7. /\ r \in Engines /\ r.disputes = D
      /\ r.phase = e.phase /\ r.mode = e.mode /\ r.prev = e.prev
      /\ r.building = e.building /\ r.proposals = e.proposals
      /\ r.dead = e.dead /\ r.recent = e.recent /\ r.acquired = e.acquired \cup {s}
      /\ r.ours = e.ours /\ r.position = e.position /\ r.cache = e.cache
      /\ r.compares = c.compares
  BY <1>3, <1>4, <1>6 DEF Engines
<1>8. Sane(r)
  BY <1>7, SMTT(30) DEF Sane
<1>9. Counted(r)
  <2> SUFFICES ASSUME NEW x \in DOMAIN D
               PROVE  /\ Exact(D[x]) /\ DOMAIN D[x].votes \subseteq DOMAIN e.proposals
                      /\ D[x].our = (x \in e.ours)
    BY <1>7 DEF Counted
  <2>1. /\ Exact(c.disputes[x]) /\ DOMAIN c.disputes[x].votes \subseteq DOMAIN e.proposals
        /\ c.disputes[x].our = (x \in e.ours)
    BY <1>4, <1>6, SMTT(30) DEF Counted
  <2> QED
    BY <1>6, <2>1
<1>10. OnParent(e) => OnParent(r)
  BY <1>7 DEF OnParent
<1>11. ASSUME CompleteBut(e, s) PROVE Complete(r)
  <2>1. SymmetricDifference(s, e.ours) \subseteq DOMAIN D
    <3>1. CASE s \in e.compares
      BY <1>4, <1>6, <1>11, <3>1 DEF CompleteBut
    <3> QED
      BY <1>4, <1>6, <3>1
  <2>2. ASSUME NEW t \in r.compares
        PROVE  SymmetricDifference(t, e.ours) \subseteq DOMAIN D
    <3>1. t \in e.compares \/ t = s
      BY <1>4, <1>7
    <3>2. CASE t \in e.compares
      BY <1>4, <1>6, <1>11, <3>2 DEF CompleteBut
    <3> QED
      BY <2>1, <3>1, <3>2
  <2>3. ASSUME NEW n \in DOMAIN e.proposals, e.proposals[n].set \in e.acquired \cup {s}
        PROVE  SymmetricDifference(e.proposals[n].set, e.ours) \subseteq DOMAIN D
    <3>1. CASE e.proposals[n].set = s
      BY <2>1, <3>1
    <3>2. CASE e.proposals[n].set # s
      <4>1. SymmetricDifference(e.proposals[n].set, e.ours) \subseteq DOMAIN e.disputes
        BY <1>11, <2>3, <3>2 DEF CompleteBut
      <4> QED
        BY <1>4, <1>6, <4>1
    <3> QED
      BY <3>1, <3>2
  <2> QED
    BY <1>7, <2>2, <2>3 DEF Complete
<1>12. ASSUME Voted(e) PROVE Voted(r)
  <2> SUFFICES ASSUME NEW x \in DOMAIN r.disputes, NEW n \in DOMAIN r.disputes[x].votes
               PROVE  VoteSigned(r, x, n)
    BY DEF Voted
  <2>1. x \in DOMAIN c.disputes /\ n \in S \cup DOMAIN c.disputes[x].votes
    BY <1>6, <1>7
  <2>2. \A k \in DOMAIN e.proposals : e.proposals[k] \in Held /\ e.proposals[k].node = k
    BY <1>1, Fields DEF Sane
  <2>3. CASE n \in S
    <3>1. r.disputes[x].votes[n] = (x \in s) /\ e.proposals[n].set = s /\ n \in DOMAIN e.proposals
      BY <1>6, <1>7, <2>1, <2>3
    <3> QED
      BY <1>7, <2>2, <3>1, SignedNow
  <2>4. CASE n \notin S
    <3>1. r.disputes[x].votes[n] = c.disputes[x].votes[n] /\ n \in DOMAIN c.disputes[x].votes
      BY <1>6, <1>7, <2>1, <2>4
    <3>2. CASE x \notin DOMAIN e.disputes
      <4>1. /\ c.disputes[x].votes[n] = (x \in e.proposals[n].set) /\ n \in DOMAIN e.proposals
            /\ e.proposals[n].set \in e.acquired \cup {s}
        BY <1>4, <2>1, <3>1, <3>2, SMTT(30)
      <4> QED
        BY <1>7, <2>2, <3>1, <4>1, SignedNow
    <3>3. CASE x \in DOMAIN e.disputes
      <4>1. c.disputes[x] = e.disputes[x]
        BY <1>4, <3>3
      <4>2. VoteSigned(e, x, n)
        BY <1>12, <3>1, <3>3, <4>1 DEF Voted
      <4> QED
        BY <1>7, <3>1, <4>1, <4>2, SignedKept
    <3> QED
      BY <3>2, <3>3
  <2> QED
    BY <2>3, <2>4
<1>13. \A P : Fresh(e, P) => Fresh(r, P)
  BY <1>7, SMTT(30) DEF Fresh
<1> QED
  BY <1>8, <1>9, <1>10, <1>11, <1>12, <1>13 DEF r

\* The cache takes no part in a purge.
LEMMA PurgeCached ==
    ASSUME NEW e \in Engines, NEW C, NEW S
    PROVE  PurgeNodes([e EXCEPT !.cache = C], S)
             = [PurgeNodes(e, S) EXCEPT !.cache = C]
<1> DEFINE f == [e EXCEPT !.cache = C]
           P == Keep(e.proposals, Peers \ S)
           R == [n \in Peers |-> IF n \in S THEN <<>> ELSE e.recent[n]]
           D == UnVote(e.disputes, S)
<1>1. f.proposals = e.proposals /\ f.recent = e.recent /\ f.disputes = e.disputes
  BY DEF Engines
<1>2. PurgeNodes(f, S) = [f EXCEPT !.proposals = P, !.recent = R, !.disputes = D]
  <2>1. PurgeNodes(f, S)
          = [f EXCEPT !.proposals = Keep(f.proposals, Peers \ S),
                      !.recent = [n \in Peers |-> IF n \in S THEN <<>> ELSE f.recent[n]],
                      !.disputes = UnVote(f.disputes, S)]
    BY DEF PurgeNodes
  <2> HIDE DEF f
  <2> QED
    BY <1>1, <2>1
<1>3. PurgeNodes(e, S) = [e EXCEPT !.proposals = P, !.recent = R, !.disputes = D]
  BY DEF PurgeNodes
<1> HIDE DEF P, R, D
<1>4. [f EXCEPT !.proposals = P, !.recent = R, !.disputes = D]
        = [[e EXCEPT !.proposals = P, !.recent = R, !.disputes = D] EXCEPT !.cache = C]
  BY DEF Engines
<1> QED
  BY <1>2, <1>3, <1>4

\* OnTxSet on a round that is not accepted.
LEMMA TxSetSound ==
    ASSUME Facts, NEW e0, Sound(e0), Fresh(e0, pendingTrustPurge), e0.phase # "Accepted",
           NEW s \in TxSets
    PROVE  Good(ApplyTxSet([e0 EXCEPT !.cache = e0.cache \cup {s}], s))
<1> DEFINE f == [e0 EXCEPT !.cache = e0.cache \cup {s}]
           p == PurgePendingTrust(e0)
           e == PurgePendingTrust(f)
           new == [e EXCEPT !.acquired = e.acquired \cup {s}]
           there == {n \in DOMAIN e.proposals \cap trustedSnapshot :
                       e.proposals[n].set = s}
           c == CreateDisputesAgainst(new, s)
           u == ApplyTxSet(f, s)
<1>1. u = IF s \in e.acquired THEN e
          ELSE IF e.ours = Nil \/ s = e.ours THEN new
          ELSE [c EXCEPT !.disputes = UpdateDisputes(c.disputes, there, s)]
  BY DEF ApplyTxSet
<1>2. Sane(e0) /\ e0 \in Engines
  BY DEF Sound, Sane
<1>3. Sane(p) /\ Sound(p) /\ Fresh(p, {}) /\ Alike(p, e0) /\ p \in Engines
  BY <1>2, PendingPurged DEF Sane
<1>4. e = [p EXCEPT !.cache = p.cache \cup {s}]
  <2>1. p.cache = e0.cache
    BY <1>3 DEF Alike
  <2> QED
    BY <1>2, <2>1, PurgeCached, SMTT(30) DEF PurgePendingTrust
<1> HIDE DEF p, e
<1>5. /\ e \in Engines /\ e.acquired = p.acquired /\ e.phase = p.phase /\ e.mode = p.mode
      /\ e.prev = p.prev /\ e.building = p.building /\ e.proposals = p.proposals
      /\ e.dead = p.dead /\ e.recent = p.recent /\ e.disputes = p.disputes
      /\ e.compares = p.compares /\ e.ours = p.ours /\ e.position = p.position
      /\ e.cache = p.cache \cup {s}
  <2>1. p.cache \cup {s} \in SUBSET TxSets
    BY <1>3, Fields
  <2> QED
    BY <1>3, <1>4, <2>1 DEF Engines
<1>6. p.phase # "Accepted" /\ Counted(p)
  BY <1>3 DEF Alike, Sound
<1>7. Sane(e) /\ Fresh(e, {}) /\ Counted(e)
  BY <1>3, <1>5, <1>6, SMTT(30) DEF Sane, Fresh, Counted
<1>8. OnParent(e) /\ Voted(e) /\ (Complete(p) => Complete(e))
  <2>1. OnParent(p) /\ Voted(p)
    BY <1>3 DEF Sound
  <2>2. OnParent(e) /\ (Complete(p) => Complete(e))
    BY <1>5, <2>1 DEF OnParent, Complete
  <2> QED
    BY <1>5, <2>1, <2>2, VotedKept
<1>9. CASE s \in e.acquired
  BY <1>1, <1>3, <1>7, <1>8, <1>9 DEF Sound, Good
<1>10. CASE s \notin e.acquired /\ (e.ours = Nil \/ s = e.ours)
  <2>1. u = new
    BY <1>1, <1>10
  <2>2. /\ new \in Engines /\ new.acquired = p.acquired \cup {s} /\ new.phase = p.phase
        /\ new.mode = p.mode /\ new.prev = p.prev /\ new.building = p.building
        /\ new.proposals = p.proposals /\ new.dead = p.dead /\ new.recent = p.recent
        /\ new.disputes = p.disputes /\ new.compares = p.compares /\ new.ours = p.ours
        /\ new.position = p.position /\ new.cache = p.cache \cup {s}
    <3>1. e.acquired \cup {s} \in SUBSET TxSets
      BY <1>5, Fields
    <3> QED
      BY <1>5, <3>1 DEF Engines
  <2> HIDE DEF new
  <2>3. Sane(new) /\ Fresh(new, {}) /\ Counted(new)
    BY <1>3, <1>6, <2>2, SMTT(30) DEF Sane, Fresh, Counted
  <2>4. OnParent(p) => OnParent(new)
    BY <2>2 DEF OnParent
  <2>5. ASSUME Complete(p) PROVE Complete(new)
    <3>1. CASE p.ours = Nil
      BY <2>2, <3>1 DEF Complete
    <3>2. CASE p.ours # Nil
      <4>1. s = p.ours
        BY <1>5, <1>10, <3>2
      <4>2. SymmetricDifference(s, p.ours) = {}
        BY <4>1 DEF SymmetricDifference
      <4>3. ASSUME NEW n \in DOMAIN p.proposals, p.proposals[n].set \in p.acquired \cup {s}
            PROVE  SymmetricDifference(p.proposals[n].set, p.ours) \subseteq DOMAIN p.disputes
        <5>1. CASE p.proposals[n].set = s
          BY <4>2, <5>1
        <5>2. CASE p.proposals[n].set \in p.acquired
          BY <2>5, <3>2, <5>2 DEF Complete
        <5> QED
          BY <4>3, <5>1, <5>2
      <4>4. \A t \in p.compares : SymmetricDifference(t, p.ours) \subseteq DOMAIN p.disputes
        BY <2>5, <3>2 DEF Complete
      <4> QED
        BY <2>2, <4>3, <4>4 DEF Complete
    <3> QED
      BY <3>1, <3>2
  <2>6. Voted(p) => Voted(new)
    BY <2>2, VotedKept
  <2> QED
    BY <1>3, <2>1, <2>3, <2>4, <2>5, <2>6 DEF Sound, Good
<1>11. CASE s \notin e.acquired /\ e.ours # Nil /\ s # e.ours
  <2>1. u = Wired(e, s, there)
    BY <1>1, <1>11 DEF Wired
  <2>2. /\ there \subseteq DOMAIN e.proposals
        /\ \A n \in there : e.proposals[n].set = s
    OBVIOUS
  <2> HIDE DEF there, u
  <2>3. /\ Sane(u) /\ Counted(u) /\ Fresh(u, {})
        /\ OnParent(e) => OnParent(u)
        /\ Voted(e) => Voted(u)
        /\ CompleteBut(e, s) => Complete(u)
    BY <1>7, <1>11, <2>1, <2>2, WiredSound
  <2>4. Complete(e) => CompleteBut(e, s)
    BY <1>11 DEF Complete, CompleteBut
  <2> QED
    BY <1>3, <1>8, <2>3, <2>4 DEF Sound, Good, u
<1> QED
  BY <1>9, <1>10, <1>11

-----------------------------------------------------------------------------
(* A proposal past the trust gate. *)

\* bufferRecent keeps to its bound and holds old entries and the new one.
LEMMA BufferShape ==
    ASSUME NEW b \in Seq(Held), Len(b) <= RecentPerNode, NEW m \in Held
    PROVE  LET c == BufferRecent(b, m)
           IN  /\ c \in Seq(Held) /\ Len(c) <= RecentPerNode
               /\ \A i \in 1..Len(c) : c[i] = m \/ \E j \in 1..Len(b) : c[i] = b[j]
<1> DEFINE t == IF Len(b) >= RecentPerNode THEN Tail(b) ELSE b
           c == BufferRecent(b, m)
<1>1. c = Append(t, m)
  BY DEF BufferRecent
<1>2. Len(b) \in Nat /\ RecentPerNode \in Nat \ {0}
  BY MessagesAssumption, SMTT(30)
<1>3. /\ t \in Seq(Held) /\ Len(t) + 1 <= RecentPerNode
      /\ \A i \in 1..Len(t) : \E j \in 1..Len(b) : t[i] = b[j]
  <2>1. CASE Len(b) >= RecentPerNode
    <3>1. b # <<>>
      BY <1>2, <2>1, SMTT(30)
    <3>2. /\ Tail(b) \in Seq(Held) /\ Len(Tail(b)) = Len(b) - 1
          /\ \A i \in 1..Len(Tail(b)) : Tail(b)[i] = b[i + 1]
      BY <3>1, SMTT(30)
    <3>3. ASSUME NEW i \in 1..Len(Tail(b))
          PROVE  \E j \in 1..Len(b) : Tail(b)[i] = b[j]
      <4>1. i + 1 \in 1..Len(b)
        BY <1>2, <3>2, SMTT(30)
      <4> QED
        BY <3>2, <4>1
    <3>4. t = Tail(b)
      BY <2>1
    <3> QED
      BY <1>2, <2>1, <3>2, <3>3, <3>4, SMTT(30)
  <2>2. CASE ~(Len(b) >= RecentPerNode)
    BY <1>2, <2>2, SMTT(30)
  <2> QED
    BY <2>1, <2>2
<1> HIDE DEF t
<1>4. /\ Append(t, m) \in Seq(Held) /\ Len(Append(t, m)) = Len(t) + 1
      /\ \A i \in 1..Len(t) : Append(t, m)[i] = t[i]
      /\ Append(t, m)[Len(t) + 1] = m
  BY <1>3, SMTT(30)
<1>5. Len(t) \in Nat
  BY <1>3, SMTT(30)
<1>6. ASSUME NEW i \in 1..(Len(t) + 1)
      PROVE  Append(t, m)[i] = m \/ \E j \in 1..Len(b) : Append(t, m)[i] = b[j]
  <2>1. CASE i = Len(t) + 1
    BY <1>4, <2>1
  <2>2. CASE i # Len(t) + 1
    <3>1. i \in 1..Len(t)
      BY <1>5, <2>2, SMTT(30)
    <3> QED
      BY <1>3, <1>4, <3>1
  <2> QED
    BY <2>1, <2>2
<1> QED
  BY <1>1, <1>3, <1>4, <1>6

\* What the gate knows of the proposal it let through.
Admissible(m) ==
    /\ m \in Held
    /\ m.node \notin pendingTrustPurge => m.epoch = epoch[m.node]
    /\ Steady => m.node \in trusted /\ m.node \in trustedSnapshot

LEMMA BufferedSound ==
    ASSUME Facts, NEW e0, Sound(e0), Fresh(e0, pendingTrustPurge), NEW m, Admissible(m)
    PROVE  LET e == [e0 EXCEPT !.recent[m.node] = BufferRecent(e0.recent[m.node], m)]
           IN  /\ Sound(e) /\ Fresh(e, pendingTrustPurge)
<1> DEFINE b == BufferRecent(e0.recent[m.node], m)
           R == [e0.recent EXCEPT ![m.node] = b]
           e == [e0 EXCEPT !.recent = R]
<1>1. e0 \in Engines /\ Sane(e0) /\ m \in Held /\ m.node \in Peers
  BY DEF Sound, Sane, Admissible, Held, Entries
<1>2. e0.recent \in [Peers -> Seq(Held)] /\ Len(e0.recent[m.node]) <= RecentPerNode
  BY <1>1, Fields DEF Sane
<1>3. /\ b \in Seq(Held) /\ Len(b) <= RecentPerNode
      /\ \A i \in 1..Len(b) : b[i] = m \/ \E j \in 1..Len(e0.recent[m.node]) :
                                              b[i] = e0.recent[m.node][j]
  <2> DEFINE old == e0.recent[m.node]
  <2>1. old \in Seq(Held) /\ Len(old) <= RecentPerNode
    BY <1>1, <1>2
  <2> HIDE DEF old
  <2>2. LET c == BufferRecent(old, m)
        IN  /\ c \in Seq(Held) /\ Len(c) <= RecentPerNode
            /\ \A i \in 1..Len(c) : c[i] = m \/ \E j \in 1..Len(old) : c[i] = old[j]
    BY <1>1, <2>1, BufferShape
  <2> QED
    BY <2>2 DEF old
<1> HIDE DEF b
<1>4. /\ R \in [Peers -> Seq(Held)] /\ R[m.node] = b
      /\ \A n \in Peers \ {m.node} : R[n] = e0.recent[n]
  BY <1>1, <1>2, <1>3
<1> HIDE DEF R
<1>5. /\ e \in Engines /\ e.recent = R /\ e.phase = e0.phase /\ e.mode = e0.mode
      /\ e.prev = e0.prev /\ e.building = e0.building /\ e.proposals = e0.proposals
      /\ e.dead = e0.dead /\ e.disputes = e0.disputes /\ e.acquired = e0.acquired
      /\ e.compares = e0.compares /\ e.ours = e0.ours /\ e.position = e0.position
      /\ e.cache = e0.cache
  BY <1>1, <1>4 DEF Engines
<1> HIDE DEF e
<1>6. ASSUME NEW n \in Peers
      PROVE  /\ Len(R[n]) <= RecentPerNode
             /\ \A i \in 1..Len(R[n]) : R[n][i].node = n
             /\ n \notin pendingTrustPurge => \A i \in 1..Len(R[n]) : R[n][i].epoch = epoch[n]
  <2>1. CASE n = m.node
    <3>1. \A i \in 1..Len(b) : b[i].node = n
      BY <1>1, <1>3, <2>1, SMTT(30) DEF Sane
    <3>2. n \notin pendingTrustPurge => \A i \in 1..Len(b) : b[i].epoch = epoch[n]
      BY <1>1, <1>3, <2>1 DEF Fresh, Admissible
    <3> QED
      BY <1>3, <1>4, <2>1, <3>1, <3>2
  <2>2. CASE n # m.node
    <3>1. R[n] = e0.recent[n]
      BY <1>4, <2>2
    <3> QED
      BY <1>1, <3>1 DEF Sane, Fresh
  <2> QED
    BY <2>1, <2>2
<1>7. Sane(e)
  BY <1>1, <1>5, <1>6, SMTT(30) DEF Sane
<1>8. Fresh(e, pendingTrustPurge)
  BY <1>5, <1>6, SMTT(30) DEF Fresh
<1>9. Counted(e)
  BY <1>5 DEF Counted, Sound
<1>10. OnParent(e0) => OnParent(e)
  BY <1>5 DEF OnParent
<1>11. Complete(e0) => Complete(e)
  BY <1>5 DEF Complete
<1>12. Voted(e0) => Voted(e)
  BY <1>5, VotedKept
<1>13. Sound(e)
  BY <1>7, <1>9, <1>10, <1>11, <1>12 DEF Sound
<1> QED
  BY <1>8, <1>13 DEF e, R, b

\* A bow-out: the position and the votes go, and the peer is dead.
LEMMA BowOutSound ==
    ASSUME Facts, NEW e, Sound(e), NEW P, Fresh(e, P), NEW n \in Peers
    PROVE  LET r == [e EXCEPT !.proposals = Keep(e.proposals, Peers \ {n}),
                              !.dead = e.dead \cup {n},
                              !.disputes = UnVote(e.disputes, {n})]
           IN  Sound(r) /\ Fresh(r, P)
<1> DEFINE K == Keep(e.proposals, Peers \ {n})
           D == UnVote(e.disputes, {n})
           q == PruneStaleProposals(e, {n})
           r == [e EXCEPT !.proposals = K, !.dead = e.dead \cup {n}, !.disputes = D]
<1>1. e \in Engines /\ Sane(e)
  BY DEF Sound, Sane
<1>2. Without(q, e, {n}) /\ q.recent = e.recent
  BY <1>1, StaleShape
<1>3. q = [e EXCEPT !.proposals = K, !.disputes = D]
  BY DEF PruneStaleProposals
<1>4. Sound(q) /\ q \in Engines
  <2>1. Trimmed(q, e)
    BY <1>2 DEF Trimmed
  <2> QED
    BY <1>2, <2>1, WithoutSound DEF Without, Alike
<1>5. /\ q.dead = e.dead /\ n \notin DOMAIN q.proposals
      /\ \A k \in DOMAIN q.proposals : k \in DOMAIN e.proposals /\ q.proposals[k] = e.proposals[k]
  BY <1>2 DEF Without, Alike
<1> HIDE DEF K, D
<1>6. r = [q EXCEPT !.dead = q.dead \cup {n}]
  BY <1>1, <1>3 DEF Engines
<1> HIDE DEF q, r
<1>7. /\ r \in Engines /\ r.dead = q.dead \cup {n} /\ r.phase = q.phase /\ r.mode = q.mode
      /\ r.prev = q.prev /\ r.building = q.building /\ r.proposals = q.proposals
      /\ r.recent = q.recent /\ r.disputes = q.disputes /\ r.acquired = q.acquired
      /\ r.compares = q.compares /\ r.ours = q.ours /\ r.position = q.position
      /\ r.cache = q.cache
  <2>1. q.dead \cup {n} \in SUBSET Peers
    BY <1>4, Fields
  <2> QED
    BY <1>4, <1>6, <2>1 DEF Engines
<1>8. Sane(r)
  BY <1>4, <1>5, <1>7, SMTT(30) DEF Sane, Sound
<1>9. Fresh(r, P)
  BY <1>2, <1>5, <1>7, SMTT(30) DEF Fresh
<1>10. Counted(r)
  BY <1>4, <1>7 DEF Counted, Sound
<1>11. OnParent(q) => OnParent(r)
  BY <1>7 DEF OnParent
<1>12. Complete(q) => Complete(r)
  BY <1>7 DEF Complete
<1>13. Voted(q) => Voted(r)
  BY <1>7, VotedKept
<1> QED
  BY <1>4, <1>8, <1>9, <1>10, <1>11, <1>12, <1>13 DEF Sound, r, K, D

\* A stored position and its dispute work.
LEMMA StoredSound ==
    ASSUME Facts, NEW e, Sound(e), NEW P, Fresh(e, P), NEW m \in Held,
           m.node \notin P => m.epoch = epoch[m.node],
           Steady => m.node \in trusted /\ m.node \in trustedSnapshot,
           e.phase # "Accepted", m.prev = e.prev, m.node \notin e.dead, Stores(e, m)
    PROVE  LET f == [e EXCEPT !.proposals = Put([n \in {m.node} |-> m], e.proposals)]
           IN  Sound(WireDisputes(f, m)) /\ Fresh(WireDisputes(f, m), P)
<1> DEFINE M == [n \in {m.node} |-> m]
           Q == Put(M, e.proposals)
           f == [e EXCEPT !.proposals = Q]
           g == [f EXCEPT !.acquired = f.acquired \cup {m.set}]
           got == IF m.set \in f.cache THEN g ELSE f
           c == CreateDisputesAgainst(got, m.set)
           u == WireDisputes(f, m)
<1>1. e \in Engines /\ Sane(e) /\ Counted(e) /\ m.node \in Peers /\ m.set \in TxSets
  BY DEF Sound, Sane, Held, Entries
<1>2. /\ Q \in Partial(Peers, Held) /\ DOMAIN Q = DOMAIN e.proposals \cup {m.node}
      /\ Q[m.node] = m /\ \A n \in DOMAIN e.proposals \ {m.node} : Q[n] = e.proposals[n]
  <2>1. M \in [{m.node} -> Held] /\ DOMAIN M = {m.node} /\ M[m.node] = m
    OBVIOUS
  <2>2. {m.node} \in SUBSET Peers
    BY <1>1
  <2> DEFINE old == e.proposals
  <2>3. old \in Partial(Peers, Held)
    BY <1>1, Fields
  <2> HIDE DEF M, old
  <2>4. M \in Partial(Peers, Held)
    BY <2>1, <2>2, PartialIntro
  <2>5. Put(M, old) \in Partial(Peers, Held)
    BY <2>3, <2>4, PutShape
  <2>6. /\ DOMAIN Put(M, old) = DOMAIN M \cup DOMAIN old
        /\ \A n \in DOMAIN M \cup DOMAIN old :
              Put(M, old)[n] = IF n \in DOMAIN M THEN M[n] ELSE old[n]
    BY DEF Put
  <2> QED
    BY <2>1, <2>5, <2>6 DEF old
<1>3. u = IF f.ours = Nil \/ m.set \notin got.acquired \/ m.node \notin trusted
          THEN got
          ELSE [c EXCEPT !.disputes = UpdateDisputes(c.disputes, {m.node}, m.set)]
  BY DEF WireDisputes
<1> HIDE DEF M, Q
<1>4. /\ f \in Engines /\ f.proposals = Q /\ f.phase = e.phase /\ f.mode = e.mode
      /\ f.prev = e.prev /\ f.building = e.building /\ f.dead = e.dead
      /\ f.recent = e.recent /\ f.disputes = e.disputes /\ f.acquired = e.acquired
      /\ f.compares = e.compares /\ f.ours = e.ours /\ f.position = e.position
      /\ f.cache = e.cache
  BY <1>1, <1>2 DEF Engines
<1> HIDE DEF f
<1>5. Sane(f) /\ Counted(f)
  BY <1>1, <1>2, <1>4, SMTT(30) DEF Sane, Counted
<1>6. Fresh(f, P)
  BY <1>2, <1>4, SMTT(30) DEF Fresh
<1>7. OnParent(f) /\ Voted(f)
  <2>1. OnParent(e) /\ Voted(e)
    BY DEF Sound
  <2>2. OnParent(f)
    BY <1>2, <1>4, <2>1, SMTT(30) DEF OnParent
  <2>3. ASSUME NEW x \in DOMAIN f.disputes, NEW n \in DOMAIN f.disputes[x].votes
        PROVE  VoteSigned(f, x, n)
    <3>1. VoteSigned(e, x, n) /\ n \in DOMAIN e.proposals
      BY <1>1, <1>4, <2>1 DEF Voted, Counted
    <3>2. CASE n # m.node
      BY <1>2, <1>4, <3>1, <3>2, SignedKept
    <3>3. CASE n = m.node
      <4>1. PICK k \in Messages :
                /\ k.node = n /\ k.set \in e.acquired
                /\ k.pos <= e.proposals[n].pos
                /\ e.mode # "WrongLedger" => k.prev = e.proposals[n].prev
                /\ e.disputes[x].votes[n] = (x \in k.set)
        BY <3>1 DEF VoteSigned
      <4>2. k.pos \in Int /\ e.proposals[n].pos \in Int /\ m.pos \in Int
        <5>1. e.proposals[n] \in Held
          BY <1>1, <3>1, Fields
        <5>2. /\ k.pos \in 0..SeqLeave /\ e.proposals[n].pos \in 0..SeqLeave
              /\ m.pos \in 0..SeqLeave /\ SeqLeave \in Nat
          BY <5>1, MessagesAssumption DEF Held, Entries
        <5> QED
          BY <5>2, SMTT(30)
      <4>3. m.pos > e.proposals[n].pos
        BY <3>1, <3>3 DEF Stores
      <4>4. k.pos <= m.pos
        BY <4>1, <4>2, <4>3, SMTT(30)
      <4>5. e.mode # "WrongLedger" => k.prev = m.prev
        BY <2>1, <3>1, <4>1 DEF OnParent
      <4>6. f.proposals[n] = m /\ f.mode = e.mode /\ f.acquired = e.acquired
        BY <1>2, <1>4, <3>3
      <4> QED
        BY <1>4, <4>1, <4>4, <4>5, <4>6 DEF VoteSigned
    <3> QED
      BY <3>2, <3>3
  <2> QED
    BY <2>2, <2>3 DEF Voted
<1>8. /\ g \in Engines /\ g.acquired = f.acquired \cup {m.set} /\ g.proposals = f.proposals
      /\ g.phase = f.phase /\ g.mode = f.mode
      /\ g.prev = f.prev /\ g.building = f.building /\ g.dead = f.dead
      /\ g.recent = f.recent /\ g.disputes = f.disputes
      /\ g.compares = f.compares /\ g.ours = f.ours /\ g.position = f.position
      /\ g.cache = f.cache
  <2>1. f.acquired \cup {m.set} \in SUBSET TxSets
    BY <1>1, <1>4, Fields
  <2> QED
    BY <1>4, <2>1 DEF Engines
<1>9. m.set \in f.acquired => g = f
  <2>1. m.set \in f.acquired => f.acquired \cup {m.set} = f.acquired
    OBVIOUS
  <2> QED
    BY <1>4, <2>1 DEF Engines
<1> HIDE DEF g
<1>10. CASE f.ours = Nil \/ m.set \notin got.acquired \/ m.node \notin trusted
  <2>1. u = got /\ (got = f \/ (got = g /\ m.set \in f.cache))
    BY <1>3, <1>10
  <2>2. Sane(got) /\ Counted(got) /\ Fresh(got, P) /\ OnParent(got)
    <3>1. CASE got = f
      BY <1>5, <1>6, <1>7, <3>1
    <3>2. CASE got = g
      <4>1. Sane(g)
        BY <1>5, <1>8, SMTT(30) DEF Sane
      <4>2. Counted(g)
        BY <1>5, <1>8, SMTT(30) DEF Counted
      <4>3. Fresh(g, P)
        BY <1>6, <1>8, SMTT(30) DEF Fresh
      <4>4. OnParent(g)
        BY <1>7, <1>8, SMTT(30) DEF OnParent
      <4> QED
        BY <3>2, <4>1, <4>2, <4>3, <4>4
    <3> QED
      BY <2>1, <3>1, <3>2
  <2>3. ASSUME Steady, Complete(e) PROVE Complete(got)
    <3>1. CASE f.ours = Nil
      BY <1>8, <2>1, <3>1 DEF Complete
    <3>2. CASE f.ours # Nil
      <4>1. m.set \notin got.acquired /\ got = f
        BY <1>8, <1>10, <2>1, <2>3, <3>2
      <4>2. m.set \notin e.acquired /\ e.ours # Nil
        BY <1>4, <3>2, <4>1
      <4>3. Complete(f)
        BY <1>2, <1>4, <2>3, <4>2 DEF Complete
      <4> QED
        BY <4>1, <4>3
    <3> QED
      BY <3>1, <3>2
  <2>4. Voted(got)
    BY <1>7, <1>8, <2>1, VotedKept
  <2> HIDE DEF got, u
  <2>5. Sound(got)
    BY <2>2, <2>3, <2>4 DEF Sound
  <2> QED
    BY <2>1, <2>2, <2>5 DEF u, f, Q, M
<1>11. CASE ~(f.ours = Nil \/ m.set \notin got.acquired \/ m.node \notin trusted)
  <2>1. f.ours # Nil /\ got = g /\ (m.set \in f.cache \/ m.set \in f.acquired)
    BY <1>9, <1>11
  <2>2. u = Wired(f, m.set, {m.node})
    BY <1>3, <1>11, <2>1 DEF Wired, g
  <2>3. /\ {m.node} \subseteq DOMAIN f.proposals
        /\ \A n \in {m.node} : f.proposals[n].set = m.set
    BY <1>2, <1>4
  <2> HIDE DEF got, u
  <2>4. /\ Sane(u) /\ Counted(u) /\ Fresh(u, P)
        /\ OnParent(f) => OnParent(u)
        /\ Voted(f) => Voted(u)
        /\ CompleteBut(f, m.set) => Complete(u)
    <3>1. LET r == Wired(f, m.set, {m.node})
          IN  /\ Sane(r) /\ Counted(r)
              /\ OnParent(f) => OnParent(r)
              /\ Voted(f) => Voted(r)
              /\ CompleteBut(f, m.set) => Complete(r)
              /\ \A R : Fresh(f, R) => Fresh(r, R)
      BY <1>1, <1>5, <2>1, <2>3, WiredSound
    <3> QED
      BY <1>6, <2>2, <3>1
  <2>5. ASSUME Complete(e) PROVE CompleteBut(f, m.set)
    <3>1. \A t \in f.compares : SymmetricDifference(t, f.ours) \subseteq DOMAIN f.disputes
      BY <1>4, <2>1, <2>5 DEF Complete
    <3>2. ASSUME NEW n \in DOMAIN f.proposals, f.proposals[n].set \in f.acquired,
                 f.proposals[n].set # m.set
          PROVE  SymmetricDifference(f.proposals[n].set, f.ours) \subseteq DOMAIN f.disputes
      <4>1. n # m.node
        BY <1>2, <1>4, <3>2
      <4>2. n \in DOMAIN e.proposals /\ f.proposals[n] = e.proposals[n]
        BY <1>2, <1>4, <4>1
      <4> QED
        BY <1>4, <2>1, <2>5, <3>2, <4>2 DEF Complete
    <3> QED
      BY <3>1, <3>2 DEF CompleteBut
  <2>6. Sound(u)
    BY <1>7, <2>4, <2>5 DEF Sound
  <2> QED
    BY <2>4, <2>6 DEF u, f, Q, M
<1> QED
  BY <1>10, <1>11

\* OnProposal past its gate.
LEMMA AdmitSound ==
    ASSUME Facts, NEW e0, Sound(e0), Fresh(e0, pendingTrustPurge), NEW m, Admissible(m)
    PROVE  /\ Sound(AdmitProposal(e0, m))
           /\ Fresh(AdmitProposal(e0, m), pendingTrustPurge)
<1> DEFINE e == [e0 EXCEPT !.recent[m.node] = BufferRecent(e0.recent[m.node], m)]
           b == [e EXCEPT !.proposals = Keep(e.proposals, Peers \ {m.node}),
                          !.dead = e.dead \cup {m.node},
                          !.disputes = UnVote(e.disputes, {m.node})]
           f == [e EXCEPT !.proposals = Put([n \in {m.node} |-> m], e.proposals)]
           u == AdmitProposal(e0, m)
<1>1. \/ u = e
      \/ u = b
      \/ /\ u = WireDisputes(f, m)
         /\ e.phase # "Accepted" /\ m.prev = e.prev /\ m.node \notin e.dead /\ Stores(e, m)
  BY DEF AdmitProposal
<1>2. Sound(e) /\ Fresh(e, pendingTrustPurge)
  BY BufferedSound
<1>3. /\ m \in Held /\ m.node \in Peers
      /\ m.node \notin pendingTrustPurge => m.epoch = epoch[m.node]
      /\ Steady => m.node \in trusted /\ m.node \in trustedSnapshot
  BY DEF Admissible, Held, Entries
<1> HIDE DEF e, u
<1>4. CASE u = b
  <2>1. Sound(b) /\ Fresh(b, pendingTrustPurge)
    BY <1>2, <1>3, BowOutSound
  <2> QED
    BY <1>4, <2>1 DEF u
<1>5. CASE /\ u = WireDisputes(f, m)
           /\ e.phase # "Accepted" /\ m.prev = e.prev /\ m.node \notin e.dead /\ Stores(e, m)
  <2>1. Sound(WireDisputes(f, m)) /\ Fresh(WireDisputes(f, m), pendingTrustPurge)
    BY <1>2, <1>3, <1>5, StoredSound
  <2> QED
    BY <1>5, <2>1 DEF u
<1> QED
  BY <1>1, <1>2, <1>4, <1>5 DEF u

-----------------------------------------------------------------------------
(* The end of a build. *)

\* commitAcceptedLedgerLocked clears the build: a round that stays accepted
\* is excused from standing on its parent.
LEMMA DoneSound ==
    ASSUME Facts, NEW e, Good(e), e.building, NEW l \in Ledgers
    PROVE  /\ Idle([e EXCEPT !.building = FALSE])
           /\ Idle([[e EXCEPT !.building = FALSE] EXCEPT !.prev = l])
           /\ [e EXCEPT !.building = FALSE].prev = e.prev
           /\ [[e EXCEPT !.building = FALSE] EXCEPT !.prev = l].prev = l
<1>1. e \in Engines /\ Sound(e) /\ Sane(e) /\ Fresh(e, {}) /\ e.phase = "Accepted"
  BY DEF Good, Sound, Sane
<1>2. ASSUME NEW prev \in Ledgers, NEW r \in Engines, r.prev = prev,
             r.building = FALSE /\ r.phase = e.phase /\ r.mode = e.mode
               /\ r.proposals = e.proposals /\ r.dead = e.dead /\ r.recent = e.recent
               /\ r.disputes = e.disputes /\ r.acquired = e.acquired
               /\ r.compares = e.compares /\ r.ours = e.ours /\ r.cache = e.cache
      PROVE  Idle(r)
  <2>1. Sane(r) /\ Fresh(r, {})
    BY <1>1, <1>2, SMTT(30) DEF Sane, Fresh
  <2>2. Counted(r) /\ OnParent(r)
    BY <1>1, <1>2 DEF Counted, OnParent, Sound
  <2>3. (Complete(e) => Complete(r)) /\ Voted(r)
    BY <1>1, <1>2, VotedKept DEF Complete, Sound
  <2> QED
    BY <1>1, <1>2, <2>1, <2>2, <2>3 DEF Idle, Good, Sound
<1> DEFINE d == [e EXCEPT !.building = FALSE]
           o == [d EXCEPT !.prev = l]
<1>3. /\ d \in Engines /\ d.prev = e.prev
      /\ d.building = FALSE /\ d.phase = e.phase /\ d.mode = e.mode
      /\ d.proposals = e.proposals /\ d.dead = e.dead /\ d.recent = e.recent
      /\ d.disputes = e.disputes /\ d.acquired = e.acquired
      /\ d.compares = e.compares /\ d.ours = e.ours /\ d.cache = e.cache
  BY <1>1 DEF Engines
<1> HIDE DEF d
<1>4. /\ o \in Engines /\ o.prev = l
      /\ o.building = FALSE /\ o.phase = e.phase /\ o.mode = e.mode
      /\ o.proposals = e.proposals /\ o.dead = e.dead /\ o.recent = e.recent
      /\ o.disputes = e.disputes /\ o.acquired = e.acquired
      /\ o.compares = e.compares /\ o.ours = e.ours /\ o.cache = e.cache
  BY <1>3 DEF Engines
<1> HIDE DEF o
<1>5. e.prev \in Ledgers
  BY <1>1, Fields
<1>6. Idle(d)
  BY <1>2, <1>3, <1>5
<1>7. Idle(o)
  BY <1>2, <1>4
<1> QED
  BY <1>3, <1>4, <1>6, <1>7 DEF o, d

\* A failed build takes the round back to Establish, still on its parent.
LEMMA BackSound ==
    ASSUME NEW e, Good(e), e.building
    PROVE  LET r == [e EXCEPT !.building = FALSE, !.phase = "Establish"]
           IN  Idle(r) /\ r.prev = e.prev
<1> DEFINE r == [e EXCEPT !.building = FALSE, !.phase = "Establish"]
<1>1. /\ e \in Engines /\ Sound(e) /\ Sane(e) /\ Fresh(e, {})
      /\ e.mode # "WrongLedger" /\ "Establish" \in Phases
  BY DEF Good, Sound, Sane, Phases
<1>2. /\ r \in Engines /\ r.prev = e.prev /\ r.position = e.position
      /\ r.building = FALSE /\ r.phase = "Establish" /\ r.mode = e.mode
      /\ r.proposals = e.proposals /\ r.dead = e.dead /\ r.recent = e.recent
      /\ r.disputes = e.disputes /\ r.acquired = e.acquired
      /\ r.compares = e.compares /\ r.ours = e.ours /\ r.cache = e.cache
  BY <1>1 DEF Engines
<1> HIDE DEF r
<1>3. Sane(r) /\ Fresh(r, {})
  BY <1>1, <1>2, SMTT(30) DEF Sane, Fresh
<1>4. Counted(r)
  BY <1>1, <1>2 DEF Counted, Sound
<1>5. OnParent(e) => OnParent(r)
  BY <1>2 DEF OnParent
<1>6. Complete(e) => Complete(r)
  BY <1>2 DEF Complete
<1>7. Voted(e) => Voted(r)
  BY <1>2, VotedKept
<1>8. Idle(r)
  BY <1>1, <1>2, <1>3, <1>4, <1>5, <1>6, <1>7 DEF Idle, Good, Sound
<1> QED
  BY <1>2, <1>8 DEF r

\* Between rounds a set only goes to the cache.
LEMMA CachedSound ==
    ASSUME Facts, NEW e, Sound(e), NEW P, Fresh(e, P), e.phase = "Accepted", NEW s \in TxSets
    PROVE  LET r == [e EXCEPT !.cache = e.cache \cup {s}]
           IN  Sound(r) /\ Fresh(r, P)
<1> DEFINE r == [e EXCEPT !.cache = e.cache \cup {s}]
<1>1. e \in Engines /\ Sane(e)
  BY DEF Sound, Sane
<1>2. /\ r \in Engines /\ r.prev = e.prev /\ r.position = e.position
      /\ r.building = e.building /\ r.phase = e.phase /\ r.mode = e.mode
      /\ r.proposals = e.proposals /\ r.dead = e.dead /\ r.recent = e.recent
      /\ r.disputes = e.disputes /\ r.acquired = e.acquired
      /\ r.compares = e.compares /\ r.ours = e.ours /\ r.cache = e.cache \cup {s}
  <2>1. e.cache \cup {s} \in SUBSET TxSets
    BY <1>1, Fields
  <2> QED
    BY <1>1, <2>1 DEF Engines
<1> HIDE DEF r
<1>3. Sane(r) /\ Fresh(r, P)
  BY <1>1, <1>2, SMTT(30) DEF Sane, Fresh
<1>4. Counted(r)
  BY <1>2 DEF Counted, Sound
<1>5. (OnParent(e) => OnParent(r)) /\ (Complete(e) => Complete(r))
  BY <1>2 DEF OnParent, Complete
<1>6. Voted(e) => Voted(r)
  BY <1>2, VotedKept
<1> QED
  BY <1>3, <1>4, <1>5, <1>6 DEF Sound, r

-----------------------------------------------------------------------------
(* The invariant, step by step. *)

TrustTyped ==
    /\ trusted \in TrustChanges /\ trustedSnapshot \in TrustChanges
    /\ pendingTrustPurge \subseteq Peers /\ callbackDue \in BOOLEAN
    /\ epoch \in [Peers -> Nat]

Inv ==
    /\ Sound(eng) /\ Fresh(eng, pendingTrustPurge)
    /\ handling = Nil \/ Admissible(handling)
    /\ TrustTyped

LEMMA InvInit == Init => Inv
<1> SUFFICES ASSUME Init PROVE Inv
  OBVIOUS
<1>1. PICK l \in Ledgers :
        eng = [phase |-> "Open", mode |-> "Proposing", prev |-> l,
               building |-> FALSE, proposals |-> Empty, dead |-> {},
               recent |-> [n \in Peers |-> <<>>], disputes |-> Empty,
               acquired |-> {}, compares |-> {}, ours |-> Nil,
               position |-> Nil, cache |-> {{}}]
  BY DEF Init
<1>2. Empty \in Partial(Peers, Held) /\ Empty \in Partial(Txs, Disputes) /\ DOMAIN Empty = {}
  BY EmptyShape DEF Empty
<1>3. eng \in Engines
  <2>1. [n \in Peers |-> <<>>] \in [Peers -> Seq(Held)] /\ {{}} \in SUBSET TxSets
    <3>1. \A S : <<>> \in Seq(S)
      BY SMTT(30)
    <3> QED
      BY <3>1 DEF TxSets
  <2> QED
    BY <1>1, <1>2, <2>1 DEF Engines, Phases, Modes
<1>4. Sane(eng) /\ Fresh(eng, pendingTrustPurge)
  BY <1>1, <1>2, <1>3, MessagesAssumption, SMTT(30) DEF Sane, Fresh
<1>5. Sound(eng)
  BY <1>1, <1>2, <1>4 DEF Sound, Counted, OnParent, Complete, Voted
<1>6. TrustTyped
  BY DEF TrustTyped, Init
<1> QED
  BY <1>4, <1>5, <1>6 DEF Inv, Init

\* A handler that leaves one of a set of good records.
LEMMA HandleInv ==
    ASSUME Inv, NEW outcomes, Handle(outcomes), \A r \in outcomes : Good(r)
    PROVE  Inv'
<1>1. /\ Good(eng') /\ pendingTrustPurge' = {} /\ handling' = Nil
      /\ trusted' = trusted /\ trustedSnapshot' = trustedSnapshot /\ epoch' = epoch
      /\ callbackDue' = callbackDue
  BY DEF Handle, Unlocked, trustVars
<1>2. Sound(eng)'
  BY <1>1 DEF Good, Sound
<1>3. Fresh(eng, pendingTrustPurge)'
  BY <1>1 DEF Good, Fresh
<1>4. TrustTyped'
  BY <1>1 DEF Inv, TrustTyped
<1> QED
  BY <1>1, <1>2, <1>3, <1>4 DEF Inv

\* timerEntry.
LEMMA TickInv ==
    ASSUME Facts, Inv, Tick
    PROVE  Inv'
<1> DEFINE purged == PurgePendingTrust(eng)
           ready == {purged} \cup {LeaveConsensus(purged, sign) : sign \in Signs}
           checked == UNION {CheckLedger(e) : e \in ready}
           phase(e) == CASE e.phase = "Open" -> PhaseOpen(e)
                         [] e.phase = "Establish" -> PhaseEstablish(e)
                         [] OTHER -> CheckAndStartRoundInner(e)
           out == UNION {phase(e) : e \in checked}
<1>1. ~eng.building /\ Handle(out)
  BY DEF Tick
<1>2. Idle(purged)
  <2>1. Sane(eng) /\ Sound(eng) /\ Fresh(eng, pendingTrustPurge)
    BY DEF Inv, Sound
  <2> QED
    BY <1>1, <2>1, PendingPurged DEF Idle, Good, Alike
<1> HIDE DEF purged
<1>3. \A e \in ready : Idle(e)
  BY <1>2, LeaveSound
<1> HIDE DEF ready
<1>4. \A e \in checked : Idle(e)
  BY <1>3, CheckLedgerSound
<1> HIDE DEF checked
<1>5. ASSUME NEW e \in checked, NEW r \in phase(e)
      PROVE  Good(r)
  <2>1. Idle(e) /\ e.phase \in {"Open", "Establish", "Accepted"}
    BY <1>4, Fields DEF Idle, Good, Sound, Sane, Phases
  <2>2. CASE e.phase = "Open"
    <3>1. r \in PhaseOpen(e)
      BY <1>5, <2>2
    <3> QED
      BY <2>1, <2>2, <3>1, OpenSound DEF Idle
  <2>3. CASE e.phase = "Establish"
    <3>1. r \in PhaseEstablish(e)
      BY <1>5, <2>3
    <3> QED
      BY <2>1, <2>3, <3>1, EstablishSound
  <2>4. CASE e.phase = "Accepted"
    <3>1. r \in CheckAndStartRoundInner(e)
      BY <1>5, <2>4
    <3> QED
      BY <2>1, <3>1, NextRoundSound DEF Idle
  <2> QED
    BY <2>1, <2>2, <2>3, <2>4
<1> HIDE DEF phase
<1>6. \A r \in out : Good(r)
  BY <1>5
<1> HIDE DEF out
<1> QED
  BY <1>1, <1>6, HandleInv

\* commitAcceptedLedgerLocked.
LEMMA CommitInv ==
    ASSUME Facts, Inv, NEW l \in Ledgers, Commit(l)
    PROVE  Inv'
<1> DEFINE p == PurgePendingTrust(eng)
           done == [p EXCEPT !.building = FALSE]
           on == [done EXCEPT !.prev = l]
           out == {on} \cup StartRound(on, FALSE)
                    \cup UNION {HandleWrongLedger(done, m)
                                \cup StartRound([on EXCEPT !.prev = m], FALSE)
                                \cup HandleWrongLedger(on, m)
                                : m \in Ledgers \ {eng.prev, l}}
<1>1. eng.building /\ Handle(out)
  BY DEF Commit
<1>2. Good(p) /\ p.building /\ p.prev = eng.prev
  <2>1. Sane(eng) /\ Sound(eng) /\ Fresh(eng, pendingTrustPurge)
    BY DEF Inv, Sound
  <2> QED
    BY <1>1, <2>1, PendingPurged DEF Good, Alike
<1> HIDE DEF p
<1>3. Idle(done) /\ Idle(on) /\ done.prev = eng.prev /\ on.prev = l
  BY <1>2, DoneSound
<1> HIDE DEF done
<1>4. Sane(on) /\ Fresh(on, pendingTrustPurge) /\ ~on.building
  BY <1>3, FreshGrows DEF Idle, Good, Sound
<1> HIDE DEF on
<1>5. \A r \in StartRound(on, FALSE) : Good(r)
  BY <1>4, StartSound DEF Idle
<1>6. ASSUME NEW m \in Ledgers \ {eng.prev, l}
      PROVE  /\ \A r \in HandleWrongLedger(done, m) : Good(r)
             /\ \A r \in HandleWrongLedger(on, m) : Good(r)
             /\ \A r \in StartRound([on EXCEPT !.prev = m], FALSE) : Good(r)
  <2>1. \A r \in HandleWrongLedger(done, m) : Good(r)
    BY <1>3, WrongLedgerSound DEF Idle
  <2>2. \A r \in HandleWrongLedger(on, m) : Good(r)
    BY <1>3, WrongLedgerSound DEF Idle
  <2> DEFINE k == [on EXCEPT !.prev = m]
  <2>3. Sane(k) /\ Fresh(k, pendingTrustPurge) /\ ~k.building
    BY <1>4, MoveShape, SMTT(30)
  <2> HIDE DEF k
  <2>4. \A r \in StartRound(k, FALSE) : Good(r)
    BY <2>3, StartSound DEF Idle
  <2> QED
    BY <2>1, <2>2, <2>4 DEF k
<1>7. \A r \in out : Good(r)
  BY <1>3, <1>5, <1>6 DEF Idle
<1> HIDE DEF out
<1> QED
  BY <1>1, <1>7, HandleInv

LEMMA CommitFailedInv ==
    ASSUME Facts, Inv, CommitFailed
    PROVE  Inv'
<1> DEFINE p == PurgePendingTrust(eng)
           back == [p EXCEPT !.building = FALSE, !.phase = "Establish"]
           out == {back} \cup UNION {HandleWrongLedger(back, l) : l \in Ledgers \ {eng.prev}}
<1>1. BuildFails /\ eng.building /\ Handle(out)
  BY DEF CommitFailed
<1>2. Good(p) /\ p.building /\ p.prev = eng.prev
  <2>1. Sane(eng) /\ Sound(eng) /\ Fresh(eng, pendingTrustPurge)
    BY DEF Inv, Sound
  <2> QED
    BY <1>1, <2>1, PendingPurged DEF Good, Alike
<1> HIDE DEF p
<1>3. Idle(back) /\ back.prev = eng.prev
  BY <1>1, <1>2, BackSound
<1> HIDE DEF back
<1>4. \A l \in Ledgers \ {eng.prev} : \A r \in HandleWrongLedger(back, l) : Good(r)
  BY <1>3, WrongLedgerSound DEF Idle
<1>5. \A r \in out : Good(r)
  BY <1>3, <1>4 DEF Idle
<1> HIDE DEF out
<1> QED
  BY <1>1, <1>5, HandleInv

LEMMA SwitchInv ==
    ASSUME Facts, Inv, NEW l \in Ledgers, Switch(l)
    PROVE  Inv'
<1>1. Handle(SwitchTo(eng, l)) /\ ~eng.building
  BY DEF Switch
<1>2. Sane(eng) /\ Fresh(eng, pendingTrustPurge)
  BY DEF Inv, Sound
<1>3. \A r \in SwitchTo(eng, l) : Good(r)
  BY <1>1, <1>2, SwitchSound DEF Idle
<1> QED
  BY <1>1, <1>3, HandleInv

LEMMA OnTxSetInv ==
    ASSUME Facts, Inv, NEW m \in Messages, OnTxSet(m.set)
    PROVE  Inv'
<1> DEFINE s == m.set
           cached == [eng EXCEPT !.cache = eng.cache \cup {s}]
<1>1. s \in TxSets
  BY MessagesAssumption DEF TxSets
<1>2. CASE eng.phase = "Accepted"
  <2>1. /\ eng' = cached /\ UNCHANGED <<handling, pendingTrustPurge, trustVars>>
    BY <1>2 DEF OnTxSet
  <2>2. Sound(cached) /\ Fresh(cached, pendingTrustPurge)
    BY <1>1, <1>2, CachedSound DEF Inv
  <2> HIDE DEF cached
  <2>3. Sound(eng') /\ Fresh(eng', pendingTrustPurge)
    BY <2>1, <2>2
  <2>4. Sound(eng)' /\ Fresh(eng, pendingTrustPurge)'
    BY <2>1, <2>3 DEF Sound, Fresh, trustVars
  <2>5. TrustTyped' /\ (handling = Nil \/ Admissible(handling))'
    BY <2>1 DEF Inv, TrustTyped, Admissible, trustVars
  <2> QED
    BY <2>4, <2>5 DEF Inv
<1>3. CASE eng.phase # "Accepted"
  <2>1. Handle({ApplyTxSet(cached, s)})
    BY <1>3 DEF OnTxSet
  <2>2. Good(ApplyTxSet(cached, s))
    BY <1>1, <1>3, TxSetSound DEF Inv
  <2> HIDE DEF cached, s
  <2>3. \A r \in {ApplyTxSet(cached, s)} : Good(r)
    BY <2>2
  <2> QED
    BY <2>1, <2>3, HandleInv
<1> QED
  BY <1>2, <1>3

LEMMA OnProposalGateInv ==
    ASSUME Facts, Inv, NEW m \in Messages, OnProposalGate(m)
    PROVE  Inv'
<1>1. /\ eng' = PurgePendingTrust(eng) /\ pendingTrustPurge' = {}
      /\ trusted' = trusted /\ trustedSnapshot' = trustedSnapshot /\ epoch' = epoch
      /\ callbackDue' = callbackDue
  BY DEF OnProposalGate, trustVars
<1>2. Good(eng')
  <2>1. Sane(eng) /\ Sound(eng) /\ Fresh(eng, pendingTrustPurge)
    BY DEF Inv, Sound
  <2> QED
    BY <1>1, <2>1, PendingPurged DEF Good
<1>3. Sound(eng)' /\ Fresh(eng, pendingTrustPurge)'
  BY <1>1, <1>2 DEF Good, Sound, Fresh
<1>4. TrustTyped'
  BY <1>1 DEF Inv, TrustTyped
<1>5. handling' = Nil \/ Admissible(handling)'
  <2> SUFFICES ASSUME handling' # Nil PROVE Admissible(handling)'
    OBVIOUS
  <2>1. /\ m.node \in trusted
        /\ handling' = [node |-> m.node, prev |-> m.prev, pos |-> m.pos,
                        set |-> m.set, epoch |-> epoch[m.node]]
    BY DEF OnProposalGate
  <2>2. m.node \in Peers /\ m.prev \in Ledgers /\ m.pos \in 0..SeqLeave /\ m.set \in TxSets
    BY MessagesAssumption DEF TxSets
  <2>3. epoch[m.node] \in Nat
    BY <2>2 DEF Inv, TrustTyped
  <2>4. handling' \in Held /\ handling'.node = m.node /\ handling'.epoch = epoch[m.node]
    <3>1. /\ handling' \in Entries /\ handling'.node = m.node /\ handling'.epoch = epoch[m.node]
          /\ handling'.prev = m.prev /\ handling'.pos = m.pos /\ handling'.set = m.set
      BY <2>1, <2>2, <2>3 DEF Entries
    <3> QED
      BY <3>1 DEF Held
  <2>5. Steady => trusted = trustedSnapshot
    BY DEF Inv, TrustTyped, Steady
  <2> QED
    BY <1>1, <2>1, <2>4, <2>5 DEF Admissible
<1> QED
  BY <1>3, <1>4, <1>5 DEF Inv

LEMMA OnProposalAdmitInv ==
    ASSUME Facts, Inv, OnProposalAdmit
    PROVE  Inv'
<1>1. /\ eng' = AdmitProposal(eng, handling) /\ handling' = Nil
      /\ UNCHANGED <<pendingTrustPurge, trustVars>>
  BY DEF OnProposalAdmit
<1>2. Admissible(handling) /\ Sound(eng) /\ Fresh(eng, pendingTrustPurge)
  BY DEF OnProposalAdmit, Inv
<1>3. Sound(eng') /\ Fresh(eng', pendingTrustPurge)
  BY <1>1, <1>2, AdmitSound
<1>4. Sound(eng)' /\ Fresh(eng, pendingTrustPurge)'
  BY <1>1, <1>3 DEF Sound, Fresh, trustVars
<1>5. TrustTyped'
  BY <1>1 DEF Inv, TrustTyped, trustVars
<1> QED
  BY <1>1, <1>4, <1>5 DEF Inv

LEMMA AdaptorTrustInv ==
    ASSUME Inv, NEW T \in TrustChanges, AdaptorTrust(T)
    PROVE  Inv'
<1>1. /\ T # trusted /\ trusted' = T /\ callbackDue' = TRUE
      /\ UNCHANGED <<eng, handling, trustedSnapshot, pendingTrustPurge, epoch>>
  BY DEF AdaptorTrust
<1>2. ~Steady
  BY <1>1 DEF Inv, TrustTyped, Steady
<1>3. Sound(eng)' /\ Fresh(eng, pendingTrustPurge)'
  BY <1>1 DEF Inv, Sound, Fresh
<1>4. TrustTyped'
  BY <1>1 DEF Inv, TrustTyped
<1>5. (handling = Nil \/ Admissible(handling))'
  BY <1>1, <1>2 DEF Inv, Admissible, Steady
<1> QED
  BY <1>3, <1>4, <1>5 DEF Inv

\* recordTrustTransition: what a removal makes stale is what it adds to the
\* pending removals.
LEMMA TrustCallbackInv ==
    ASSUME Inv, TrustCallback
    PROVE  Inv'
<1> DEFINE removed == trustedSnapshot \ trusted
<1>1. /\ callbackDue' = FALSE /\ pendingTrustPurge' = pendingTrustPurge \cup removed
      /\ trustedSnapshot' = trusted
      /\ epoch' = [n \in Peers |-> epoch[n] + (IF n \in removed THEN 1 ELSE 0)]
      /\ UNCHANGED <<eng, handling, trusted>>
  BY DEF TrustCallback
<1>2. TrustTyped /\ Sound(eng) /\ Fresh(eng, pendingTrustPurge)
  BY DEF Inv
<1>3. /\ \A n \in Peers : epoch'[n] \in Nat
      /\ \A n \in Peers \ pendingTrustPurge' : epoch'[n] = epoch[n] /\ n \notin pendingTrustPurge
      /\ epoch' \in [Peers -> Nat]
  BY <1>1, <1>2, SMTT(30) DEF TrustTyped
<1>4. TrustTyped'
  <2>1. removed \subseteq Peers
    BY <1>2, MessagesAssumption DEF TrustTyped
  <2> QED
    BY <1>1, <1>2, <1>3, <2>1 DEF TrustTyped
<1>5. Steady => trustedSnapshot' = trustedSnapshot
  BY <1>1, <1>2 DEF TrustTyped, Steady
<1>6. Sound(eng)'
  BY <1>1, <1>2 DEF Sound, Steady
<1>7. Fresh(eng, pendingTrustPurge)'
  BY <1>1, <1>2, <1>3 DEF Fresh
<1>8. (handling = Nil \/ Admissible(handling))'
  <2> SUFFICES ASSUME Admissible(handling) PROVE Admissible(handling)'
    BY <1>1 DEF Inv
  <2>1. handling.node \in Peers
    BY DEF Admissible, Held, Entries
  <2> QED
    BY <1>1, <1>3, <1>5, <2>1 DEF Admissible, Steady
<1> QED
  BY <1>4, <1>6, <1>7, <1>8 DEF Inv

LEMMA InvStep ==
    ASSUME Facts, Inv, [Next]_vars
    PROVE  Inv'
<1>1. CASE UNCHANGED vars
  BY <1>1 DEF vars, Inv, Sound, Fresh, TrustTyped, Admissible
<1>2. CASE Tick
  BY <1>2, TickInv
<1>3. ASSUME NEW l \in Ledgers, Commit(l) \/ Switch(l) PROVE Inv'
  BY <1>3, CommitInv, SwitchInv
<1>4. CASE CommitFailed
  BY <1>4, CommitFailedInv
<1>5. ASSUME NEW m \in Messages, OnTxSet(m.set) PROVE Inv'
  BY <1>5, OnTxSetInv
<1>6. ASSUME NEW m \in Messages, OnProposalGate(m) PROVE Inv'
  BY <1>6, OnProposalGateInv
<1>7. CASE OnProposalAdmit
  BY <1>7, OnProposalAdmitInv
<1>8. ASSUME NEW T \in TrustChanges, AdaptorTrust(T) PROVE Inv'
  BY <1>8, AdaptorTrustInv
<1>9. CASE TrustCallback
  BY <1>9, TrustCallbackInv
<1> QED
  BY <1>1, <1>2, <1>3, <1>4, <1>5, <1>6, <1>7, <1>8, <1>9 DEF Next

-----------------------------------------------------------------------------
(* What the invariant says. *)

\* The exact tallies of the invariant are the ones TallyExact states.
LEMMA TallyHolds ==
    ASSUME Facts, Inv
    PROVE  TallyExact
<1> SUFFICES ASSUME NEW x \in DOMAIN eng.disputes
             PROVE  LET d == eng.disputes[x]
                    IN  /\ d.yays = Cardinality({n \in DOMAIN d.votes : d.votes[n]})
                        /\ d.nays = Cardinality({n \in DOMAIN d.votes : ~d.votes[n]})
  BY DEF TallyExact
<1> DEFINE d == eng.disputes[x]
<1>1. d \in Disputes /\ Exact(d)
  BY Fields DEF Inv, Sound, Sane, Counted
<1>2. \A n \in DOMAIN d.votes : d.votes[n] \in BOOLEAN
  BY <1>1, VoteSets
<1> HIDE DEF d
<1>3. /\ Cast(d, TRUE) = {n \in DOMAIN d.votes : d.votes[n]}
      /\ Cast(d, FALSE) = {n \in DOMAIN d.votes : ~d.votes[n]}
  BY <1>2 DEF Cast
<1> QED
  BY <1>1, <1>3 DEF Exact, d

\* Finiteness and cardinality spelled out, to tell that the operators of the library
\* are the ones of Facts.
Finite(S) == IsFiniteSet(S)
Size(S) == Cardinality(S)
Listed(S) == \E seq \in Seq(S) : \A s \in S : \E n \in 1..Len(seq) : seq[n] = s
Removals(S) ==
    LET CS[T \in SUBSET S] == IF T = {} THEN 0 ELSE 1 + CS[T \ {CHOOSE x : x \in T}]
    IN  CS[S]

\* The operators Facts uses are finiteness and cardinality.
LEMMA SizesAre == \A S : (Finite(S) <=> Listed(S)) /\ Size(S) = Removals(S)
BY DEF Finite, Size, IsFiniteSet, Cardinality, Listed, Removals

LOCAL INSTANCE FiniteSetTheorems
LOCAL INSTANCE InductionLemmas

\* The operators the library's theorems use are the same.
LEMMA LibrarySizes == \A S : (IsFiniteSet(S) <=> Finite(S)) /\ Cardinality(S) = Size(S)
<1>1. \A S : (IsFiniteSet(S) <=> Listed(S)) /\ Cardinality(S) = Removals(S)
  BY DEF IsFiniteSet, Cardinality, Listed, Removals
<1> QED
  BY <1>1, SizesAre

\* What the lemmas assume of finite sets and of sets of numbers holds.
LEMMA FactsHold == Facts
<1>1. \A T : Finite(T) =>
        /\ Size(T) \in Nat
        /\ \A S \in SUBSET T : Finite(S)
        /\ \A S : Size(T \ S) = Size(T) - Size(T \cap S)
  <2> SUFFICES ASSUME NEW T, IsFiniteSet(T)
               PROVE  /\ Cardinality(T) \in Nat
                      /\ \A S \in SUBSET T : IsFiniteSet(S)
                      /\ \A S : Cardinality(T \ S) = Cardinality(T) - Cardinality(T \cap S)
    BY LibrarySizes
  <2>1. Cardinality(T) \in Nat
    BY FS_CardinalityType
  <2>2. \A S \in SUBSET T : IsFiniteSet(S)
    BY FS_Subset
  <2>3. \A S : Cardinality(T \ S) = Cardinality(T) - Cardinality(T \cap S)
    BY FS_Difference
  <2> QED
    BY <2>1, <2>2, <2>3
<1>2. Finite({}) /\ Size({}) = 0
  BY FS_EmptySet, LibrarySizes
<1>3. \A S, T : Finite(S) /\ Finite(T) => Size(S \cup T) = Size(S) + Size(T) - Size(S \cap T)
  <2>1. ASSUME NEW S, NEW T, IsFiniteSet(S), IsFiniteSet(T)
        PROVE  Cardinality(S \cup T) = Cardinality(S) + Cardinality(T) - Cardinality(S \cap T)
    BY <2>1, FS_Union
  <2> QED
    BY <2>1, LibrarySizes
<1>4. \A T \in SUBSET Nat : T # {} => \E x \in T : \A y \in T : x <= y
  BY LeastNumber
<1>5. \A n \in Nat : \A T \in SUBSET (0..n) : T # {} => \E x \in T : \A y \in T : y <= x
  BY GreatestNumber
<1> QED
  BY <1>1, <1>2, <1>3, <1>4, <1>5 DEF Facts, Finite, Size

LEMMA InvCorrect == Spec => []Inv
<1>1. Inv /\ [Next]_vars => Inv'
  BY InvStep, FactsHold
<1> QED
  BY InvInit, <1>1, PTL DEF Spec

\* The engine's maps, buffers and trust views keep their types; the playback
\* buffer of a peer never outgrows recentProposalsPerNode (bufferRecent).
THEOREM TypeCorrect == Spec => []TypeOK
<1>1. Inv => TypeOK
  <2> SUFFICES ASSUME Inv PROVE TypeOK
    OBVIOUS
  <2>1. Sane(eng) /\ eng \in Engines /\ TrustTyped
    BY DEF Inv, Sound, Sane
  <2>2. \A x \in DOMAIN eng.disputes : IsDispute(eng.disputes[x])
    <3> SUFFICES ASSUME NEW x \in DOMAIN eng.disputes PROVE IsDispute(eng.disputes[x])
      OBVIOUS
    <3>1. eng.disputes[x] \in Disputes
      BY <2>1, Fields, FactsHold
    <3>2. /\ DOMAIN eng.disputes[x] = {"our", "votes", "yays", "nays"}
          /\ eng.disputes[x].our \in BOOLEAN /\ eng.disputes[x].yays \in Int
          /\ eng.disputes[x].nays \in Int
      BY <3>1 DEF Disputes
    <3> QED
      BY <3>1, <3>2, VoteSets, FactsHold DEF IsDispute
  <2>3. DOMAIN eng.recent = Peers /\ \A n \in Peers : /\ Len(eng.recent[n]) <= RecentPerNode
                        /\ \A i \in 1..Len(eng.recent[n]) : eng.recent[n][i] \in Entries
    <3>1. eng.recent \in [Peers -> Seq(Held)]
      BY <2>1, Fields, FactsHold
    <3>2. \A n \in Peers : eng.recent[n] \in Seq(Held)
      BY <3>1
    <3>3. \A S : \A q \in Seq(S) : \A i \in 1..Len(q) : q[i] \in S
      BY SMTT(30)
    <3>4. \A n \in Peers : \A i \in 1..Len(eng.recent[n]) : eng.recent[n][i] \in Held
      BY <3>2, <3>3
    <3>5. \A n \in Peers : \A i \in 1..Len(eng.recent[n]) : eng.recent[n][i] \in Entries
      BY <3>4 DEF Held
    <3>6. \A n \in Peers : Len(eng.recent[n]) <= RecentPerNode
      BY <2>1 DEF Sane
    <3>7. DOMAIN eng.recent = Peers
      BY <3>1
    <3> QED
      BY <3>5, <3>6, <3>7
  <2>4. trusted \subseteq Peers /\ trustedSnapshot \subseteq Peers
    BY <2>1, MessagesAssumption DEF TrustTyped
  <2>5. handling = Nil \/ handling \in Entries
    BY DEF Inv, Admissible, Held
  <2>6. /\ eng.phase \in Phases /\ eng.mode \in Modes /\ eng.prev \in Ledgers
        /\ eng.building \in BOOLEAN /\ eng.dead \subseteq Peers
        /\ DOMAIN eng.proposals \subseteq Peers
        /\ \A n \in DOMAIN eng.proposals :
              eng.proposals[n] \in Entries /\ eng.proposals[n].node = n
        /\ DOMAIN eng.disputes \subseteq Txs
        /\ \A s \in eng.acquired \cup eng.compares \cup eng.cache : s \in TxSets
        /\ eng.ours = Nil \/ eng.ours \in TxSets
        /\ eng.position = Nil \/ eng.position \in Positions
    BY <2>1, Fields, FactsHold DEF Sane, Held
  <2> QED
    BY <2>1, <2>2, <2>3, <2>4, <2>5, <2>6 DEF TypeOK, TrustTyped
<1> QED
  BY <1>1, InvCorrect, PTL

\* The running tallies of updateVoteCount and unVote are the counts of the
\* votes, whatever proposals, sets, bow-outs, prunings, purges, resets and
\* trust changes came in between.
THEOREM TallyCorrect == Spec => []TallyExact
<1>1. Inv => TallyExact
  BY TallyHolds, FactsHold
<1> QED
  BY <1>1, InvCorrect, PTL

\* Only peers with a current position vote, and no peer that bowed out of the
\* round has one: neither playback nor a late proposal revives it.
THEOREM LiveCorrect == Spec => []VotersLive
<1>1. Inv => VotersLive
  BY DEF Inv, Sound, Sane, Counted, VotersLive
<1> QED
  BY <1>1, InvCorrect, PTL

\* Our vote on every dispute is whether our set has the transaction, through
\* closeLedger, updatePosition and every reset.
THEOREM OursCorrect == Spec => []OurVoteMatchesSet
<1>1. Inv => OurVoteMatchesSet
  BY DEF Inv, Sound, Counted, OurVoteMatchesSet
<1> QED
  BY <1>1, InvCorrect, PTL

\* However trust callbacks and handlers interleave, a position from before its
\* peer's last removal is gone once the removal is applied, also from the
\* playback buffer: restored trust does not bring it back.
THEOREM ResurrectionCorrect == Spec => []NoResurrection
<1>1. Inv => NoResurrection
  <2> SUFFICES ASSUME Inv, NEW n \in Peers \ pendingTrustPurge
               PROVE  /\ n \in DOMAIN eng.proposals => eng.proposals[n].epoch = epoch[n]
                      /\ \A i \in DOMAIN eng.recent[n] : eng.recent[n][i].epoch = epoch[n]
    BY DEF NoResurrection
  <2>1. eng.recent[n] \in Seq(Held)
    BY Fields, FactsHold DEF Inv, Sound, Sane
  <2>2. DOMAIN eng.recent[n] = 1..Len(eng.recent[n])
    BY <2>1, SMTT(30)
  <2> QED
    BY <2>2 DEF Inv, Fresh
<1> QED
  BY <1>1, InvCorrect, PTL

\* Outside the wrong-ledger wait every position a round counts, and the one we
\* propose, is on the ledger the round extends, whatever switches are refused,
\* builds fail and trust comes and goes.
THEOREM ParentCorrect == Spec => []RoundOnParent
<1>1. Inv => RoundOnParent
  BY DEF Inv, Sound, OnParent, RoundOnParent
<1> QED
  BY <1>1, InvCorrect, PTL

\* A vote is never ahead of its peer's position, from a set we do not hold or
\* from another round: it was cast from a position the peer signed for this
\* parent and at or before the one it has.
THEOREM SignedCorrect == Spec => []VotesSigned
<1>1. Inv => VotesSigned
  BY DEF Inv, Sound, Counted, Voted, VoteSigned, VotesSigned
<1> QED
  BY <1>1, InvCorrect, PTL

\* While the validator lists stay as they are, every transaction on which a
\* peer's held set differs from ours is disputed: createDisputesAgainst's
\* compare cache never hides one.
THEOREM CompleteCorrect ==
    ASSUME Steady
    PROVE  Spec => []DisputesComplete
<1>1. Inv => DisputesComplete
  BY DEF Inv, Sound, Complete, DisputesComplete
<1> QED
  BY <1>1, InvCorrect, PTL

=============================================================================
