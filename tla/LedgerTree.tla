----------------------------- MODULE LedgerTree -----------------------------
(***************************************************************************)
(* The tree of ledgers: a header names its parent, and its sequence is one *)
(* more than its parent's.                                                 *)
(***************************************************************************)
EXTENDS Naturals, FiniteSets

CONSTANTS
    Ledgers,    \* the ledgers of the instance
    Root,       \* the ledger every node starts from
    Parent,     \* the parent of each ledger, Nil for Root
    Nil

\* A finite tree: every ledger but the root has a parent one sequence below.
ASSUME TreeAssumption ==
    /\ IsFiniteSet(Ledgers) /\ Root \in Ledgers /\ Nil \notin Ledgers
    /\ Parent \in [Ledgers -> Ledgers \cup {Nil}]
    /\ \E depth \in [Ledgers -> 1..Cardinality(Ledgers)] :
           \A l \in Ledgers \ {Root} :
               Parent[l] \in Ledgers /\ depth[l] = depth[Parent[l]] + 1

\* A ledger and the ledgers below it.
Anc[l \in Ledgers] == {l} \cup (IF l = Root THEN {} ELSE Anc[Parent[l]])

Seq(l) == Cardinality(Anc[l])

=============================================================================
