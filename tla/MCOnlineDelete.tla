--------------------------- MODULE MCOnlineDelete ---------------------------
(***************************************************************************)
(* Instances of OnlineDelete: two state trees that share one node.         *)
(***************************************************************************)
EXTENDS OnlineDelete, TLC

CONSTANTS a, b, c   \* nodes

MCTrees == {{a, b}, {a, c}}

\* The trees are exchanged when b and c are.
Symmetry == Permutations({b, c})

=============================================================================
