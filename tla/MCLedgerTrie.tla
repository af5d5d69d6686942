---------------------------- MODULE MCLedgerTrie ----------------------------
(* Small ledger trees for the ancestry trie.                               *)
EXTENDS LedgerTrie

\* 1 - 2 - 4 - 6      a trunk that forks at sequences 2 and 3
\*   \   \ 5
\*    3 - 7
ForkHistory ==
    << <<1>>, <<1, 2>>, <<1, 3>>, <<1, 2, 4>>, <<1, 2, 5>>, <<1, 2, 4, 6>>, <<1, 3, 7>> >>

ValidatorSymmetry == Permutations(Validators)
=============================================================================
