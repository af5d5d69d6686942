---------------------------- MODULE MCFlagLedger ----------------------------
(* Three validators, two or three of them trusted, over four flag ledgers.   *)
EXTENDS FlagLedger, TLC

\* The validators other than Self are never told apart.
Symmetry == Permutations(Validators \ {Self})
=============================================================================
