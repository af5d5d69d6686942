------------------------- MODULE MCPreferredRecovery -------------------------
(* A small tree of ledgers: two forks above the root, one of them extended. *)
EXTENDS PreferredRecovery, TLC

CONSTANTS g, a, b, c

MCLedgers == {g, a, b, c}

MCParent == g :> Nil @@ a :> g @@ b :> g @@ c :> b

MCHeld == {g, a, b}

=============================================================================
