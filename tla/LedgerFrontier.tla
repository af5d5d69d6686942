--------------------------- MODULE LedgerFrontier ---------------------------
(***************************************************************************)
(* What the engine and the ledger service promise together about the       *)
(* ledger the node works on: the round's parent and the service's closed   *)
(* ledger move in one step to a ledger that extends the validated one, or  *)
(* one after the other in the few ways below, not all of which ask for     *)
(* that, and a switch in place excludes every other move.                  *)
(***************************************************************************)
EXTENDS LedgerTree

VARIABLES
    parent,     \* the ledger the engine's round builds on
    frontier,   \* the closed ledger of the service
    validated,  \* the validated ledger
    moving      \* a switch in place: the parent it falls back to

vars == <<parent, frontier, validated, moving>>

Still == "still"

Extends(l) == validated \in Anc[l]

\* Ahead of the validated ledger, or that ledger itself.
Ahead(l) == Seq(l) > Seq(validated) \/ l = validated

\* At or above the validated ledger's sequence without extending it.
Conflict(l) == validated # Root /\ Seq(l) >= Seq(validated) /\ ~Extends(l)

Init ==
    /\ parent = Root /\ frontier = Root /\ validated = Root /\ moving = Still

\* Both move at once to a ledger that extends the validated one.
Adopt(l) ==
    /\ moving = Still
    /\ parent' = l /\ frontier' = l
    /\ UNCHANGED <<validated, moving>>
    /\ Extends(l)

\* The node's own ledger is published on the parent both agree on.
Close(l) ==
    /\ moving = Still /\ parent = frontier
    /\ frontier' = l
    /\ UNCHANGED <<parent, validated, moving>>
    /\ Parent[l] = frontier /\ ~Conflict(l)

\* The round follows the closed ledger, or the preferred one instead of it: that
\* one is not older than the validated ledger, but nothing tests that it extends it.
Follow(l) ==
    /\ moving = Still
    /\ parent' = l
    /\ UNCHANGED <<frontier, validated, moving>>
    /\ l = frontier \/ Seq(l) >= Seq(validated)

\* A switch in place: the parent first, the closed ledger after it.
Begin(l) ==
    /\ moving = Still
    /\ parent' = l /\ moving' \in {l, parent}
    /\ UNCHANGED <<frontier, validated>>
    /\ Extends(l)

Settle ==
    /\ moving # Still
    /\ frontier' = parent /\ moving' = Still
    /\ UNCHANGED <<parent, validated>>
    /\ Ahead(parent)

GiveUp ==
    /\ moving # Still
    /\ parent' = moving /\ moving' = Still
    /\ UNCHANGED <<frontier, validated>>

Validate(l) ==
    /\ validated' = l
    /\ UNCHANGED <<parent, frontier, moving>>
    /\ Extends(l)

Next ==
    \/ \E l \in Ledgers :
           Adopt(l) \/ Close(l) \/ Follow(l) \/ Begin(l) \/ Validate(l)
    \/ Settle \/ GiveUp

Spec == Init /\ [][Next]_vars

=============================================================================
