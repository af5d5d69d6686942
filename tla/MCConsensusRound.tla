-------------------------- MODULE MCConsensusRound --------------------------
(* Small instances of ConsensusRound for TLC. *)
EXTENDS ConsensusRound

CONSTANTS p, q, a, b, l0, l1

Proposal(n, l, i, s) == [node |-> n, prev |-> l, pos |-> i, set |-> s]

\* One peer revises its position, the other holds one and bows out.
RoundMessages ==
    {Proposal(p, l0, 0, {a}), Proposal(p, l0, 1, {b}),
     Proposal(q, l0, 0, {b}), Proposal(q, l0, 3, {b})}

\* Two peers, one of which may lose or gain trust and holds different
\* positions on the two ledgers.
TrustMessages ==
    {Proposal(p, l0, 0, {a}), Proposal(p, l1, 0, {}), Proposal(q, l0, 0, {})}

AllTrusted == {{p, q}}

TrustViews == {{p, q}, {q}}

Closing == {{a}, {}}

ClosingFull == {{a}}
=============================================================================
