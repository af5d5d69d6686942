---------------------------- MODULE MCCloseTime ----------------------------
(* Three proposers that see their ledgers close at times that round to two   *)
(* or three different ones; with one fault unless all three are different.   *)
EXTENDS CloseTime, TLC

MCInit == Init /\ (Cardinality({own[n] : n \in Nodes}) = 3 => faults = MaxFaults)
MCSpec == MCInit /\ [][Next]_vars

\* Nodes are never told apart, and no liveness is checked.
Symmetry == Permutations(Nodes)
=============================================================================
