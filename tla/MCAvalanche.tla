---------------------------- MODULE MCAvalanche ----------------------------
(* Avalanche with interchangeable peers, for TLC. *)
EXTENDS Avalanche, TLC

PeerSymmetry == Permutations(Peers)
=============================================================================
