---------------------------- MODULE MCArpCache ----------------------------
(* Instances of ArpCache for TLC. *)
EXTENDS ArpCache

NeighbourSymmetry == Permutations(Neighbours)
=============================================================================
