------------------------------- MODULE MCTcp -------------------------------
(* Instances of Tcp for TLC. *)
EXTENDS Tcp

(* RST is never looked at: a segment with it is handled as one without.    *)
MCFlagSets == {{"SYN"}, {"SYN", "ACK"}, {"ACK"}, {"FIN", "ACK"}}

PeerSymmetry == Permutations(Peers)
=============================================================================
