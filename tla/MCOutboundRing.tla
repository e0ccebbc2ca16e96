---------------------------- MODULE MCOutboundRing ----------------------------
(* OutboundRing for TLC. *)
EXTENDS OutboundRing, TLC

CONSTANTS k1, k2

\* Callis ids are stamped and compared for equality, never ordered.
Symmetry == Permutations(Callis)
=============================================================================
