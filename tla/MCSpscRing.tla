----------------------------- MODULE MCSpscRing -----------------------------
(* SpscRing on small rings for TLC. *)
EXTENDS SpscRing, TLC

Symmetry == Permutations(Byte)

=============================================================================
