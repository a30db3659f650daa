------------------------------- MODULE MCKeys -------------------------------
(* Instances of Keys for TLC. *)
EXTENDS Keys, TLC

CONSTANTS k1, k2, a1, a2, c1

Symmetry == Permutations(Admins)
=============================================================================
