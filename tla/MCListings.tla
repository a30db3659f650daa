----------------------------- MODULE MCListings -----------------------------
(* Instances of Listings for TLC. *)
EXTENDS Listings, TLC

CONSTANTS o1, o2, c1, q1, q2, d1

Symmetry == Permutations(Slots) \cup Permutations({o1, o2})
=============================================================================
