----------------------------- MODULE MCUploads ------------------------------
(* Instances of Uploads for TLC. *)
EXTENDS Uploads, TLC

CONSTANTS ticket, review, r1, r2, d1, d2

Symmetry == Permutations(Requests) \cup Permutations(Deleters)
=============================================================================
