------------------------- MODULE MCAccountDeletion -------------------------
(* Instances of AccountDeletion for TLC. *)
EXTENDS AccountDeletion

CONSTANTS u1, u2, r1, r2
=============================================================================
