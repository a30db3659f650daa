---------------------------- MODULE MCDataExport ----------------------------
(* Instances of DataExport for TLC. *)
EXTENDS DataExport

CONSTANTS u1, u2, r1, r2
=============================================================================
