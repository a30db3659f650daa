------------------------------ MODULE MCIngest ------------------------------
(* Model values and symmetry for the ingest runner.                         *)
EXTENDS Ingest, TLC

CONSTANTS x1, x2, r1, r2

Symmetry == Permutations({x1, x2}) \cup Permutations({r1, r2})
=============================================================================
