---------------------------- MODULE MCLakehouse ----------------------------
(* Model values and functions for the lakehouse.                            *)
EXTENDS Lakehouse

CONSTANTS f1, f2, s1, s2, j1, h1

MCSourceOf == [f \in {f1, f2} |-> IF f = f1 THEN s1 ELSE s2]
MCCovers   == [h \in {h1} |-> {s1, j1}]
=============================================================================
