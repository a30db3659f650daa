---------------------------- MODULE MCScreening -----------------------------
(* Instances of Screening for TLC. *)
EXTENDS Screening, TLC

CONSTANTS u1, t1, t2, a1, a2, p1, p2

AuthorOf == [p \in Posters |-> u1]

Symmetry == Permutations(Admins) \cup Permutations(Terms) \cup Permutations(Posters)
=============================================================================
