------------------------------ MODULE MCAuth ------------------------------
(* Symmetric goroutines and sessions for Auth.                              *)
EXTENDS Auth, TLC

Symmetry == Permutations(Logins) \cup Permutations(Requests) \cup Permutations(Sessions)
=============================================================================
