------------------------------- MODULE MCSessions -------------------------------
(* Bounded instances of Sessions. *)
EXTENDS Sessions, TLC

Symmetry == Permutations(Tokens) \cup Permutations(Requests) \cup Permutations(Passwords)
================================================================================
