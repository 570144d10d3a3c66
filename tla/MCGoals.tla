-------------------------------- MODULE MCGoals --------------------------------
(* Bounded instances of Goals. *)
EXTENDS Goals

Symmetry == Permutations(Requests)
================================================================================
