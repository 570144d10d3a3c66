-------------------------------- MODULE MCBills --------------------------------
(* Bounded instances of Bills. *)
EXTENDS Bills

Symmetry == Permutations(BillIds)
================================================================================
