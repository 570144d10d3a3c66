------------------------------- MODULE MCInvoices -------------------------------
(* Bounded instances of Invoices. *)
EXTENDS Invoices, TLC

Symmetry == Permutations(Ids) \cup Permutations(Requests)
================================================================================
