----------------------------- MODULE MCSubscription -----------------------------
(* A bounded instance of Subscription. *)
EXTENDS Subscription, TLC

Symmetry == Permutations(Readers)
================================================================================
