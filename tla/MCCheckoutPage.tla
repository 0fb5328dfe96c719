----------------------------- MODULE MCCheckoutPage -----------------------------
(* Small instances of CheckoutPage for TLC. *)
EXTENDS CheckoutPage, TLC

CONSTANTS o1, o2, o3, t1, t2

Symmetric == Permutations(Order) \union Permutations(Tab)
================================================================================
