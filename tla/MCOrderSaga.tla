------------------------------ MODULE MCOrderSaga ------------------------------
(* Small instances of OrderSaga for TLC. *)
EXTENDS OrderSaga, TLC

CONSTANTS o1, o2, k, c1, c2, a1

(* One order: every interleaving of its own handlers. *)
OneStock == k :> 1
OneLines == o1 :> (k :> 1)

(* Two orders, the second too large for the stock. *)
TwoLines == (o1 :> (k :> 1)) @@ (o2 :> (k :> 2))

Handlers == Permutations({c1, c2})
================================================================================
