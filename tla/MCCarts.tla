-------------------------------- MODULE MCCarts ---------------------------------
(* Small instances of Carts for TLC. *)
EXTENDS Carts, TLC

CONSTANTS alice, guest1, usd, vnd, sku1, q1, q2

Symmetric == Permutations(Request) \union Permutations(Currency)
================================================================================
