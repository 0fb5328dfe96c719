------------------------------- MODULE MCCatalog -------------------------------
(* A small instance of Catalog for TLC, with the history of its SKUs. *)
EXTENDS Additions

CONSTANTS p1, s1, s2, usd, vnd, q1, q2

(* Nothing has been seeded. *)
Empty == [p \in Product |-> [active |-> FALSE, prices |-> [s \in Sku |-> {}]]]
================================================================================
