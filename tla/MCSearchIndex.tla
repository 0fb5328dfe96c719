----------------------------- MODULE MCSearchIndex -----------------------------
(* Small instances of SearchIndex for TLC. *)
EXTENDS SearchIndex, TLC

CONSTANTS s1, usd, vnd, q1, q2, h1, h2, j1, j2

(* The products are there, priced in both currencies, and their events are on the way. *)
Seeded == [p \in Product |-> [active |-> TRUE, prices |-> [s \in Sku |-> Currency]]]

(* The first product may be deleted or lose a price, every product may be deactivated. *)
Edits ==
  [op : {"update"}, product : Product, active : {{FALSE}}]
  \union [op : {"delete"}, product : {1}]
  \union [op : {"sku"}, product : {1}, sku : Sku, new : {FALSE}, stock : {FALSE}, prices : {{usd}}]

(* The history p's catalog row and events have before any call. *)
Untouched(p) ==
  /\ row[p] = Seed[p]
  /\ events[p].UPSERT = 1
  /\ \A h \in Handler : of[h] # p

(* A bound: a failure is met by the first product alone, deleted or not; a second reindex,
   with or without a failure, by the seeded catalog: what it leaves of an edit in the index no
   property asks, and the alias does not depend on the products. *)
Within ==
  /\ overlap => calls = 0
  /\ (overlap \/ faults > 0) =>
       /\ \A p \in Product \ {1} : Untouched(p)
       /\ row[1] \in {Seed[1], Absent}
       /\ \A r \in Request : call[r].op \in {"none", "delete"}

(* A bound: two requests change the first product alone, and delete it or save its SKU, while
   nothing fails and nobody reindexes. *)
Changed == calls > 1 =>
  /\ faults = 0 /\ index \subseteq {1} /\ \A j \in Job : ~Running(j)
  /\ \A p \in Product \ {1} : Untouched(p)
  /\ \A r \in Request : call[r].op \in {"none", "delete", "sku"}

Symmetric == Permutations(Request) \union Permutations(Handler) \union Permutations(Job)
================================================================================
