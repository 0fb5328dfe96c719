------------------------------- MODULE Additions -------------------------------
(***************************************************************************)
(* Catalog with two history variables that follow each SKU's addition, to  *)
(* tell which SKUs a later save may drop without having been asked to.     *)
(* They restrict nothing: a step is a step of Catalog.                     *)
(***************************************************************************)
EXTENDS Catalog

VARIABLES
  met,   \* met[r]: has another request on its product been under way beside r?
  clean  \* clean[p]: the SKUs of p whose addition met nobody and left no stale cache entry

additionsVars == <<vars, met, clean>>

AdditionsInit ==
  /\ Init
  /\ met = [r \in Request |-> FALSE]
  /\ clean = [p \in Product |-> Skus(Seed[p])]

Adds(c) == c.op = "create" \/ (c.op = "sku" /\ c.new)

Beside(r) == \E q \in Request \ {r} : InFlight(q) /\ call[q].product = call[r].product

(* The transaction that adds a SKU has committed, and the request goes on to the next step. *)
Added(r) == pc[r] = "committed" /\ pc'[r] # "committed" /\ Adds(call[r])

CleanlyAdded(p) ==
  {call[r].sku : r \in {q \in Request : Added(q) /\ call[q].product = p /\ ~met[q]}}

Track ==
  /\ met' = [r \in Request |-> InFlight(r)' /\ (met[r] \/ Beside(r)')]
  /\ clean' = [p \in Product |->
                IF cache'[p] = Absent THEN clean[p] \union CleanlyAdded(p) ELSE clean[p]]

AdditionsNext == Next /\ Track

AdditionsSpec == AdditionsInit /\ [][AdditionsNext]_additionsVars
--------------------------------------------------------------------------------
(* Inventory rows, and the reservations of orders with them, go only with their product: save *)
(* deletes the SKUs it was not given, and no route ever asks it to.  That is so for every SKU  *)
(* whose own addition met no other request on the product, a GET included, and left no entry   *)
(* in the cache, whatever overlaps or fails before or after.  A SKU whose addition met another  *)
(* request, or did not evict, is missing from a copy that somebody may write back whole.       *)
StockGoesWithItsProduct ==
  [][\A p \in Product :
       row'[p] # Absent => stocked[p] \intersect clean[p] \subseteq stocked'[p]]_additionsVars
================================================================================
