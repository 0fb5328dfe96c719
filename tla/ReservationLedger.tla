--------------------------- MODULE ReservationLedger ---------------------------
(***************************************************************************)
(* What the catalog service promises about stock, whatever it does inside: *)
(* a reservation of an order takes all of its lines at once or nothing, a  *)
(* release gives all of them back, and an order holds at most one          *)
(* reservation.  Inventory shows how the catalog's transactions implement  *)
(* this; OrderSaga uses it as the catalog it calls.                        *)
(***************************************************************************)
EXTENDS Integers

CONSTANTS
  Order,   \* order ids
  Sku,     \* stock keeping units
  Stock,   \* Stock[s]: units of s before anything is reserved
  Lines    \* Lines[o][s]: units of s that o asks for, 0 when s is not in o

VARIABLES
  free,    \* free[s]: units of s that no order holds
  held     \* orders holding a reservation

ledgerVars == <<free, held>>

Covers(o) == \A s \in Sku : Lines[o][s] <= free[s]

Init ==
  /\ free = Stock
  /\ held = {}

Reserve(o) ==
  /\ o \notin held
  /\ Covers(o)
  /\ free' = [s \in Sku |-> free[s] - Lines[o][s]]
  /\ held' = held \union {o}

Release(o) ==
  /\ o \in held
  /\ free' = [s \in Sku |-> free[s] + Lines[o][s]]
  /\ held' = held \ {o}

Next == \E o \in Order : Reserve(o) \/ Release(o)

Spec == Init /\ [][Next]_ledgerVars
================================================================================
