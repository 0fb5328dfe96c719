----------------------------- MODULE OrderLifecycle -----------------------------
(***************************************************************************)
(* The life of an order as its aggregate promises it (domain/order-status  *)
(* and domain/order.entity), seen from the orders table: what the row's    *)
(* status may become, and that only a paid order is confirmed.  OrderSaga  *)
(* is shown to implement it, whatever the interleaving of its handlers.    *)
(***************************************************************************)
CONSTANT Order

VARIABLES
  status,  \* status[o]: the row's status, "NONE" while there is no row
  paid     \* orders whose PaymentIntent Stripe reported as succeeded

lifecycleVars == <<status, paid>>

Status ==
  {"PENDING", "INVENTORY_RESERVED", "PAYMENT_PENDING", "CONFIRMED", "SHIPPED",
   "DELIVERED", "CANCELLED"}

VALID_TRANSITIONS ==
  [PENDING            |-> {"INVENTORY_RESERVED", "CANCELLED"},
   INVENTORY_RESERVED |-> {"PAYMENT_PENDING", "CANCELLED"},
   PAYMENT_PENDING    |-> {"CONFIRMED", "CANCELLED"},
   CONFIRMED          |-> {"SHIPPED", "CANCELLED"},
   SHIPPED            |-> {"DELIVERED"},
   DELIVERED          |-> {},
   CANCELLED          |-> {}]

CanTransition(from, to) == from \in Status /\ to \in VALID_TRANSITIONS[from]

Init ==
  /\ status = [o \in Order |-> "NONE"]
  /\ paid = {}

(* Checkout saves the row once: waiting for its payment, or already cancelled. *)
Place(o) ==
  /\ status[o] = "NONE"
  /\ \E s \in {"PAYMENT_PENDING", "CANCELLED"} : status' = [status EXCEPT ![o] = s]
  /\ UNCHANGED paid

Pay(o) ==
  /\ status[o] # "NONE"
  /\ paid' = paid \union {o}
  /\ UNCHANGED status

MoveTo(o, to) ==
  /\ CanTransition(status[o], to)
  /\ to = "CONFIRMED" => o \in paid
  /\ status' = [status EXCEPT ![o] = to]
  /\ UNCHANGED paid

Next ==
  \E o \in Order : Place(o) \/ Pay(o) \/ \E to \in Status : MoveTo(o, to)

Spec == Init /\ [][Next]_lifecycleVars
================================================================================
