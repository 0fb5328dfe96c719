------------------------------ MODULE CheckoutPage ------------------------------
(***************************************************************************)
(* The checkout of the storefront over the life of an order: what a         *)
(* customer's tabs do with the cart, POST /checkout, the client secret and  *)
(* Stripe, while the server moves orders on as OrderLifecycle allows; that  *)
(* the sagas of the order service do no more is shown in OrderSaga.         *)
(*                                                                         *)
(* A tab keeps the secret of its order in sessionStorage.  A tab that is    *)
(* left or closed takes no request back: the server finishes what it began. *)
(***************************************************************************)
EXTENDS OrderLifecycle, Naturals, FiniteSets

CONSTANTS
  Tab,           \* tabs of one customer
  NoOrder,
  MaxBaskets,    \* bound: times the customer fills the cart
  MaxAccidents   \* bound: tabs left in the middle, and checkouts that fail

ASSUME CheckoutPageAssumption ==
  NoOrder \notin Order /\ MaxBaskets \in Nat /\ MaxAccidents \in Nat

VARIABLES
  cart,       \* the filling the server's cart holds; 0 when it is empty
  fillings,   \* fillings so far
  of,         \* of[o]: the filling order o was made of
  page,       \* page[t]: what tab t shows
  at,         \* at[t]: the order whose payment form t shows
  stored,     \* stored[t]: orders with a stripe:cs: key in the sessionStorage of t
  req,        \* req[t]: where the last POST /checkout of t is
  read,       \* read[t]: the filling it read
  made,       \* made[t]: the order it saved
  raced,      \* fillings that two checkouts had read at once
  accidents

serverVars == <<lifecycleVars, cart, fillings, of>>
tabVars == <<page, at, stored>>
requestVars == <<req, read, made>>
vars == <<serverVars, tabVars, requestVars, raced, accidents>>

Showing(t, p) == page' = [page EXCEPT ![t] = p]
Accident == accidents < MaxAccidents /\ accidents' = accidents + 1

PageInit ==
  /\ Init
  /\ cart = 0 /\ fillings = 0
  /\ of = [o \in Order |-> 0]
  /\ page = [t \in Tab |-> "elsewhere"]
  /\ at = [t \in Tab |-> NoOrder]
  /\ stored = [t \in Tab |-> {}]
  /\ req = [t \in Tab |-> "none"]
  /\ read = [t \in Tab |-> 0]
  /\ made = [t \in Tab |-> NoOrder]
  /\ raced = {}
  /\ accidents = 0

(* The customer puts something into an empty cart. *)
FillCart ==
  /\ cart = 0
  /\ fillings < MaxBaskets /\ fillings' = fillings + 1
  /\ cart' = fillings'
  /\ UNCHANGED <<lifecycleVars, of, tabVars, requestVars, raced, accidents>>

(* Payment results, admins and the cron: whatever the life of an order allows. *)
ServerMoves ==
  /\ \E o \in Order, to \in Status : MoveTo(o, to)
  /\ UNCHANGED <<cart, fillings, of, tabVars, requestVars, raced, accidents>>
--------------------------------------------------------------------------------
(* CheckoutForm and useCheckoutClientSecret. *)

(* Statuses in which a persisted checkout is shown again; no order ever has one of them. *)
REUSABLE_STATUSES == {"PENDING_PAYMENT", "CHECKOUT"}

Mount(t) ==
  /\ page[t] = "elsewhere"
  /\ Showing(t, "probing")
  /\ UNCHANGED <<serverVars, at, stored, requestVars, raced, accidents>>

(* restoreCheckoutSession, once per mount: nothing stored, or no access token yet; or the *)
(* first key found, whose order is asked for, and dropped when that fails.                *)
Probe(t) ==
  /\ page[t] = "probing"
  /\ \/ Showing(t, "form") /\ UNCHANGED <<at, stored>>
     \/ \E o \in stored[t] :
          IF status[o] \in REUSABLE_STATUSES
          THEN Showing(t, "payment") /\ at' = [at EXCEPT ![t] = o] /\ UNCHANGED stored
          ELSE Showing(t, "form") /\ stored' = [stored EXCEPT ![t] = @ \ {o}] /\ UNCHANGED at
  /\ UNCHANGED <<serverVars, requestVars, raced, accidents>>

Submit(t) ==
  /\ page[t] = "form" /\ req[t] = "none"
  /\ Showing(t, "submitting")
  /\ req' = [req EXCEPT ![t] = "sent"]
  /\ UNCHANGED <<serverVars, at, stored, read, made, raced, accidents>>

(* saveSession, then the payment form; or the error under the address. *)
Answer(t) ==
  /\ page[t] = "submitting" /\ req[t] \in {"done", "refused"}
  /\ IF req[t] = "done"
     THEN /\ Showing(t, "payment")
          /\ at' = [at EXCEPT ![t] = made[t]]
          /\ stored' = [stored EXCEPT ![t] = @ \union {made[t]}]
     ELSE Showing(t, "form") /\ UNCHANGED <<at, stored>>
  /\ req' = [req EXCEPT ![t] = "none"]
  /\ read' = [read EXCEPT ![t] = 0]
  /\ made' = [made EXCEPT ![t] = NoOrder]
  /\ UNCHANGED <<serverVars, raced, accidents>>

(* Nobody waits for the answer any more. *)
Unheard(t) ==
  /\ page[t] # "submitting" /\ req[t] \in {"done", "refused"}
  /\ req' = [req EXCEPT ![t] = "none"]
  /\ read' = [read EXCEPT ![t] = 0]
  /\ made' = [made EXCEPT ![t] = NoOrder]
  /\ UNCHANGED <<serverVars, tabVars, raced, accidents>>
--------------------------------------------------------------------------------
(* POST /checkout: the cart, the order and the cart again, as Carts and OrderSaga have them. *)

ReadCart(t) ==
  /\ req[t] = "sent"
  /\ req' = [req EXCEPT ![t] = IF cart = 0 THEN "refused" ELSE "read"]
  /\ read' = [read EXCEPT ![t] = cart]
  /\ raced' = IF \E u \in Tab : req[u] \in {"read", "saved"} /\ read[u] = cart
              THEN raced \union {cart} ELSE raced
  /\ UNCHANGED <<serverVars, tabVars, made, accidents>>

(* The order is saved to wait for its payment, or cancelled when the stock or Stripe refuse it. *)
SaveOrder(t) ==
  /\ req[t] = "read"
  /\ \E o \in Order :
       /\ Place(o)
       /\ of' = [of EXCEPT ![o] = read[t]]
       /\ made' = [made EXCEPT ![t] = IF status'[o] = "CANCELLED" THEN NoOrder ELSE o]
       /\ req' = [req EXCEPT ![t] = IF status'[o] = "CANCELLED" THEN "refused" ELSE "saved"]
  /\ UNCHANGED <<cart, fillings, tabVars, read, raced, accidents>>

(* Mutant: the cart is left to the page, which resets its own copy only. *)
DeleteCartNot(t) ==
  /\ req[t] = "saved"
  /\ req' = [req EXCEPT ![t] = "done"]
  /\ UNCHANGED <<serverVars, tabVars, read, made, raced, accidents>>

DeleteCart(t) ==
  /\ req[t] = "saved"
  /\ cart' = 0
  /\ req' = [req EXCEPT ![t] = "done"]
  /\ UNCHANGED <<lifecycleVars, fillings, of, tabVars, read, made, raced, accidents>>

(* A command of the checkout throws, or its process dies: the client gets an error. *)
CheckoutFails(t) ==
  /\ req[t] \in {"sent", "read", "saved"} /\ Accident
  /\ req' = [req EXCEPT ![t] = "refused"]
  /\ made' = [made EXCEPT ![t] = NoOrder]
  /\ UNCHANGED <<serverVars, tabVars, read, raced>>
--------------------------------------------------------------------------------
(* CheckoutPayment. *)

Payable(t) == page[t] \in {"payment", "failed"}

(* Stripe takes a payment once, whatever has become of the order meanwhile. *)
ConfirmPayment(t) ==
  /\ Payable(t)
  /\ at[t] \notin paid
  /\ Pay(at[t])
  /\ Showing(t, "accepted")
  /\ UNCHANGED <<cart, fillings, of, at, stored, requestVars, raced, accidents>>

(* Mutant: a declined payment starts the checkout over. *)
ConfirmFailsForm(t) ==
  /\ Payable(t)
  /\ Showing(t, "form")
  /\ at' = [at EXCEPT ![t] = NoOrder]
  /\ UNCHANGED <<serverVars, stored, requestVars, raced, accidents>>

(* A declined payment, or one Stripe has already: the form stays, with its error. *)
ConfirmFails(t) ==
  /\ Payable(t)
  /\ Showing(t, "failed")
  /\ UNCHANGED <<serverVars, at, stored, requestVars, raced, accidents>>

(* onPaymentSuccess = clearSession, and the first poll. *)
StartPolling(t) ==
  /\ page[t] = "accepted"
  /\ stored' = [stored EXCEPT ![t] = @ \ {at[t]}]
  /\ Showing(t, "polling")
  /\ UNCHANGED <<serverVars, at, requestVars, raced, accidents>>

(* GET /orders/:id ended with a terminal status: /orders/:id?paid=1, or an error above the form. *)
Poll(t) ==
  /\ page[t] = "polling"
  /\ status[at[t]] \in {"CONFIRMED", "CANCELLED"}
  /\ Showing(t, IF status[at[t]] = "CONFIRMED" THEN "thanks" ELSE "failed")
  /\ UNCHANGED <<serverVars, at, stored, requestVars, raced, accidents>>

(* POLL_TIMEOUT_MS: the page of the order, whatever its status. *)
PollTimesOut(t) ==
  /\ page[t] = "polling"
  /\ Showing(t, "order")
  /\ UNCHANGED <<serverVars, at, stored, requestVars, raced, accidents>>

(* Nothing is lost with these pages; without an access token, Submit leaves for the login. *)
Finished(t) == page[t] \in {"form", "thanks", "order"}

Away(t) == Showing(t, "elsewhere") /\ at' = [at EXCEPT ![t] = NoOrder]

Continue(t) ==
  /\ Finished(t)
  /\ Away(t)
  /\ UNCHANGED <<serverVars, stored, requestVars, raced, accidents>>

(* The customer reloads the page or goes elsewhere; a tab that is closed loses its storage. *)
Leave(t) ==
  /\ page[t] # "elsewhere" /\ ~Finished(t) /\ Accident
  /\ Away(t)
  /\ \/ UNCHANGED stored
     \/ stored' = [stored EXCEPT ![t] = {}]
  /\ UNCHANGED <<serverVars, requestVars, raced>>

PageNext ==
  \/ FillCart \/ ServerMoves
  \/ \E t \in Tab :
       \/ Mount(t) \/ Probe(t) \/ Submit(t) \/ Answer(t) \/ Unheard(t)
       \/ ReadCart(t) \/ SaveOrder(t) \/ DeleteCart(t) \/ CheckoutFails(t)
       \/ ConfirmPayment(t) \/ ConfirmFails(t) \/ StartPolling(t) \/ Poll(t) \/ PollTimesOut(t)
       \/ Continue(t) \/ Leave(t)

PageSpec == PageInit /\ [][PageNext]_vars
--------------------------------------------------------------------------------
(* Type correctness: a tab has an order from its answer to the end of its payment, and a *)
(* request an order from its save to its answer.                                         *)
PageTypeOK ==
  /\ status \in [Order -> Status \union {"NONE"}] /\ paid \subseteq Order
  /\ fillings \in 0..MaxBaskets /\ cart \in 0..fillings
  /\ of \in [Order -> 0..fillings] /\ \A o \in Order : status[o] = "NONE" <=> of[o] = 0
  /\ page \in [Tab -> {"elsewhere", "probing", "form", "submitting", "payment", "failed",
                       "accepted", "polling", "thanks", "order"}]
  /\ at \in [Tab -> Order \union {NoOrder}]
  /\ \A t \in Tab : at[t] = NoOrder <=> page[t] \in {"elsewhere", "probing", "form", "submitting"}
  /\ stored \in [Tab -> SUBSET Order]
  /\ req \in [Tab -> {"none", "sent", "read", "saved", "done", "refused"}]
  /\ read \in [Tab -> 0..fillings]
  /\ made \in [Tab -> Order \union {NoOrder}]
  /\ \A t \in Tab : made[t] = NoOrder <=> req[t] \notin {"saved", "done"}
  /\ raced \subseteq 0..fillings /\ accidents \in 0..MaxAccidents

(* A customer pays once for what was in the cart, in whichever tabs, with whatever reloads,    *)
(* failed requests and repeated submits, unless two checkouts read the cart at once: the       *)
(* secret is answered after the cart is gone.                                                  *)
CartIsPaidOnce ==
  \A o, p \in paid : o # p /\ of[o] = of[p] => of[o] \in raced

(* An order that waits for a payment nobody can make any more, its secret with no tab and no   *)
(* request that will be answered.                                                              *)
Stranded ==
  {o \in Order :
     /\ status[o] = "PAYMENT_PENDING" /\ o \notin paid
     /\ \A t \in Tab : at[t] # o /\ ~(made[t] = o /\ page[t] = "submitting")}

(* The page itself strands no order: declines, errors and a second tab leave the payment form  *)
(* where it was, and one accident costs one order, whose stock then waits for ever.            *)
StrandedCostAccidents == Cardinality(Stranded) <= accidents
================================================================================
