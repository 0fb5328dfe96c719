------------------------------ MODULE ScreensProofs ------------------------------
(***************************************************************************)
(* Proofs about the screens on which orders and products are changed, for    *)
(* any number of orders, tabs, requests and failures.                        *)
(*                                                                         *)
(* CheckoutPage: a filling of the cart is paid once unless two checkouts     *)
(* read it at the same time, for the secret is handed out after the cart is  *)
(* gone, so that no later checkout can read the same filling again; and an   *)
(* unpaid order that no screen remembers was charged to an accident.         *)
(*                                                                         *)
(* OrderDesk: with no PATCH in flight an order is shown with a status it has *)
(* had, unless two PATCHes met: an answer is one the order has had, what the *)
(* cache shows otherwise is asked for by a PATCH in flight, and what a PATCH *)
(* goes back to was shown when no other was in flight.  And it is not shown  *)
(* with an earlier status again: the statuses along the table have ranks,    *)
(* the order has had none above its own (HadBelow), and no answer on its way *)
(* is below what it will replace (Rising).                                   *)
(*                                                                         *)
(* ProductDesk: what the bulk action reports as done is done, and what is    *)
(* typed into a form stays until it is saved or given up.                    *)
(*                                                                         *)
(* Shelves: whatever its age, a page says what has been on sale all along    *)
(* between its cursor and the next one (Tells), so a walk has shown what is  *)
(* up to its cursor, and nothing beyond the page in view (Walked).           *)
(***************************************************************************)
EXTENDS CheckoutPage, OrderDesk, ProductDesk, Shelves, FiniteSetTheorems, WellFoundedInduction,
        TLAPS

(* A checkout that has read the cart has read something. *)
Reading == \A t \in Tab : req[t] \in {"read", "saved"} => read[t] # 0

Shape == PageTypeOK /\ Reading

LEMMA TransitionsAreStatuses ==
  ASSUME NEW from, NEW to, CanTransition(from, to)
  PROVE  from \in Status /\ to \in Status
BY DEF CanTransition, VALID_TRANSITIONS, Status

LEMMA ShapeInit == PageInit => Shape
BY CheckoutPageAssumption DEF PageInit, Init, Shape, PageTypeOK, Reading

LEMMA ShapeStep == Shape /\ [PageNext]_vars => Shape'
<1> SUFFICES ASSUME Shape, [PageNext]_vars
             PROVE  Shape'
  OBVIOUS
<1> USE CheckoutPageAssumption
        DEF Shape, PageTypeOK, Reading, serverVars, lifecycleVars, tabVars, requestVars,
            Showing, Accident, Away
<1>1. CASE FillCart
  BY <1>1 DEF FillCart
<1>2. CASE ServerMoves
  <2>1. PICK o \in Order, to \in Status : MoveTo(o, to)
    BY <1>2 DEF ServerMoves
  <2>2. status[o] # "NONE" /\ to # "NONE"
    BY <2>1, TransitionsAreStatuses DEF MoveTo, Status
  <2>3. /\ status' \in [Order -> Status \union {"NONE"}]
        /\ \A p \in Order : status'[p] = "NONE" <=> status[p] = "NONE"
    BY <2>1, <2>2 DEF MoveTo
  <2>4. paid' = paid
    BY <2>1 DEF MoveTo
  <2> QED
    BY <1>2, <2>3, <2>4 DEF ServerMoves
<1>3. ASSUME NEW t \in Tab, Mount(t) \/ Probe(t) \/ Submit(t) \/ Continue(t) \/ Leave(t)
      PROVE  Shape'
  <2>1. CASE Mount(t) \/ Submit(t)
    <3>1. CASE Mount(t)
      BY <3>1 DEF Mount
    <3>2. CASE Submit(t)
      BY <3>2 DEF Submit
    <3> QED
      BY <2>1, <3>1, <3>2
  <2>2. CASE Probe(t)
    <3>1. CASE UNCHANGED <<at, stored>> /\ page' = [page EXCEPT ![t] = "form"]
      BY <2>2, <3>1 DEF Probe
    <3>2. ASSUME NEW o \in stored[t], page' = [page EXCEPT ![t] = "payment"],
                 at' = [at EXCEPT ![t] = o], UNCHANGED stored
          PROVE  Shape'
      BY <2>2, <3>2 DEF Probe
    <3>3. ASSUME NEW o \in stored[t], page' = [page EXCEPT ![t] = "form"],
                 stored' = [stored EXCEPT ![t] = @ \ {o}], UNCHANGED at
          PROVE  Shape'
      BY <2>2, <3>3 DEF Probe
    <3> QED
      BY <2>2, <3>1, <3>2, <3>3 DEF Probe
  <2>3. CASE Continue(t)
    BY <2>3 DEF Continue, Finished
  <2>4. CASE Leave(t)
    BY <2>4 DEF Leave, Finished
  <2> QED
    BY <1>3, <2>1, <2>2, <2>3, <2>4
<1>4. ASSUME NEW t \in Tab, Answer(t)
      PROVE  Shape'
  <2>1. CASE req[t] = "done"
    <3>1. made[t] \in Order /\ read[t] \in 0..fillings
      BY <2>1
    <3> QED
      BY <1>4, <2>1, <3>1 DEF Answer
  <2>2. CASE req[t] # "done"
    BY <1>4, <2>2 DEF Answer
  <2> QED
    BY <2>1, <2>2
<1>5. ASSUME NEW t \in Tab, Unheard(t)
      PROVE  Shape'
  BY <1>5 DEF Unheard
<1>6. ASSUME NEW t \in Tab, ReadCart(t)
      PROVE  Shape'
  BY <1>6 DEF ReadCart
<1>7. ASSUME NEW t \in Tab, SaveOrder(t)
      PROVE  Shape'
  <2>1. PICK o \in Order :
          /\ Place(o)
          /\ of' = [of EXCEPT ![o] = read[t]]
          /\ made' = [made EXCEPT ![t] = IF status'[o] = "CANCELLED" THEN NoOrder ELSE o]
          /\ req' = [req EXCEPT ![t] = IF status'[o] = "CANCELLED" THEN "refused" ELSE "saved"]
    BY <1>7 DEF SaveOrder
  <2>2. /\ status' \in [Order -> Status \union {"NONE"}]
        /\ \A p \in Order : status'[p] = "NONE" <=> p # o /\ status[p] = "NONE"
        /\ paid' = paid
    BY <2>1 DEF Place, Status
  <2>3. req[t] = "read" /\ read[t] # 0 /\ read[t] \in 0..fillings
    BY <1>7 DEF SaveOrder
  <2>4. UNCHANGED <<cart, fillings, page, at, stored, read, raced, accidents>>
    BY <1>7 DEF SaveOrder
  <2>5. of' \in [Order -> 0..fillings] /\ \A p \in Order : status'[p] = "NONE" <=> of'[p] = 0
    BY <2>1, <2>2, <2>3
  <2>6. /\ made' \in [Tab -> Order \union {NoOrder}]
        /\ req' \in [Tab -> {"none", "sent", "read", "saved", "done", "refused"}]
        /\ \A u \in Tab : made'[u] = NoOrder <=> req'[u] \notin {"saved", "done"}
        /\ \A u \in Tab : req'[u] \in {"read", "saved"} => req'[u] = req[u] \/ u = t
    BY <2>1, <2>3
  <2>7. PageTypeOK'
    BY <2>2, <2>4, <2>5, <2>6
  <2>8. Reading'
    BY <2>3, <2>4, <2>6
  <2> QED
    BY <2>7, <2>8
<1>8. ASSUME NEW t \in Tab, DeleteCart(t) \/ CheckoutFails(t)
      PROVE  Shape'
  <2>1. CASE DeleteCart(t)
    <3>1. /\ req[t] = "saved" /\ req' = [req EXCEPT ![t] = "done"] /\ cart' = 0
          /\ UNCHANGED <<status, paid, fillings, of, page, at, stored, read, made, raced, accidents>>
      BY <2>1 DEF DeleteCart
    <3>2. /\ req' \in [Tab -> {"none", "sent", "read", "saved", "done", "refused"}]
          /\ \A u \in Tab : req'[u] \in {"saved", "done"} <=> req[u] \in {"saved", "done"}
          /\ \A u \in Tab : req'[u] \in {"read", "saved"} => req'[u] = req[u]
      BY <3>1
    <3>3. /\ cart' \in 0..fillings
          /\ UNCHANGED <<status, paid, fillings, of, page, at, stored, read, made, raced, accidents>>
      BY <3>1
    <3> QED
      BY <3>2, <3>3
  <2>2. CASE CheckoutFails(t)
    BY <2>2 DEF CheckoutFails
  <2> QED
    BY <1>8, <2>1, <2>2
<1>9. ASSUME NEW t \in Tab, ConfirmPayment(t)
      PROVE  Shape'
  <2>1. at[t] \in Order
    BY <1>9 DEF ConfirmPayment, Payable
  <2>2. /\ page' = [page EXCEPT ![t] = "accepted"] /\ page[t] \in {"payment", "failed"}
        /\ paid' = paid \union {at[t]} /\ status' = status
        /\ UNCHANGED <<cart, fillings, of, at, stored, req, read, made, raced, accidents>>
    BY <1>9 DEF ConfirmPayment, Pay, Payable
  <2>3. /\ page' \in [Tab -> {"elsewhere", "probing", "form", "submitting", "payment",
                            "failed", "accepted", "polling", "thanks", "order"}]
        /\ \A u \in Tab : at'[u] = NoOrder
                          <=> page'[u] \in {"elsewhere", "probing", "form", "submitting"}
    BY <2>1, <2>2
  <2>4. paid' \subseteq Order /\ paid' = paid \union {at[t]}
    BY <2>1, <2>2
  <2>5. UNCHANGED <<status, cart, fillings, of, at, stored, req, read, made, raced, accidents>>
    BY <2>2
  <2> HIDE DEF ConfirmPayment
  <2> QED
    BY <2>3, <2>4, <2>5
<1>10. ASSUME NEW t \in Tab, ConfirmFails(t) \/ StartPolling(t) \/ Poll(t) \/ PollTimesOut(t)
       PROVE  Shape'
  <2>1. CASE ConfirmFails(t) \/ PollTimesOut(t)
    <3>1. PICK p \in {"failed", "order"} : page' = [page EXCEPT ![t] = p]
      BY <2>1 DEF ConfirmFails, PollTimesOut
    <3>2. page[t] \in {"payment", "failed", "polling"}
      BY <2>1 DEF ConfirmFails, PollTimesOut, Payable
    <3>3. /\ UNCHANGED <<status, paid, cart, fillings, of, at>>
          /\ UNCHANGED <<stored, req, read, made, raced, accidents>>
      BY <2>1 DEF ConfirmFails, PollTimesOut
    <3>4. /\ page' \in [Tab -> {"elsewhere", "probing", "form", "submitting", "payment",
                              "failed", "accepted", "polling", "thanks", "order"}]
          /\ \A u \in Tab : at'[u] = NoOrder
                            <=> page'[u] \in {"elsewhere", "probing", "form", "submitting"}
      BY <3>1, <3>2, <3>3
    <3> QED
      BY <3>3, <3>4
  <2>2. CASE StartPolling(t)
    <3>1. at[t] \in Order
      BY <2>2 DEF StartPolling
    <3> QED
      BY <2>2, <3>1 DEF StartPolling
  <2>3. CASE Poll(t)
    BY <2>3 DEF Poll
  <2> QED
    BY <1>10, <2>1, <2>2, <2>3
<1>11. CASE UNCHANGED vars
  BY <1>11 DEF vars
<1> QED
  BY <1>1, <1>2, <1>3, <1>4, <1>5, <1>6, <1>7, <1>8, <1>9, <1>10, <1>11 DEF PageNext

LEMMA ShapeAlways == PageSpec => []Shape
BY ShapeInit, ShapeStep, PTL DEF PageSpec

(* The pages, the requests and the orders of a customer's tabs stay in step. *)
THEOREM PageTypeCorrect == PageSpec => []PageTypeOK
<1>1. Shape => PageTypeOK
  BY DEF Shape
<1> QED
  BY <1>1, ShapeAlways, PTL
--------------------------------------------------------------------------------
(* Orders whose secret has left the checkout: they are paid, or a tab has it or will. *)
Handed ==
  {o \in Order : \/ o \in paid
                 \/ \E t \in Tab : \/ at[t] = o \/ o \in stored[t]
                                   \/ req[t] = "done" /\ made[t] = o}

Working(t) == req[t] \in {"read", "saved"}

(* A filling that was not raced is read by one checkout at a time, is gone from the cart *)
(* before the secret of its order is handed out, and never has two orders handed out.     *)
Once ==
  /\ \A o \in Handed : of[o] # 0 /\ of[o] # cart
  /\ \A t \in Tab : req[t] \in {"saved", "done"} => of[made[t]] = read[t] /\ read[t] # 0
  /\ \A t, u \in Tab : t # u /\ Working(t) /\ Working(u) /\ read[t] = read[u] => read[t] \in raced
  /\ \A o \in Handed, t \in Tab : Working(t) /\ of[o] = read[t] => of[o] \in raced
  /\ \A o, p \in Handed : o # p /\ of[o] = of[p] => of[o] \in raced

(* Steps that hand nothing out, read nothing and put nothing into the cart keep it. *)
LEMMA OnceKept ==
  ASSUME Shape, Once, Handed' \subseteq Handed, UNCHANGED <<of, read>>,
         cart' \in {0, cart}, raced \subseteq raced',
         \A t \in Tab : /\ req'[t] \in {"read", "saved"} => req'[t] = req[t]
                        /\ req'[t] \in {"saved", "done"} =>
                             req[t] \in {"saved", "done"} /\ made'[t] = made[t]
  PROVE  Once'
BY DEF Once, Working

LEMMA OnceStep == Shape /\ Once /\ [PageNext]_vars => Once'
<1> SUFFICES ASSUME Shape, Once, [PageNext]_vars
             PROVE  Once'
  OBVIOUS
<1> USE DEF serverVars, lifecycleVars, tabVars, requestVars, Showing, Accident, Away
<1>1. CASE FillCart
  <2>1. /\ Handed' = Handed /\ cart' = fillings + 1
        /\ UNCHANGED <<of, req, read, made, raced>>
    BY <1>1 DEF FillCart, Handed
  <2>2. \A o \in Handed : of[o] # fillings + 1
    BY DEF Shape, PageTypeOK, Handed
  <2> QED
    BY <2>1, <2>2, CheckoutPageAssumption DEF Once, Working
<1>2. CASE ServerMoves
  <2>1. Handed' = Handed
    BY <1>2 DEF ServerMoves, MoveTo, Handed
  <2> QED
    BY <1>2, <2>1, OnceKept DEF ServerMoves
<1>3. ASSUME NEW t \in Tab, Mount(t) \/ Continue(t) \/ ConfirmFails(t) \/ Poll(t) \/ PollTimesOut(t)
      PROVE  Once'
  <2>1. Handed' \subseteq Handed
    <3>1. /\ at' = at \/ at' = [at EXCEPT ![t] = NoOrder]
          /\ UNCHANGED <<paid, stored, req, made>>
      BY <1>3 DEF Mount, Continue, ConfirmFails, Poll, PollTimesOut
    <3> QED
      BY <3>1, CheckoutPageAssumption DEF Handed, Shape, PageTypeOK
  <2> QED
    BY <1>3, <2>1, OnceKept DEF Mount, Continue, ConfirmFails, Poll, PollTimesOut
<1>4. ASSUME NEW t \in Tab, Probe(t)
      PROVE  Once'
  <2>1. Handed' \subseteq Handed
    BY <1>4 DEF Probe, Handed, Shape, PageTypeOK
  <2> QED
    BY <1>4, <2>1, OnceKept DEF Probe
<1>5. ASSUME NEW t \in Tab, Leave(t)
      PROVE  Once'
  <2>1. Handed' \subseteq Handed
    <3>1. /\ at' = [at EXCEPT ![t] = NoOrder]
          /\ stored' = stored \/ stored' = [stored EXCEPT ![t] = {}]
          /\ UNCHANGED <<paid, req, made>>
      BY <1>5 DEF Leave
    <3> QED
      BY <3>1, CheckoutPageAssumption DEF Handed, Shape, PageTypeOK
  <2> QED
    BY <1>5, <2>1, OnceKept DEF Leave
<1>6. ASSUME NEW t \in Tab, Submit(t)
      PROVE  Once'
  <2>1. Handed' \subseteq Handed
    BY <1>6 DEF Submit, Handed, Shape, PageTypeOK
  <2> QED
    BY <1>6, <2>1, OnceKept DEF Submit, Shape, PageTypeOK
<1>7. ASSUME NEW t \in Tab, Answer(t) \/ Unheard(t)
      PROVE  Once'
  <2>1. Handed' \subseteq Handed
    <3>1. CASE Answer(t)
      BY <3>1 DEF Answer, Handed, Shape, PageTypeOK
    <3>2. CASE Unheard(t)
      BY <3>2 DEF Unheard, Handed, Shape, PageTypeOK
    <3> QED
      BY <1>7, <3>1, <3>2
  <2>2. /\ req' = [req EXCEPT ![t] = "none"]
        /\ read' = [read EXCEPT ![t] = 0]
        /\ made' = [made EXCEPT ![t] = NoOrder]
        /\ UNCHANGED <<of, cart, raced>>
    BY <1>7 DEF Answer, Unheard
  <2> QED
    BY <2>1, <2>2 DEF Once, Working, Shape, PageTypeOK
<1>8. ASSUME NEW t \in Tab, ReadCart(t)
      PROVE  Once'
  <2>1. Handed' = Handed
    BY <1>8 DEF ReadCart, Handed, Shape, PageTypeOK
  <2>2. /\ req[t] = "sent" /\ UNCHANGED <<cart, of, made>>
        /\ req' = [req EXCEPT ![t] = IF cart = 0 THEN "refused" ELSE "read"]
        /\ read' = [read EXCEPT ![t] = cart]
        /\ raced \subseteq raced'
        /\ (\E u \in Tab : Working(u) /\ read[u] = cart) => cart \in raced'
    BY <1>8 DEF ReadCart, Working
  <2>3. \A u \in Tab \ {t} : req'[u] = req[u] /\ read'[u] = read[u]
    BY <2>2 DEF Shape, PageTypeOK
  <2>4. /\ Working(t)' => read'[t] = cart
        /\ req'[t] \notin {"saved", "done"}
    BY <2>2 DEF Working, Shape, PageTypeOK
  <2>5. \A u \in Tab \ {t} : Working(u)' <=> Working(u)
    BY <2>3 DEF Working
  <2>6. ASSUME NEW u \in Tab, NEW v \in Tab, u # v, Working(u)', Working(v)', read'[u] = read'[v]
        PROVE  read'[u] \in raced'
    BY <2>2, <2>3, <2>4, <2>5, <2>6 DEF Once
  <2>7. ASSUME NEW o \in Handed, NEW u \in Tab, Working(u)', of[o] = read'[u]
        PROVE  of[o] \in raced'
    BY <2>2, <2>3, <2>4, <2>5, <2>7 DEF Once
  <2> QED
    BY <2>1, <2>2, <2>3, <2>4, <2>6, <2>7 DEF Once
<1>9. ASSUME NEW t \in Tab, SaveOrder(t)
      PROVE  Once'
  <2>1. PICK o \in Order :
          /\ Place(o)
          /\ of' = [of EXCEPT ![o] = read[t]]
          /\ made' = [made EXCEPT ![t] = IF status'[o] = "CANCELLED" THEN NoOrder ELSE o]
          /\ req' = [req EXCEPT ![t] = IF status'[o] = "CANCELLED" THEN "refused" ELSE "saved"]
    BY <1>9 DEF SaveOrder
  <2>2. of[o] = 0 /\ o \notin Handed
    BY <2>1 DEF Place, Shape, PageTypeOK, Once
  <2>3. Handed' = Handed
    BY <1>9, <2>1 DEF SaveOrder, Place, Handed, Shape, PageTypeOK
  <2>4. \A u \in Tab : req[u] \in {"saved", "done"} => made[u] # o
    BY <2>2 DEF Once
  <2>5. req[t] = "read" /\ read[t] # 0 /\ UNCHANGED <<cart, read, raced>>
    BY <1>9 DEF SaveOrder, Shape, Reading
  <2> QED
    BY <2>1, <2>2, <2>3, <2>4, <2>5 DEF Once, Working, Shape, PageTypeOK
<1>10. ASSUME NEW t \in Tab, DeleteCart(t)
       PROVE  Once'
  <2>1. /\ req[t] = "saved" /\ req' = [req EXCEPT ![t] = "done"] /\ cart' = 0
        /\ UNCHANGED <<of, read, made, raced>>
    BY <1>10 DEF DeleteCart
  <2>2. Handed' = Handed \union {made[t]}
    BY <1>10 DEF DeleteCart, Handed, Shape, PageTypeOK
  <2>3. of[made[t]] = read[t] /\ read[t] # 0
    BY <2>1 DEF Once
  <2> QED
    BY <2>1, <2>2, <2>3 DEF Once, Working, Shape, PageTypeOK
<1>11. ASSUME NEW t \in Tab, CheckoutFails(t)
       PROVE  Once'
  <2>1. Handed' \subseteq Handed
    BY <1>11 DEF CheckoutFails, Handed, Shape, PageTypeOK
  <2> QED
    BY <1>11, <2>1, OnceKept DEF CheckoutFails, Shape, PageTypeOK
<1>12. ASSUME NEW t \in Tab, ConfirmPayment(t)
       PROVE  Once'
  <2>1. Handed' \subseteq Handed
    BY <1>12 DEF ConfirmPayment, Pay, Handed
  <2> QED
    BY <1>12, <2>1, OnceKept DEF ConfirmPayment
<1>13. ASSUME NEW t \in Tab, StartPolling(t)
       PROVE  Once'
  <2>1. Handed' \subseteq Handed
    BY <1>13 DEF StartPolling, Handed, Shape, PageTypeOK
  <2> QED
    BY <1>13, <2>1, OnceKept DEF StartPolling
<1>14. CASE UNCHANGED vars
  <2>1. Handed' = Handed
    BY <1>14 DEF vars, Handed
  <2> QED
    BY <1>14, <2>1, OnceKept DEF vars
<1> QED
  BY <1>1, <1>2, <1>3, <1>4, <1>5, <1>6, <1>7, <1>8, <1>9, <1>10, <1>11, <1>12, <1>13, <1>14
     DEF PageNext

(* In whichever tabs, with whatever reloads and failed requests, a customer pays once for *)
(* what was in the cart, unless two checkouts had read it at the same time.               *)
THEOREM PaidOnce == PageSpec => []CartIsPaidOnce
<1>1. PageInit => Once
  BY CheckoutPageAssumption DEF PageInit, Init, Once, Handed, Working
<1>2. Shape /\ Once => CartIsPaidOnce
  BY DEF Once, Handed, CartIsPaidOnce, Shape, PageTypeOK
<1> QED
  BY <1>1, <1>2, OnceStep, ShapeAlways, PTL DEF PageSpec
--------------------------------------------------------------------------------
(* Requests of a form nobody waits at, which may still save an order: it will be stranded. *)
Doomed == {t \in Tab : req[t] \in {"sent", "read"} /\ page[t] # "submitting"}

(* No order of this page is in an earlier status, and the pages after the payment have paid. *)
Paying ==
  /\ \A o \in Order : status[o] \notin {"PENDING", "INVENTORY_RESERVED"}
  /\ \A t \in Tab : page[t] \in {"accepted", "polling", "thanks", "order"} => at[t] \in paid

(* An accident pays for each order that is stranded, and for each that will be. *)
Charged ==
  /\ IsFiniteSet(Stranded) /\ IsFiniteSet(Doomed)
  /\ Cardinality(Stranded) + Cardinality(Doomed) <= accidents

LEMMA PayingStep == Shape /\ Paying /\ [PageNext]_vars => Paying'
<1> SUFFICES ASSUME Shape, Paying, [PageNext]_vars
             PROVE  Paying'
  OBVIOUS
<1> USE DEF serverVars, lifecycleVars, tabVars, requestVars, Showing, Accident, Away, Paying
<1>1. CASE FillCart
  BY <1>1 DEF FillCart
<1>2. CASE ServerMoves
  <2>1. PICK o \in Order, to \in Status : MoveTo(o, to)
    BY <1>2 DEF ServerMoves
  <2>2. to \notin {"PENDING", "INVENTORY_RESERVED"}
    BY <2>1 DEF MoveTo, CanTransition, VALID_TRANSITIONS, Status
  <2> QED
    BY <1>2, <2>1, <2>2 DEF ServerMoves, MoveTo, Shape, PageTypeOK
<1>3. ASSUME NEW t \in Tab,
             Mount(t) \/ Probe(t) \/ Submit(t) \/ Answer(t) \/ ConfirmFails(t) \/ Continue(t) \/ Leave(t)
      PROVE  Paying'
  <2>1. /\ UNCHANGED <<status, paid>>
        /\ page'[t] \in {"elsewhere", "probing", "form", "submitting", "payment", "failed"}
        /\ \A u \in Tab \ {t} : page'[u] = page[u] /\ at'[u] = at[u]
    BY <1>3 DEF Mount, Probe, Submit, Answer, ConfirmFails, Continue, Leave, Shape, PageTypeOK
  <2> QED
    BY <2>1
<1>4. ASSUME NEW t \in Tab, Unheard(t) \/ ReadCart(t) \/ DeleteCart(t) \/ CheckoutFails(t)
      PROVE  Paying'
  BY <1>4 DEF Unheard, ReadCart, DeleteCart, CheckoutFails
<1>5. ASSUME NEW t \in Tab, SaveOrder(t)
      PROVE  Paying'
  <2>1. PICK o \in Order : Place(o)
    BY <1>5 DEF SaveOrder
  <2>2. \A p \in Order : status'[p] \in {status[p], "PAYMENT_PENDING", "CANCELLED"}
    BY <2>1 DEF Place, Shape, PageTypeOK
  <2> QED
    BY <1>5, <2>1, <2>2 DEF SaveOrder, Place
<1>6. ASSUME NEW t \in Tab, ConfirmPayment(t)
      PROVE  Paying'
  BY <1>6 DEF ConfirmPayment, Pay, Shape, PageTypeOK
<1>7. ASSUME NEW t \in Tab, StartPolling(t) \/ Poll(t) \/ PollTimesOut(t)
      PROVE  Paying'
  <2>1. /\ page[t] \in {"accepted", "polling"} /\ UNCHANGED <<status, paid, at>>
        /\ \A u \in Tab \ {t} : page'[u] = page[u]
    BY <1>7 DEF StartPolling, Poll, PollTimesOut, Shape, PageTypeOK
  <2> QED
    BY <2>1
<1>8. CASE UNCHANGED vars
  BY <1>8 DEF vars
<1> QED
  BY <1>1, <1>2, <1>3, <1>4, <1>5, <1>6, <1>7, <1>8 DEF PageNext

(* Neither set grows, or one grows by one for the other or for an accident. *)
LEMMA SetsKept ==
  ASSUME NEW S, NEW D, IsFiniteSet(S), IsFiniteSet(D), NEW T \in SUBSET S, NEW E \in SUBSET D
  PROVE  /\ IsFiniteSet(T) /\ IsFiniteSet(E)
         /\ Cardinality(T) + Cardinality(E) <= Cardinality(S) + Cardinality(D)
<1>1. /\ IsFiniteSet(T) /\ IsFiniteSet(E)
      /\ Cardinality(T) <= Cardinality(S) /\ Cardinality(E) <= Cardinality(D)
  BY FS_Subset
<1>2. /\ Cardinality(S) \in Nat /\ Cardinality(D) \in Nat
      /\ Cardinality(T) \in Nat /\ Cardinality(E) \in Nat
  BY <1>1, FS_CardinalityType
<1> QED
  BY <1>1, <1>2

LEMMA SetGrows ==
  ASSUME NEW S, NEW D, IsFiniteSet(S), IsFiniteSet(D), NEW x, NEW T \in SUBSET (S \union {x}),
         NEW E \in SUBSET D
  PROVE  /\ IsFiniteSet(T) /\ IsFiniteSet(E)
         /\ Cardinality(T) + Cardinality(E) <= Cardinality(S) + Cardinality(D) + 1
<1> DEFINE U == S \union {x}
<1>1. IsFiniteSet(U) /\ Cardinality(U) <= Cardinality(S) + 1
  <2>1. IsFiniteSet(U) /\ Cardinality(U) \in {Cardinality(S), Cardinality(S) + 1}
    BY FS_AddElement
  <2>2. Cardinality(S) \in Nat
    BY FS_CardinalityType
  <2> QED
    BY <2>1, <2>2
<1>2. /\ IsFiniteSet(T) /\ IsFiniteSet(E)
      /\ Cardinality(T) + Cardinality(E) <= Cardinality(U) + Cardinality(D)
  <2>1. T \in SUBSET U
    OBVIOUS
  <2> HIDE DEF U
  <2> QED
    BY <1>1, <2>1, SetsKept
<1>3. /\ Cardinality(S) \in Nat /\ Cardinality(D) \in Nat /\ Cardinality(U) \in Nat
      /\ Cardinality(T) \in Nat /\ Cardinality(E) \in Nat
  BY <1>1, <1>2, FS_CardinalityType
<1> QED
  BY <1>1, <1>2, <1>3

LEMMA ChargedKept ==
  ASSUME Shape, Shape', Charged, Stranded' \subseteq Stranded, Doomed' \subseteq Doomed, accidents <= accidents'
  PROVE  Charged'
<1>1. /\ IsFiniteSet(Stranded') /\ IsFiniteSet(Doomed')
      /\ Cardinality(Stranded') + Cardinality(Doomed') <= Cardinality(Stranded) + Cardinality(Doomed)
  BY SetsKept DEF Charged
<1>2. /\ Cardinality(Stranded) \in Nat /\ Cardinality(Doomed) \in Nat
      /\ Cardinality(Stranded') \in Nat /\ Cardinality(Doomed') \in Nat
      /\ accidents \in Nat /\ accidents' \in Nat
  BY <1>1, FS_CardinalityType, CheckoutPageAssumption DEF Charged, Shape, PageTypeOK
<1> QED
  BY <1>1, <1>2 DEF Charged

LEMMA ChargedAccident ==
  ASSUME Shape, Charged, accidents' = accidents + 1,
         NEW x, \/ Stranded' \subseteq Stranded \union {x} /\ Doomed' \subseteq Doomed
                \/ Stranded' \subseteq Stranded /\ Doomed' \subseteq Doomed \union {x}
  PROVE  Charged'
<1>1. /\ IsFiniteSet(Stranded') /\ IsFiniteSet(Doomed')
      /\ Cardinality(Stranded') + Cardinality(Doomed') <= Cardinality(Stranded) + Cardinality(Doomed) + 1
  <2>1. CASE Stranded' \subseteq Stranded \union {x} /\ Doomed' \subseteq Doomed
    BY <2>1, SetGrows DEF Charged
  <2>2. CASE Stranded' \subseteq Stranded /\ Doomed' \subseteq Doomed \union {x}
    <3>1. /\ IsFiniteSet(Stranded') /\ IsFiniteSet(Doomed')
          /\ Cardinality(Doomed') + Cardinality(Stranded') <= Cardinality(Doomed) + Cardinality(Stranded) + 1
      BY <2>2, SetGrows DEF Charged
    <3>2. /\ Cardinality(Stranded) \in Nat /\ Cardinality(Doomed) \in Nat
          /\ Cardinality(Stranded') \in Nat /\ Cardinality(Doomed') \in Nat
      BY <3>1, FS_CardinalityType DEF Charged
    <3> QED
      BY <3>1, <3>2
  <2> QED
    BY <2>1, <2>2
<1>2. /\ Cardinality(Stranded) \in Nat /\ Cardinality(Doomed) \in Nat
      /\ Cardinality(Stranded') \in Nat /\ Cardinality(Doomed') \in Nat /\ accidents \in Nat
  BY <1>1, FS_CardinalityType, CheckoutPageAssumption DEF Charged, Shape, PageTypeOK
<1> QED
  BY <1>1, <1>2 DEF Charged

LEMMA ChargedStep == Shape /\ Shape' /\ Paying /\ Charged /\ [PageNext]_vars => Charged'
<1> SUFFICES ASSUME Shape, Shape', Paying, Charged, [PageNext]_vars
             PROVE  Charged'
  OBVIOUS
<1> USE DEF serverVars, lifecycleVars, tabVars, requestVars, Showing, Away
<1>a. accidents \in Nat /\ accidents <= accidents
  BY CheckoutPageAssumption DEF Shape, PageTypeOK
<1>1. CASE FillCart
  <2>1. UNCHANGED <<Stranded, Doomed, accidents>>
    BY <1>1 DEF FillCart, Stranded, Doomed
  <2> QED
    BY <1>a, <2>1, ChargedKept
<1>2. CASE ServerMoves
  <2>1. PICK o \in Order, to \in Status : MoveTo(o, to)
    BY <1>2 DEF ServerMoves
  <2>2. to # "PAYMENT_PENDING"
    BY <2>1 DEF MoveTo, CanTransition, VALID_TRANSITIONS, Status, Paying
  <2>3. /\ \A p \in Order : status'[p] = "PAYMENT_PENDING" => status[p] = "PAYMENT_PENDING"
        /\ UNCHANGED <<paid, at, made, page, req, accidents>>
    BY <1>2, <2>1, <2>2 DEF ServerMoves, MoveTo, Shape, PageTypeOK
  <2>4. Stranded' \subseteq Stranded /\ Doomed' \subseteq Doomed
    BY <2>3 DEF Stranded, Doomed
  <2> QED
    BY <1>a, <2>3, <2>4, ChargedKept
<1>3. ASSUME NEW t \in Tab, Mount(t) \/ Probe(t) \/ ConfirmFails(t) \/ StartPolling(t) \/ Poll(t) \/ PollTimesOut(t)
      PROVE  Charged'
  <2>1. /\ UNCHANGED <<status, paid, made, req, accidents>> /\ page[t] # "submitting"
        /\ page'[t] # "submitting" /\ (at'[t] = at[t] \/ at[t] = NoOrder)
        /\ \A u \in Tab \ {t} : page'[u] = page[u] /\ at'[u] = at[u]
    BY <1>3 DEF Mount, Probe, ConfirmFails, Payable, StartPolling, Poll, PollTimesOut, Shape, PageTypeOK
  <2>2. Stranded' \subseteq Stranded /\ Doomed' \subseteq Doomed
    BY <2>1, CheckoutPageAssumption DEF Stranded, Doomed
  <2> QED
    BY <1>a, <2>1, <2>2, ChargedKept
<1>4. ASSUME NEW t \in Tab, Submit(t)
      PROVE  Charged'
  <2>1. /\ UNCHANGED <<status, paid, made, at, accidents>> /\ page[t] # "submitting"
        /\ page'[t] = "submitting"
        /\ \A u \in Tab \ {t} : page'[u] = page[u] /\ req'[u] = req[u]
    BY <1>4 DEF Submit, Shape, PageTypeOK
  <2>2. Stranded' \subseteq Stranded /\ Doomed' \subseteq Doomed
    BY <2>1 DEF Stranded, Doomed
  <2> QED
    BY <1>a, <2>1, <2>2, ChargedKept
<1>5. ASSUME NEW t \in Tab, Answer(t) \/ Unheard(t)
      PROVE  Charged'
  <2>1. /\ UNCHANGED <<status, paid, accidents>> /\ req'[t] = "none"
        /\ req[t] \in {"done", "refused"} /\ at'[t] \in {at[t], made[t]}
        /\ \A u \in Tab \ {t} : page'[u] = page[u] /\ req'[u] = req[u] /\ made'[u] = made[u] /\ at'[u] = at[u]
    BY <1>5 DEF Answer, Unheard, Shape, PageTypeOK
  <2>2. page[t] = "submitting" => at[t] = NoOrder /\ at'[t] = made[t]
    BY <1>5, CheckoutPageAssumption DEF Answer, Unheard, Shape, PageTypeOK
  <2>3. page[t] # "submitting" => at'[t] = at[t]
    BY <1>5 DEF Answer, Unheard
  <2>4. Stranded' \subseteq Stranded /\ Doomed' \subseteq Doomed
    BY <2>1, <2>2, <2>3, CheckoutPageAssumption DEF Stranded, Doomed
  <2> QED
    BY <1>a, <2>1, <2>4, ChargedKept
<1>6. ASSUME NEW t \in Tab, ReadCart(t) \/ DeleteCart(t)
      PROVE  Charged'
  <2>1. /\ UNCHANGED <<status, paid, made, at, page, accidents>>
        /\ req[t] \in {"sent", "read"} \/ req'[t] \notin {"sent", "read"}
        /\ \A u \in Tab \ {t} : req'[u] = req[u]
    BY <1>6 DEF ReadCart, DeleteCart, Shape, PageTypeOK
  <2>2. Stranded' \subseteq Stranded /\ Doomed' \subseteq Doomed
    BY <2>1 DEF Stranded, Doomed
  <2> QED
    BY <1>a, <2>1, <2>2, ChargedKept
<1>7. ASSUME NEW t \in Tab, SaveOrder(t)
      PROVE  Charged'
  <2>1. PICK o \in Order :
          /\ Place(o)
          /\ made' = [made EXCEPT ![t] = IF status'[o] = "CANCELLED" THEN NoOrder ELSE o]
          /\ req' = [req EXCEPT ![t] = IF status'[o] = "CANCELLED" THEN "refused" ELSE "saved"]
    BY <1>7 DEF SaveOrder
  <2>2. /\ req[t] = "read" /\ made[t] = NoOrder /\ UNCHANGED <<paid, page, at, accidents>>
        /\ \A p \in Order \ {o} : status'[p] = status[p]
        /\ \A u \in Tab \ {t} : req'[u] = req[u] /\ made'[u] = made[u]
        /\ req'[t] \in {"refused", "saved"}
    BY <1>7, <2>1 DEF SaveOrder, Place, Shape, PageTypeOK
  <2>3. status'[o] # "CANCELLED" => made'[t] = o
    BY <2>1 DEF Shape, PageTypeOK
  <2>4. Stranded' \subseteq Stranded \union {o} /\ Doomed' \subseteq Doomed \ {t}
    BY <2>2, CheckoutPageAssumption DEF Stranded, Doomed
  <2>5. CASE page[t] = "submitting"
    <3>1. o \notin Stranded'
      BY <2>2, <2>3, <2>5 DEF Stranded
    <3> QED
      BY <1>a, <2>2, <2>4, <3>1, ChargedKept
  <2>6. CASE page[t] # "submitting"
    <3>1. t \in Doomed
      BY <2>2, <2>6 DEF Doomed
    <3>2. /\ IsFiniteSet(Doomed \ {t}) /\ Cardinality(Doomed \ {t}) = Cardinality(Doomed) - 1
      BY <3>1, FS_RemoveElement DEF Charged
    <3>3. /\ IsFiniteSet(Stranded') /\ IsFiniteSet(Doomed')
          /\ Cardinality(Stranded') + Cardinality(Doomed')
               <= Cardinality(Stranded) + Cardinality(Doomed \ {t}) + 1
      BY <2>4, <3>2, SetGrows DEF Charged
    <3>4. /\ Cardinality(Stranded) \in Nat /\ Cardinality(Doomed) \in Nat
          /\ Cardinality(Stranded') \in Nat /\ Cardinality(Doomed') \in Nat
      BY <3>3, FS_CardinalityType DEF Charged
    <3> QED
      BY <1>a, <2>2, <3>2, <3>3, <3>4 DEF Charged
  <2> QED
    BY <2>5, <2>6
<1>8. ASSUME NEW t \in Tab, CheckoutFails(t)
      PROVE  Charged'
  <2>1. /\ UNCHANGED <<status, paid, at, page>> /\ accidents' = accidents + 1 /\ req'[t] = "refused"
        /\ \A u \in Tab \ {t} : req'[u] = req[u] /\ made'[u] = made[u]
    BY <1>8 DEF CheckoutFails, Accident, Shape, PageTypeOK
  <2>2. Stranded' \subseteq Stranded \union {made[t]} /\ Doomed' \subseteq Doomed
    BY <2>1 DEF Stranded, Doomed
  <2> QED
    BY <2>1, <2>2, ChargedAccident
<1>9. ASSUME NEW t \in Tab, ConfirmPayment(t)
      PROVE  Charged'
  <2>1. /\ UNCHANGED <<status, made, at, req, accidents>> /\ paid \subseteq paid'
        /\ page[t] # "submitting" /\ page'[t] # "submitting"
        /\ \A u \in Tab \ {t} : page'[u] = page[u]
    BY <1>9 DEF ConfirmPayment, Payable, Pay, Shape, PageTypeOK
  <2>2. Stranded' \subseteq Stranded /\ Doomed' \subseteq Doomed
    BY <2>1 DEF Stranded, Doomed
  <2> QED
    BY <1>a, <2>1, <2>2, ChargedKept
<1>10. ASSUME NEW t \in Tab, Continue(t)
       PROVE  Charged'
  <2>1. /\ UNCHANGED <<status, paid, made, req, accidents>>
        /\ page[t] # "submitting" /\ page'[t] # "submitting" /\ at[t] \in paid \union {NoOrder}
        /\ \A u \in Tab \ {t} : page'[u] = page[u] /\ at'[u] = at[u]
    BY <1>10 DEF Continue, Finished, Paying, Shape, PageTypeOK
  <2>2. Stranded' \subseteq Stranded /\ Doomed' \subseteq Doomed
    BY <2>1, CheckoutPageAssumption DEF Stranded, Doomed
  <2> QED
    BY <1>a, <2>1, <2>2, ChargedKept
<1>11. ASSUME NEW t \in Tab, Leave(t)
       PROVE  Charged'
  <2>1. /\ UNCHANGED <<status, paid, made, req>> /\ accidents' = accidents + 1
        /\ \A u \in Tab \ {t} : page'[u] = page[u] /\ at'[u] = at[u]
    BY <1>11 DEF Leave, Accident, Shape, PageTypeOK
  <2>2. CASE page[t] = "submitting" /\ req[t] \in {"sent", "read"}
    <3>1. made[t] = NoOrder /\ at[t] = NoOrder
      BY <2>2 DEF Shape, PageTypeOK
    <3>2. Stranded' \subseteq Stranded /\ Doomed' \subseteq Doomed \union {t}
      BY <2>1, <3>1, CheckoutPageAssumption DEF Stranded, Doomed
    <3> QED
      BY <2>1, <3>2, ChargedAccident
  <2>3. CASE page[t] = "submitting" /\ req[t] \notin {"sent", "read"}
    <3>1. at[t] = NoOrder
      BY <2>3 DEF Shape, PageTypeOK
    <3>2. Stranded' \subseteq Stranded \union {made[t]} /\ Doomed' \subseteq Doomed
      BY <2>1, <2>3, <3>1, CheckoutPageAssumption DEF Stranded, Doomed
    <3> QED
      BY <2>1, <3>2, ChargedAccident
  <2>4. CASE page[t] # "submitting"
    <3>1. Stranded' \subseteq Stranded \union {at[t]} /\ Doomed' \subseteq Doomed
      BY <2>1, <2>4 DEF Stranded, Doomed
    <3> QED
      BY <2>1, <3>1, ChargedAccident
  <2> QED
    BY <2>2, <2>3, <2>4
<1>12. CASE UNCHANGED vars
  <2>1. UNCHANGED <<Stranded, Doomed, accidents>>
    BY <1>12 DEF vars, Stranded, Doomed
  <2> QED
    BY <1>a, <2>1, ChargedKept
<1> QED
  BY <1>1, <1>2, <1>3, <1>4, <1>5, <1>6, <1>7, <1>8, <1>9, <1>10, <1>11, <1>12 DEF PageNext

(* The page strands no order by itself: for each there was an accident of its own, a tab left *)
(* in the middle or a checkout that failed.                                                   *)
THEOREM StrandedIsCharged == PageSpec => []StrandedCostAccidents
<1>1. PageInit => Paying /\ Charged
  <2> SUFFICES ASSUME PageInit PROVE Paying /\ Charged
    OBVIOUS
  <2>1. Stranded = {} /\ Doomed = {} /\ accidents = 0
    BY DEF PageInit, Init, Stranded, Doomed
  <2>2. Charged
    BY <2>1, FS_EmptySet DEF Charged
  <2> QED
    BY <2>2 DEF PageInit, Init, Paying
<1>2. Shape /\ Charged => StrandedCostAccidents
  <2> SUFFICES ASSUME Shape, Charged PROVE StrandedCostAccidents
    OBVIOUS
  <2>1. Cardinality(Stranded) \in Nat /\ Cardinality(Doomed) \in Nat /\ accidents \in Nat
    BY FS_CardinalityType, CheckoutPageAssumption DEF Charged, Shape, PageTypeOK
  <2> QED
    BY <2>1 DEF Charged, StrandedCostAccidents
<1> QED
  BY <1>1, <1>2, PayingStep, ChargedStep, ShapeAlways, PTL DEF PageSpec
--------------------------------------------------------------------------------
(* The order screens of the admin console. *)

(* The row has a status, and what is shown, fetched or asked for is of an order that is placed. *)
Placed ==
  /\ status \in [Order -> Status \union {"NONE"}]
  /\ Watched \/ fetch # "none" \/ cache # "NONE" \/ InFlight # {} => status[order] # "NONE"

DeskShape == DeskTypeOK /\ Placed

(* What the order has had: its status, the answers on their way, and what a PATCH moved it to. *)
Known ==
  /\ status[order] # "NONE" => status[order] \in had
  /\ fetch \in Status => fetch \in had
  /\ \A p \in Patch : patch[p].at = "moved" => patch[p].to \in had

(* The cache shows such a status, or one that a PATCH in flight asks for. *)
Explained ==
  cache = "NONE" \/ cache \in had \/ \E p \in InFlight : cache = patch[p].to

(* One PATCH at a time, which remembers a status the order has had. *)
Alone ==
  \A p, q \in InFlight : p = q /\ patch[p].prev \in had

DeskInv == DeskShape /\ Known /\ (overlap \/ (Explained /\ Alone))

LEMMA NextStatuses ==
  ASSUME NEW s \in DOMAIN NEXT_STATUS
  PROVE  s \in Status /\ NEXT_STATUS[s] \in Status
BY DEF NEXT_STATUS, Status

LEMMA NoStatus == "NONE" \notin Status /\ "none" \notin Status /\ "asked" \notin Status
BY DEF Status

LEMMA NoPatchType ==
  NoPatch \in [at : {"none", "sent", "moved", "refused"},
               to : Status \union {"NONE"}, prev : Status \union {"NONE"}]
BY DEF NoPatch

LEMMA DeskInvInit == DeskInit => DeskInv
<1> SUFFICES ASSUME DeskInit
             PROVE  DeskInv
  OBVIOUS
<1>1. status[order] = "NONE" /\ status \in [Order -> Status \union {"NONE"}]
  BY OrderDeskAssumption DEF DeskInit, Init
<1>2. /\ patch \in [Patch -> [at : {"none", "sent", "moved", "refused"},
                              to : Status \union {"NONE"}, prev : Status \union {"NONE"}]]
      /\ \A p \in Patch : patch[p].at = "none"
  BY NoPatchType DEF DeskInit, NoPatch
<1>3. DeskTypeOK
  <2>1. /\ had = {} /\ view \in View /\ token = "live" /\ cache = "NONE" /\ fetch = "none"
        /\ stale = FALSE /\ failed = FALSE /\ own = {} /\ overlap = FALSE /\ unseen = FALSE
    BY DEF DeskInit, View
  <2>2. faults \in 0..MaxFaults
    BY OrderDeskAssumption DEF DeskInit
  <2> QED
    BY <1>1, <1>2, <2>1, <2>2 DEF DeskTypeOK
<1>4. InFlight = {}
  BY <1>2 DEF InFlight
<1>5. Placed /\ Known
  BY <1>1, <1>2, <1>4, NoStatus DEF DeskInit, Placed, Known, Watched, Shows
<1>6. Explained /\ Alone
  BY <1>4 DEF DeskInit, Explained, Alone
<1> QED
  BY <1>3, <1>5, <1>6 DEF DeskInv, DeskShape

LEMMA DeskInvStep == DeskInv /\ [DeskNext]_deskVars => DeskInv'
<1> SUFFICES ASSUME DeskInv, [DeskNext]_deskVars
             PROVE  DeskInv'
  OBVIOUS
<1> USE OrderDeskAssumption, NoStatus
        DEF DeskInv, DeskShape, DeskTypeOK, Placed, Known, Explained, Alone, InFlight,
            lifecycleVars, queryVars, Fault, View, Watched, Shows
<1>1. CASE OthersMove
  <2>1. /\ status' \in [Order -> Status \union {"NONE"}]
        /\ status[order] # "NONE" => status'[order] # "NONE"
    <3>1. CASE Place(order)
      BY <3>1 DEF Place, Status
    <3>2. CASE Pay(order)
      BY <3>2 DEF Pay
    <3>3. ASSUME NEW to \in Status, MoveTo(order, to)
          PROVE  /\ status' \in [Order -> Status \union {"NONE"}]
                 /\ status[order] # "NONE" => status'[order] # "NONE"
      BY <3>3 DEF MoveTo
    <3> QED
      BY <1>1, <3>1, <3>2, <3>3 DEF OthersMove
  <2>2. had' = (had \union {status'[order]}) \ {"NONE"}
    BY <1>1 DEF OthersMove
  <2>3. had \subseteq had' /\ had' \subseteq Status
    BY <2>1, <2>2
  <2> QED
    BY <1>1, <2>1, <2>2, <2>3 DEF OthersMove
<1>2. CASE Expire \/ Forget \/ PollOrder
  <2>1. CASE Expire
    BY <2>1 DEF Expire
  <2>2. CASE Forget
    BY <2>2 DEF Forget
  <2>3. CASE PollOrder
    BY <2>3 DEF PollOrder
  <2> QED
    BY <1>2, <2>1, <2>2, <2>3
<1>3. ASSUME NEW v \in View, Navigate(v)
      PROVE  DeskInv'
  BY <1>3 DEF Navigate
<1>4. CASE Read
  BY <1>4 DEF Read
<1>5. CASE AnswerOrder
  <2>1. /\ fetch \in Status /\ cache' = fetch /\ fetch' = "none"
        /\ stale' = FALSE /\ failed' = FALSE /\ unseen' = FALSE
        /\ overlap' = (overlap /\ InFlight # {})
    BY <1>5 DEF AnswerOrder
  <2>2. UNCHANGED <<status, had, view, token, patch, own, faults>>
    BY <1>5 DEF AnswerOrder
  <2>3. InFlight' = InFlight
    BY <2>2
  <2>4. CASE overlap'
    BY <2>1, <2>2, <2>3, <2>4
  <2>5. CASE ~overlap'
    <3>1. \A p, q \in InFlight : p = q /\ patch[p].prev \in had
      BY <2>1, <2>5
    <3> QED
      BY <2>1, <2>2, <2>3, <3>1
  <2> QED
    BY <2>4, <2>5
<1>6. CASE FetchFails
  <2>1. faults' \in 0..MaxFaults
    BY <1>6 DEF FetchFails
  <2>2. /\ UNCHANGED <<status, had, view, token, cache, stale, patch, overlap>>
        /\ fetch' = "none" /\ failed' = TRUE /\ own' = {} /\ unseen' = FALSE
    BY <1>6 DEF FetchFails
  <2>3. InFlight' = InFlight
    BY <2>2
  <2> QED
    BY <2>1, <2>2, <2>3
<1>7. CASE Reload
  <2>1. patch' = [p \in Patch |-> NoPatch]
    BY <1>7 DEF Reload
  <2>2. InFlight' = {}
    BY <2>1 DEF NoPatch
  <2>3. patch' \in [Patch -> [at : {"none", "sent", "moved", "refused"},
                             to : Status \union {"NONE"}, prev : Status \union {"NONE"}]]
    BY <2>1, NoPatchType
  <2>4. /\ view' \in View /\ (Watched' => Watched) /\ fetch' \in {"none", "asked"}
        /\ fetch' = "asked" => Watched'
    BY <1>7 DEF Reload
  <2>5. faults' \in 0..MaxFaults /\ token' \in {"live", "expired"}
    BY <1>7 DEF Reload
  <2>6. /\ UNCHANGED <<status, had>> /\ cache' = "NONE" /\ own' = {}
        /\ stale' = FALSE /\ failed' = FALSE /\ overlap' = FALSE /\ unseen' = FALSE
    BY <1>7 DEF Reload
  <2>7. \A p \in Patch : patch'[p].at = "none"
    BY <2>1 DEF NoPatch
  <2> HIDE DEF Watched
  <2>8. DeskShape'
    BY <2>2, <2>3, <2>4, <2>5, <2>6
  <2>9. Known' /\ Explained' /\ Alone'
    BY <2>2, <2>4, <2>6, <2>7
  <2> QED
    BY <2>8, <2>9
<1>8. ASSUME NEW p \in Patch, Advance(p)
      PROVE  DeskInv'
  <2>1. cache \in Status /\ NEXT_STATUS[cache] \in Status
    BY <1>8, NextStatuses DEF Advance
  <2>2. patch' = [patch EXCEPT ![p] = [at |-> "sent", to |-> NEXT_STATUS[cache], prev |-> cache]]
    BY <1>8 DEF Advance
  <2>3. DeskShape' /\ Known'
    <3>1. /\ UNCHANGED <<status, had, view, token, failed, faults>>
          /\ fetch' = "none" /\ stale' = FALSE /\ cache' = NEXT_STATUS[cache] /\ own' = {p} /\ unseen' = FALSE
          /\ overlap' \in BOOLEAN /\ Watched
      BY <1>8 DEF Advance
    <3>2. patch' \in [Patch -> [at : {"none", "sent", "moved", "refused"},
                               to : Status \union {"NONE"}, prev : Status \union {"NONE"}]]
      BY <2>1, <2>2
    <3>3. \A q \in Patch : patch'[q].at = "moved" => patch'[q] = patch[q]
      BY <2>2
    <3>4. DeskShape'
      <4>1. DeskTypeOK'
        <5> HIDE DEF InFlight, Watched, Known, Explained, Alone, Placed
        <5>1. /\ cache' \in Status /\ own' \subseteq Patch
              /\ fetch' = "none" /\ stale' \in BOOLEAN
              /\ unseen' \in BOOLEAN /\ overlap' \in BOOLEAN
          BY <2>1, <3>1
        <5>2. UNCHANGED <<status, had, view, token, failed, faults>>
          BY <3>1
        <5> QED
          BY <3>2, <5>1, <5>2
      <4>2. Placed'
        BY <3>1
      <4> QED
        BY <4>1, <4>2
    <3>5. Known'
      BY <3>1, <3>3
    <3> QED
      BY <3>4, <3>5
  <2>4. CASE overlap \/ InFlight # {}
    BY <1>8, <2>3, <2>4 DEF Advance
  <2>5. CASE ~overlap /\ InFlight = {}
    <3>1. InFlight' = {p}
      BY <2>2, <2>5
    <3>2. cache \in had
      BY <2>1, <2>5
    <3> QED
      BY <1>8, <2>2, <2>3, <3>1, <3>2 DEF Advance
  <2> QED
    BY <2>4, <2>5
<1>9. ASSUME NEW p \in Patch, ApplyPatch(p)
      PROVE  DeskInv'
  <2>0. UNCHANGED <<view, token, cache, fetch, stale, failed, own, overlap, unseen, faults>>
    BY <1>9 DEF ApplyPatch
  <2>1. CASE token = "live" /\ CanTransition(status[order], patch[p].to)
    <3>1. patch[p].to \in Status
      BY <2>1, TransitionsAreStatuses
    <3>2. /\ status' = [status EXCEPT ![order] = patch[p].to]
          /\ had' = had \union {patch[p].to}
          /\ patch' = [patch EXCEPT ![p].at = "moved"]
      BY <1>9, <2>1 DEF ApplyPatch
    <3>3. InFlight' = InFlight
      BY <1>9, <3>2 DEF ApplyPatch
    <3>4. \A q \in Patch : patch'[q].to = patch[q].to /\ patch'[q].prev = patch[q].prev
      BY <3>2
    <3>5. DeskShape'
      BY <2>0, <3>1, <3>2, <3>3
    <3>6. Known'
      BY <2>0, <3>1, <3>2, <3>4
    <3>7. overlap' \/ (Explained' /\ Alone')
      BY <2>0, <3>2, <3>3, <3>4
    <3> QED
      BY <3>5, <3>6, <3>7
  <2>2. CASE ~(token = "live" /\ CanTransition(status[order], patch[p].to))
    <3>1. UNCHANGED <<status, had>> /\ patch' = [patch EXCEPT ![p].at = "refused"]
      BY <1>9, <2>2 DEF ApplyPatch
    <3>2. InFlight' = InFlight
      BY <1>9, <3>1 DEF ApplyPatch
    <3>3. \A q \in Patch : patch'[q].to = patch[q].to /\ patch'[q].prev = patch[q].prev
      BY <3>1
    <3> QED
      BY <1>9, <3>1, <3>2, <3>3 DEF ApplyPatch
  <2> QED
    BY <2>1, <2>2
<1>10. ASSUME NEW p \in Patch, PatchSucceeds(p) \/ PatchFails(p)
       PROVE  DeskInv'
  <2>1. /\ Settle(p) /\ p \in InFlight
        /\ \/ cache' = cache /\ patch[p].at = "moved"
           \/ cache' = patch[p].prev
        /\ failed' \in BOOLEAN /\ faults' \in 0..MaxFaults
    <3>1. CASE PatchSucceeds(p)
      BY <3>1 DEF PatchSucceeds
    <3>2. CASE PatchFails(p)
      <4>1. Settle(p) /\ patch[p].at # "none" /\ cache' = patch[p].prev /\ failed' = FALSE
        BY <3>2 DEF PatchFails
      <4>2. faults' \in 0..MaxFaults
        BY <3>2 DEF PatchFails
      <4> QED
        BY <4>1, <4>2
    <3> QED
      BY <1>10, <3>1, <3>2
  <2>2. patch' = [patch EXCEPT ![p] = NoPatch] /\ InFlight' = InFlight \ {p}
    BY <2>1 DEF Settle, NoPatch
  <2>3. UNCHANGED <<status, had, view, token, overlap>> /\ fetch' \in {fetch, "asked"}
    BY <2>1 DEF Settle, Refetched
  <2>4. fetch' = "asked" => fetch = "asked" \/ Watched
    BY <2>1 DEF Settle, Refetched
  <2>5. DeskShape'
    BY <2>1, <2>2, <2>3, <2>4 DEF Settle, NoPatch
  <2>6. Known'
    BY <2>2, <2>3 DEF NoPatch
  <2>7. CASE ~overlap
    <3>1. InFlight' = {}
      BY <2>1, <2>2, <2>7
    <3>2. cache' \in had \/ cache' = "NONE"
      BY <2>1, <2>7
    <3> QED
      BY <2>3, <2>5, <2>6, <3>1, <3>2
  <2> QED
    BY <2>3, <2>5, <2>6, <2>7
<1>11. CASE UNCHANGED deskVars
  BY <1>11 DEF deskVars
<1> QED
  BY <1>1, <1>2, <1>3, <1>4, <1>5, <1>6, <1>7, <1>8, <1>9, <1>10, <1>11 DEF DeskNext

(* What holds of the console's tab in every state, from which the next theorems follow. *)
THEOREM DeskCorrect == DeskSpec => []DeskInv
<1>1. DeskInit => DeskInv
  BY DeskInvInit
<1>2. DeskInv /\ [DeskNext]_deskVars => DeskInv'
  BY DeskInvStep
<1> QED
  BY <1>1, <1>2, PTL DEF DeskSpec

(* Type correctness of the tab: query, PATCHes and buttons. *)
THEOREM DeskTypeCorrect == DeskSpec => []DeskTypeOK
<1>1. DeskInv => DeskTypeOK
  BY DEF DeskInv, DeskShape
<1> QED
  BY <1>1, DeskCorrect, PTL

(* The rollback of onError leaves no status on the screen that the order never had, unless *)
(* two PATCHes were in flight at once.                                                      *)
THEOREM GhostsNeedOverlap == DeskSpec => []GhostsCostOverlap
<1>1. DeskInv => GhostsCostOverlap
  BY DEF DeskInv, Explained, GhostsCostOverlap
<1> QED
  BY <1>1, DeskCorrect, PTL

(* A status is never followed by one of a lower rank. *)
LEMMA RankIsInt == \A s \in Status : Rank[s] \in Int
BY DEF Rank, Status

LEMMA RankClimbs ==
  ASSUME NEW from, NEW to, CanTransition(from, to)
  PROVE  Rank[from] <= Rank[to]
BY DEF CanTransition, VALID_TRANSITIONS, Status, Rank

LEMMA NextRankClimbs ==
  ASSUME NEW s \in DOMAIN NEXT_STATUS
  PROVE  Rank[s] <= Rank[NEXT_STATUS[s]]
BY DEF NEXT_STATUS, Rank

(* What the order has had before ranks no higher than what it has. *)
HadBelow ==
  /\ status[order] = "NONE" => had = {}
  /\ \A s \in had : Rank[s] <= Rank[status[order]]

(* An answer on its way ranks no lower than what it will replace: the cache, or what a PATCH *)
(* in flight would set the cache back to.                                                    *)
Rising ==
  ~overlap /\ fetch \in Status =>
    /\ \A p \in InFlight : Rank[patch[p].prev] <= Rank[fetch]
    /\ InFlight = {} /\ ~unseen /\ cache # "NONE" => Rank[cache] <= Rank[fetch]

LEMMA HadBelowStep ==
  ASSUME DeskInv, HadBelow, [DeskNext]_deskVars
  PROVE  HadBelow'
<1> USE OrderDeskAssumption, NoStatus
<1>0. /\ status \in [Order -> Status \union {"NONE"}] /\ had \subseteq Status
      /\ status[order] # "NONE" => status[order] \in had
  BY DEF DeskInv, DeskShape, DeskTypeOK, Placed, Known
<1>1. CASE UNCHANGED <<status[order], had>>
  BY <1>1 DEF HadBelow
<1>2. ASSUME NEW from, NEW to, from = status[order], CanTransition(from, to),
             status'[order] = to, had' \subseteq had \union {to}
      PROVE  HadBelow'
  <2>1. from \in Status /\ to \in Status /\ Rank[from] <= Rank[to]
    BY <1>2, RankClimbs, TransitionsAreStatuses
  <2>2. \A s \in had : Rank[s] \in Int /\ Rank[s] <= Rank[from]
    BY <1>0, <1>2, RankIsInt DEF HadBelow
  <2>3. Rank[from] \in Int /\ Rank[to] \in Int
    BY <2>1, RankIsInt
  <2>4. \A s \in had' : Rank[s] <= Rank[to]
    <3> SUFFICES ASSUME NEW s \in had' PROVE Rank[s] <= Rank[to]
      OBVIOUS
    <3>1. CASE s = to
      BY <2>3, <3>1
    <3>2. CASE s \in had
      <4>1. Rank[s] \in Int /\ Rank[s] <= Rank[from]
        BY <2>2, <3>2
      <4> QED
        BY <2>1, <2>3, <4>1
    <3> QED
      BY <1>2, <3>1, <3>2
  <2> QED
    BY <1>2, <2>1, <2>4 DEF HadBelow
<1>3. CASE OthersMove
  <2>1. had' = (had \union {status'[order]}) \ {"NONE"}
    BY <1>3 DEF OthersMove
  <2>2. CASE Place(order)
    <3>1. status[order] = "NONE" /\ status'[order] \in Status
      BY <1>0, <2>2 DEF Place, Status
    <3>2. had' = {status'[order]}
      BY <2>1, <3>1 DEF HadBelow
    <3>3. Rank[status'[order]] <= Rank[status'[order]]
      BY <3>1, RankIsInt
    <3> QED
      BY <3>1, <3>2, <3>3 DEF HadBelow
  <2>3. CASE Pay(order)
    BY <1>0, <1>1, <2>1, <2>3 DEF Pay
  <2>4. ASSUME NEW to \in Status, MoveTo(order, to) PROVE HadBelow'
    BY <1>0, <1>2, <2>1, <2>4 DEF MoveTo
  <2> QED
    BY <1>3, <2>2, <2>3, <2>4 DEF OthersMove
<1>4. ASSUME NEW p \in Patch, ApplyPatch(p) PROVE HadBelow'
  <2>1. CASE token = "live" /\ CanTransition(status[order], patch[p].to)
    BY <1>0, <1>2, <1>4, <2>1 DEF ApplyPatch
  <2>2. CASE ~(token = "live" /\ CanTransition(status[order], patch[p].to))
    BY <1>1, <1>4, <2>2 DEF ApplyPatch
  <2> QED
    BY <2>1, <2>2
<1>5. CASE Expire \/ Reload \/ Forget \/ PollOrder \/ Read \/ AnswerOrder \/ FetchFails
  BY <1>1, <1>5 DEF Expire, Reload, Forget, PollOrder, Read, AnswerOrder, FetchFails, lifecycleVars
<1>6. ASSUME NEW v \in View, Navigate(v) PROVE HadBelow'
  BY <1>1, <1>6 DEF Navigate, lifecycleVars
<1>7. ASSUME NEW p \in Patch, Advance(p) \/ PatchSucceeds(p) \/ PatchFails(p) PROVE HadBelow'
  BY <1>1, <1>7 DEF Advance, PatchSucceeds, PatchFails, Settle, lifecycleVars
<1>8. CASE UNCHANGED deskVars
  BY <1>1, <1>8 DEF deskVars, lifecycleVars
<1> QED
  BY <1>3, <1>4, <1>5, <1>6, <1>7, <1>8 DEF DeskNext

LEMMA RisingStep ==
  ASSUME DeskInv, HadBelow, Rising, [DeskNext]_deskVars
  PROVE  Rising'
<1> USE NoStatus
<1>1. CASE fetch' \notin Status
  BY <1>1 DEF Rising
<1>2. CASE UNCHANGED <<overlap, fetch, patch, unseen, cache>>
  BY <1>2 DEF Rising, InFlight
<1>3. CASE OthersMove \/ Expire
  BY <1>2, <1>3 DEF OthersMove, Expire, queryVars
<1>4. CASE Reload \/ PollOrder \/ AnswerOrder \/ FetchFails
  BY <1>1, <1>4 DEF Reload, PollOrder, AnswerOrder, FetchFails
<1>5. CASE Forget
  BY <1>1, <1>5 DEF Forget
<1>6. CASE Read
  <2> SUFFICES ASSUME ~overlap, status[order] \in Status
               PROVE  /\ \A p \in InFlight : Rank[patch[p].prev] <= Rank[status[order]]
                      /\ InFlight = {} /\ cache # "NONE" => Rank[cache] <= Rank[status[order]]
    BY <1>6 DEF Read, Rising, InFlight
  <2>1. \A p \in InFlight : patch[p].prev \in had
    BY DEF DeskInv, Alone
  <2>2. InFlight = {} /\ cache # "NONE" => cache \in had
    BY DEF DeskInv, Explained
  <2> QED
    BY <2>1, <2>2 DEF HadBelow
<1>7. ASSUME NEW v \in View, Navigate(v) PROVE Rising'
  <2>1. CASE fetch' = fetch
    BY <1>2, <1>7, <2>1 DEF Navigate
  <2>2. CASE fetch' = "asked"
    BY <1>1, <2>2
  <2> QED
    BY <1>7, <2>1, <2>2 DEF Navigate
<1>8. ASSUME NEW p \in Patch, Advance(p) PROVE Rising'
  BY <1>1, <1>8 DEF Advance
<1>9. ASSUME NEW p \in Patch, ApplyPatch(p) PROVE Rising'
  <2>1. /\ UNCHANGED <<overlap, fetch, unseen, cache>>
        /\ \A q \in Patch : patch'[q].prev = patch[q].prev
        /\ \A q \in Patch : patch'[q].at # "none" <=> patch[q].at # "none"
    <3>1. patch \in [Patch -> [at : {"none", "sent", "moved", "refused"},
                              to : Status \union {"NONE"}, prev : Status \union {"NONE"}]]
      BY DEF DeskInv, DeskShape, DeskTypeOK
    <3>2. PICK how \in {"moved", "refused"} : patch' = [patch EXCEPT ![p].at = how]
      BY <1>9 DEF ApplyPatch
    <3>3. patch[p].at = "sent"
      BY <1>9 DEF ApplyPatch
    <3>4. UNCHANGED <<overlap, fetch, unseen, cache>>
      BY <1>9 DEF ApplyPatch, queryVars
    <3> QED
      BY <3>1, <3>2, <3>3, <3>4
  <2>2. InFlight' = InFlight
    BY <2>1 DEF InFlight
  <2>3. \A q \in InFlight : patch'[q].prev = patch[q].prev
    BY <2>1 DEF InFlight
  <2> QED
    BY <2>1, <2>2, <2>3 DEF Rising
<1>10. ASSUME NEW p \in Patch, PatchSucceeds(p) \/ PatchFails(p) PROVE Rising'
  <2> SUFFICES ASSUME ~overlap', fetch' \in Status PROVE Rising'
    BY DEF Rising
  <2>1. /\ Settle(p) /\ p \in InFlight
        /\ cache' = cache \/ cache' = patch[p].prev
    BY <1>10 DEF PatchSucceeds, PatchFails, InFlight
  <2>2. fetch' = fetch /\ overlap' = overlap /\ unseen' = (~Watched /\ fetch # "none")
        /\ (~Watched \/ cache = "NONE")
    BY <2>1 DEF Settle, Refetched
  <2>3. InFlight' = {}
    <3>1. patch' = [patch EXCEPT ![p] = NoPatch]
      BY <2>1 DEF Settle
    <3>2. \A q \in InFlight : q = p
      BY <2>1, <2>2 DEF DeskInv, Alone
    <3>3. patch \in [Patch -> [at : {"none", "sent", "moved", "refused"},
                              to : Status \union {"NONE"}, prev : Status \union {"NONE"}]]
      BY DEF DeskInv, DeskShape, DeskTypeOK
    <3> QED
      BY <3>1, <3>2, <3>3 DEF InFlight, NoPatch
  <2>4. Rank[patch[p].prev] <= Rank[fetch]
    BY <2>1, <2>2 DEF Rising
  <2>5. ~unseen' /\ cache' # "NONE" => Rank[cache'] <= Rank[fetch']
    BY <2>1, <2>2, <2>4
  <2> QED
    BY <2>3, <2>5 DEF Rising
<1>11. CASE UNCHANGED deskVars
  BY <1>2, <1>11 DEF deskVars, queryVars
<1> QED
  BY <1>3, <1>4, <1>5, <1>6, <1>7, <1>8, <1>9, <1>10, <1>11 DEF DeskNext

(* Only an answer of the server takes back what is shown of a settled order, and an answer    *)
(* that is behind the order was given up when the PATCH was settled, or had nothing on the    *)
(* screen to replace.                                                                         *)
LEMMA BackStep ==
  ASSUME DeskInv, Rising, [DeskNext]_deskVars, GoesBack
  PROVE  InFlight # {} \/ overlap \/ unseen
<1> SUFFICES ASSUME InFlight = {}, ~overlap, ~unseen PROVE FALSE
  OBVIOUS
<1> USE NoStatus
<1>0. /\ cache \in Status /\ cache # "NONE" /\ cache' # "NONE"
      /\ Rank[cache'] < Rank[cache] /\ Rank[cache] \in Int
  <2>1. cache # "NONE" /\ cache' # "NONE" /\ Rank[cache'] < Rank[cache]
    BY DEF GoesBack
  <2>2. cache \in Status
    BY <2>1 DEF DeskInv, DeskShape, DeskTypeOK
  <2> QED
    BY <2>1, <2>2, RankIsInt
<1>1. cache' # cache
  BY <1>0
<1>2. CASE OthersMove \/ Expire \/ Reload \/ Forget \/ PollOrder \/ Read \/ FetchFails
  BY <1>0, <1>1, <1>2 DEF OthersMove, Expire, Reload, Forget, PollOrder, Read, FetchFails, queryVars
<1>3. CASE AnswerOrder
  <2>1. fetch \in Status /\ cache' = fetch
    BY <1>3 DEF AnswerOrder
  <2>2. Rank[cache] <= Rank[fetch]
    BY <1>0, <2>1 DEF Rising
  <2>3. Rank[fetch] \in Int
    BY <2>1, RankIsInt
  <2>4. Rank[fetch] < Rank[cache]
    BY <1>0, <2>1
  <2> QED
    BY <1>0, <2>2, <2>3, <2>4
<1>4. ASSUME NEW v \in View, Navigate(v) PROVE FALSE
  BY <1>1, <1>4 DEF Navigate
<1>5. ASSUME NEW p \in Patch, Advance(p) PROVE FALSE
  <2>1. cache \in DOMAIN NEXT_STATUS /\ cache' = NEXT_STATUS[cache]
    BY <1>5 DEF Advance
  <2>2. Rank[cache] <= Rank[cache']
    BY <2>1, NextRankClimbs
  <2>3. cache' \in Status
    BY <2>1, NextStatuses
  <2>4. Rank[cache'] \in Int
    BY <2>3, RankIsInt
  <2> QED
    BY <1>0, <2>2, <2>4
<1>6. ASSUME NEW p \in Patch, ApplyPatch(p) \/ PatchSucceeds(p) \/ PatchFails(p) PROVE FALSE
  BY <1>1, <1>6 DEF ApplyPatch, PatchSucceeds, PatchFails, InFlight, queryVars
<1>7. CASE UNCHANGED deskVars
  BY <1>1, <1>7 DEF deskVars, queryVars
<1> QED
  BY <1>2, <1>3, <1>4, <1>5, <1>6, <1>7 DEF DeskNext

(* What the console shows of an order it has settled never goes back to an earlier status,   *)
(* for any number of PATCHes, screens, other admins and failures: of the code that is         *)
(* invalidateQueries in onSettled and cancelQueries in onMutate.                              *)
THEOREM ViewMovesOn == DeskSpec => SettledNeverGoesBack
<1>1. DeskInit => HadBelow /\ Rising
  BY NoStatus, OrderDeskAssumption DEF DeskInit, Init, HadBelow, Rising
<1>2. DeskInv /\ HadBelow /\ Rising /\ [DeskNext]_deskVars => HadBelow' /\ Rising'
  BY HadBelowStep, RisingStep
<1>3. DeskInv /\ Rising /\ [DeskNext]_deskVars
        => [GoesBack => InFlight # {} \/ overlap \/ unseen]_deskVars
  BY BackStep
<1> QED
  BY <1>1, <1>2, <1>3, DeskCorrect, PTL DEF DeskSpec, SettledNeverGoesBack
--------------------------------------------------------------------------------
(* The product screens.  A save keeps its shape whoever changes the product. *)
FormRec == [of : FormOf, meta : Meta, rows : SUBSET Code, typed : BOOLEAN, by : SUBSET Save]
SaveRec == [of : FormOf, at : SaveAt, meta : Meta, rows : SUBSET Code, left : SUBSET Code, alone : BOOLEAN]

LEMMA DisturbedSaves ==
  ASSUME NEW saves \in [Save -> SaveRec]
  PROVE  /\ Disturbed(saves) \in [Save -> SaveRec]
         /\ \A s \in Save : LET x == Disturbed(saves)[s] IN
              /\ x.of = saves[s].of /\ x.at = saves[s].at /\ x.meta = saves[s].meta
              /\ x.rows = saves[s].rows /\ x.left = saves[s].left
              /\ x.alone => x.of # "edited"
BY DEF Disturbed, SaveRec

(* Deleting a product leaves no other save of it alone. *)
LEMMA Deleting ==
  ASSUME FormTypeOK, NEW p \in Product, Delete(p)
  PROVE  /\ live' = live \ {p} /\ save' \in [Save -> SaveRec]
         /\ sku' \in [Code -> {"free", "edited", "other"}]
         /\ \/ UNCHANGED <<sku, save>>
            \/ save' = Disturbed(save)
<1>1. save \in [Save -> SaveRec]
  BY DEF FormTypeOK, SaveRec
<1> QED
  BY <1>1, DisturbedSaves DEF Delete, FormTypeOK

LEMMA FormTypeStep == FormTypeOK /\ [FormNext]_formVars => FormTypeOK'
<1> SUFFICES ASSUME FormTypeOK, [FormNext]_formVars
             PROVE  FormTypeOK'
  OBVIOUS
<1> USE ProductDeskAssumption DEF rowVars, pageVars, bulkVars, Failure
<1>a. save \in [Save -> SaveRec] /\ form \in FormRec
  BY DEF FormTypeOK, SaveRec, FormRec
<1>b. ASSUME save' \in [Save -> SaveRec], form' \in FormRec,
             UNCHANGED <<rowVars, pageVars, bulkVars, others>>, Failure \/ UNCHANGED failures
      PROVE  FormTypeOK'
  BY <1>b DEF FormTypeOK, SaveRec, FormRec
<1>c. NoForm \in FormRec /\ NoSave \in SaveRec /\ Nothing \in [meta : Meta, codes : SUBSET Code]
  BY DEF NoForm, NoSave, Nothing, FormRec, SaveRec, FormOf, SaveAt
<1>1. CASE OthersWork
  <2>1. CASE /\ edited \in live /\ meta' \in Meta \ {meta} /\ save' = Disturbed(save)
             /\ UNCHANGED <<live, sku>>
    <3>1. save' \in [Save -> SaveRec]
      BY <1>a, <2>1, DisturbedSaves
    <3> QED
      BY <1>1, <2>1, <3>1 DEF OthersWork, FormTypeOK, SaveRec
  <2>2. CASE (\E p \in live : Delete(p)) /\ UNCHANGED meta
    <3>1. PICK p \in Product : Delete(p)
      BY <2>2 DEF FormTypeOK
    <3> QED
      BY <1>1, <2>2, <3>1, Deleting DEF OthersWork, FormTypeOK, SaveRec
  <2>3. CASE /\ \E c \in Code : sku[c] = "free" /\ sku' = [sku EXCEPT ![c] = "other"]
             /\ UNCHANGED <<live, meta, save>>
    BY <1>1, <2>3 DEF OthersWork, FormTypeOK
  <2> QED
    BY <1>1, <2>1, <2>2, <2>3 DEF OthersWork
<1>2. CASE Refetch
  BY <1>2 DEF Refetch, FormTypeOK
<1>3. CASE ReadProduct
  BY <1>3 DEF ReadProduct, Stored, FormTypeOK
<1>4. CASE AnswerProduct
  <2>1. form' \in FormRec
    BY <1>a, <1>4 DEF AnswerProduct, FormTypeOK, FormRec
  <2> QED
    BY <1>c, <1>4, <2>1 DEF AnswerProduct, FormTypeOK, FormRec
<1>5. CASE ReadFails
  <2>1. [NoForm EXCEPT !.of = "edited"] \in FormRec
    BY <1>c DEF FormRec, FormOf
  <2> QED
    BY <1>c, <1>5, <2>1 DEF ReadFails, FormTypeOK, FormRec
<1>6. CASE Type
  <2>1. form' \in FormRec
    BY <1>a, <1>6 DEF Type, FormRec
  <2> QED
    BY <1>a, <1>b, <1>6, <2>1 DEF Type
<1>7. CASE CloseForm
  BY <1>a, <1>b, <1>c, <1>7 DEF CloseForm
<1>8. ASSUME NEW f \in {"edited", "new"}, OpenForm(f)
      PROVE  FormTypeOK'
  <2>1. form' \in FormRec
    <3>1. data.meta \in Meta /\ data.codes \in SUBSET Code
      BY DEF FormTypeOK
    <3>2. /\ [NoForm EXCEPT !.of = f] \in FormRec
          /\ [NoForm EXCEPT !.of = f, !.meta = data.meta, !.rows = data.codes] \in FormRec
      BY <1>c, <3>1 DEF FormRec, FormOf
    <3> QED
      BY <1>8, <3>2 DEF OpenForm
  <2> QED
    BY <1>a, <1>b, <1>8, <2>1 DEF OpenForm
<1>9. ASSUME NEW s \in Save, SubmitForm(s)
      PROVE  FormTypeOK'
  <2>1. /\ [of |-> form.of, at |-> IF form.of = "new" THEN "post" ELSE "put", meta |-> form.meta,
            rows |-> form.rows, left |-> form.rows, alone |-> TRUE] \in SaveRec
        /\ [form EXCEPT !.by = {s}] \in FormRec
    BY <1>a DEF FormRec, SaveRec, SaveAt
  <2> QED
    BY <1>a, <1>b, <1>9, <2>1 DEF SubmitForm
<1>10. ASSUME NEW s \in Save, PostProduct(s)
       PROVE  FormTypeOK'
  <2>1. save' \in [Save -> SaveRec]
    BY <1>a, <1>10 DEF PostProduct, Refused, SaveRec, SaveAt
  <2> QED
    BY <1>10, <2>1 DEF PostProduct, FormTypeOK, SaveRec
<1>11. ASSUME NEW s \in Save, PutProduct(s)
       PROVE  FormTypeOK'
  <2>1. /\ [save[s] EXCEPT !.at = "rows"] \in SaveRec /\ [save[s] EXCEPT !.at = "failed"] \in SaveRec
        /\ save[s].meta \in Meta /\ Disturbed(save) \in [Save -> SaveRec]
    BY <1>a, DisturbedSaves DEF SaveRec, SaveAt
  <2>2. save' \in [Save -> SaveRec]
    BY <1>a, <1>11, <2>1 DEF PutProduct, Refused
  <2> QED
    BY <1>11, <2>1, <2>2 DEF PutProduct, FormTypeOK, SaveRec
<1>12. ASSUME NEW s \in Save, PutSku(s)
       PROVE  FormTypeOK'
  <2>1. save' \in [Save -> SaveRec]
    BY <1>a, <1>12 DEF PutSku, Refused, SaveRec, SaveAt
  <2>2. sku' \in [Code -> {"free", "edited", "other"}]
    BY <1>12 DEF PutSku, FormTypeOK
  <2> QED
    BY <1>12, <2>1, <2>2 DEF PutSku, FormTypeOK, SaveRec
<1>13. ASSUME NEW s \in Save, SaveLost(s)
       PROVE  FormTypeOK'
  <2>1. save' \in [Save -> SaveRec]
    BY <1>a, <1>13 DEF SaveLost, Refused, SaveRec, SaveAt
  <2> QED
    BY <1>a, <1>b, <1>13, <2>1 DEF SaveLost
<1>14. ASSUME NEW s \in Save, SaveSucceeds(s)
       PROVE  FormTypeOK'
  <2>1. save' \in [Save -> SaveRec]
    BY <1>a, <1>c, <1>14 DEF SaveSucceeds
  <2> QED
    BY <1>c, <1>14, <2>1 DEF SaveSucceeds, FormTypeOK, SaveRec, FormRec
<1>15. ASSUME NEW s \in Save, SaveFails(s)
       PROVE  FormTypeOK'
  <2>1. save' \in [Save -> SaveRec] /\ form' \in FormRec
    BY <1>a, <1>c, <1>15 DEF SaveFails, FormRec
  <2> QED
    BY <1>b, <1>15, <2>1 DEF SaveFails
<1>16. ASSUME NEW p \in Product, Toggle(p)
       PROVE  FormTypeOK'
  BY <1>16 DEF Toggle, FormTypeOK
<1>17. ASSUME NEW p \in Product, DeleteProduct(p)
       PROVE  FormTypeOK'
  <2>1. /\ live' \subseteq Product /\ save' \in [Save -> SaveRec]
        /\ sku' \in [Code -> {"free", "edited", "other"}]
    BY <1>a, <1>17, Deleting DEF DeleteProduct, FormTypeOK
  <2> QED
    BY <1>17, <2>1 DEF DeleteProduct, DeleteFails, NoBulk, FormTypeOK, SaveRec
<1>18. ASSUME NEW p \in Product, LateDelete(p)
       PROVE  FormTypeOK'
  BY <1>18, Deleting DEF LateDelete, FormTypeOK, SaveRec
<1>19. CASE ConfirmDelete
  BY <1>19 DEF ConfirmDelete, FormTypeOK
<1>20. CASE DeleteSucceeds
  BY <1>20 DEF DeleteSucceeds, NoBulk, FormTypeOK
<1>21. CASE UNCHANGED formVars
  BY <1>21 DEF formVars, FormTypeOK
<1> QED
  BY <1>1, <1>2, <1>3, <1>4, <1>5, <1>6, <1>7, <1>8, <1>9, <1>10, <1>11, <1>12, <1>13, <1>14, <1>15,
     <1>16, <1>17, <1>18, <1>19, <1>20, <1>21 DEF FormNext

(* The forms, the saves and the bulk delete keep their shape. *)
THEOREM FormTypeCorrect == FormSpec => []FormTypeOK
<1>1. FormInit => FormTypeOK
  <2> HAVE FormInit
  <2>1. NoForm \in FormRec /\ NoSave \in SaveRec /\ Nothing \in [meta : Meta, codes : SUBSET Code]
    BY ProductDeskAssumption DEF NoForm, NoSave, Nothing, FormRec, SaveRec, FormOf, SaveAt
  <2>2. sku \in [Code -> {"free", "edited", "other"}] /\ save \in [Save -> SaveRec]
    BY <2>1 DEF FormInit
  <2>3. bulk \in [ids : SUBSET Product, todo : SUBSET Product]
    BY DEF FormInit, NoBulk
  <2>4. others \in 0..MaxOthers /\ failures \in 0..MaxFailures
    BY ProductDeskAssumption DEF FormInit
  <2>5. form \in FormRec /\ data \in [meta : Meta, codes : SUBSET Code] /\ got = data
    BY <2>1 DEF FormInit
  <2> QED
    BY <2>2, <2>3, <2>4, <2>5, ProductDeskAssumption DEF FormInit, FormTypeOK, FormRec, SaveRec
<1> QED
  BY <1>1, FormTypeStep, PTL DEF FormSpec
(* What a save that is alone in changing the product has stored so far. *)
StoredSoFar(s) ==
  meta = save[s].meta /\ \A c \in save[s].rows : c \in save[s].left \/ sku[c] = "edited"

SavesAreDone ==
  \A s \in Save :
    /\ save[s].at = "post" => save[s].of = "new"
    /\ save[s].at = "put" => save[s].left = save[s].rows
    /\ save[s].of = "edited" /\ save[s].at = "rows" /\ save[s].alone => StoredSoFar(s)

(* A bulk delete has deleted all but those it still has to. *)
DeletesAreDone == \A p \in bulk.ids : p \in live => p \in bulk.todo

(* Who disturbs every save of the product may change what it likes of it. *)
LEMMA DisturbedAreDone ==
  ASSUME FormTypeOK, SavesAreDone, save' = Disturbed(save)
  PROVE  SavesAreDone'
<1>1. save \in [Save -> SaveRec]
  BY DEF FormTypeOK, SaveRec
<1>2. \A s \in Save : LET x == save'[s] IN
        /\ x.of = save[s].of /\ x.at = save[s].at /\ x.meta = save[s].meta
        /\ x.rows = save[s].rows /\ x.left = save[s].left
        /\ x.alone => x.of # "edited"
  BY <1>1, DisturbedSaves
<1> QED
  BY <1>2 DEF SavesAreDone, StoredSoFar

LEMMA SavesAreDoneStep == FormTypeOK /\ SavesAreDone /\ [FormNext]_formVars => SavesAreDone'
<1> SUFFICES ASSUME FormTypeOK, SavesAreDone, [FormNext]_formVars
             PROVE  SavesAreDone'
  OBVIOUS
<1> USE DEF rowVars
<1>a. save \in [Save -> SaveRec] /\ sku \in [Code -> {"free", "edited", "other"}]
  BY DEF FormTypeOK, SaveRec
<1>1. CASE OthersWork
  <2>1. CASE save' = Disturbed(save)
    BY <2>1, DisturbedAreDone
  <2>2. CASE /\ \E c \in Code : sku[c] = "free" /\ sku' = [sku EXCEPT ![c] = "other"]
             /\ UNCHANGED <<meta, save>>
    BY <1>a, <2>2 DEF SavesAreDone, StoredSoFar, SaveRec
  <2>3. CASE UNCHANGED <<meta, sku, save>>
    BY <2>3 DEF SavesAreDone, StoredSoFar
  <2> QED
    BY <1>1, <2>1, <2>2, <2>3, Deleting DEF OthersWork, FormTypeOK
<1>2. ASSUME UNCHANGED <<meta, sku, save>>
      PROVE  SavesAreDone'
  BY <1>2 DEF SavesAreDone, StoredSoFar
<1>3. CASE Refetch \/ ReadProduct \/ AnswerProduct \/ ReadFails \/ Type \/ CloseForm
             \/ ConfirmDelete \/ DeleteSucceeds
  BY <1>2, <1>3 DEF Refetch, ReadProduct, AnswerProduct, ReadFails, Type, CloseForm, ConfirmDelete,
                    DeleteSucceeds
<1>4. ASSUME NEW f \in {"edited", "new"}, OpenForm(f)
      PROVE  SavesAreDone'
  BY <1>2, <1>4 DEF OpenForm
<1>5. ASSUME NEW s \in Save, SubmitForm(s)
      PROVE  SavesAreDone'
  <2>1. /\ UNCHANGED <<meta, sku>>
        /\ \A t \in Save : t # s => save'[t] = save[t]
        /\ save'[s].at \in {"post", "put"} /\ save'[s].left = save'[s].rows
        /\ save'[s].at = "post" => save'[s].of = "new"
    BY <1>a, <1>5 DEF SubmitForm
  <2> QED
    BY <2>1 DEF SavesAreDone, StoredSoFar
<1>6. ASSUME NEW s \in Save, UNCHANGED <<meta, sku>>, save' = [save EXCEPT ![s].at = "failed"]
      PROVE  SavesAreDone'
  <2>1. save'[s].at = "failed" /\ \A t \in Save : t # s => save'[t] = save[t]
    BY <1>a, <1>6 DEF SaveRec
  <2> QED
    BY <1>6, <2>1 DEF SavesAreDone, StoredSoFar
<1>7. ASSUME NEW s \in Save, PostProduct(s)
      PROVE  SavesAreDone'
  <2>1. CASE /\ \A c \in save[s].rows : sku[c] = "free"
             /\ sku' = [c \in Code |-> IF c \in save[s].rows THEN "other" ELSE sku[c]]
             /\ save' = [save EXCEPT ![s].at = "rows", ![s].left = {}]
    <3>1. /\ save'[s].of = "new" /\ save'[s].at = "rows"
          /\ \A t \in Save : t # s => save'[t] = save[t]
      BY <1>a, <1>7, <2>1 DEF PostProduct, SavesAreDone, SaveRec
    <3>2. meta' = meta /\ \A c \in Code : sku[c] = "edited" => sku'[c] = "edited"
      BY <1>a, <1>7, <2>1 DEF PostProduct
    <3> QED
      BY <1>a, <3>1, <3>2 DEF SavesAreDone, StoredSoFar, SaveRec
  <2> QED
    BY <1>6, <1>7, <2>1 DEF PostProduct, Refused
<1>8. ASSUME NEW s \in Save, PutProduct(s)
      PROVE  SavesAreDone'
  <2>1. CASE meta' = save[s].meta /\ save' = [Disturbed(save) EXCEPT ![s] = [save[s] EXCEPT !.at = "rows"]]
    <3> DEFINE x == [save[s] EXCEPT !.at = "rows"]
    <3>1. Disturbed(save) \in [Save -> SaveRec]
      BY <1>a, DisturbedSaves
    <3>2. save'[s] = x /\ \A t \in Save : t # s => save'[t] = Disturbed(save)[t]
      BY <2>1, <3>1
    <3>3. x.meta = save[s].meta /\ x.rows = save[s].rows /\ x.left = save[s].rows /\ x.at = "rows"
      BY <1>a, <1>8 DEF SaveRec, PutProduct, SavesAreDone
    <3>4. ASSUME NEW t \in Save, t # s
          PROVE  /\ save'[t].at = save[t].at /\ save'[t].of = save[t].of /\ save'[t].left = save[t].left
                 /\ save'[t].rows = save[t].rows /\ (save'[t].alone => save'[t].of # "edited")
      BY <1>a, <3>2, <3>4, DisturbedSaves
    <3>5. /\ save'[s].at = "rows" /\ meta' = save'[s].meta
          /\ \A c \in save'[s].rows : c \in save'[s].left
      BY <2>1, <3>2, <3>3
    <3> HIDE DEF x
    <3> QED
      BY <3>4, <3>5 DEF SavesAreDone, StoredSoFar
  <2> QED
    BY <1>6, <1>8, <2>1 DEF PutProduct, Refused
<1>9. ASSUME NEW s \in Save, PutSku(s)
      PROVE  SavesAreDone'
  <2>1. PICK c \in save[s].left :
          IF edited \in live /\ sku[c] = "free"
          THEN /\ sku' = [sku EXCEPT ![c] = "edited"]
               /\ save' = [save EXCEPT ![s].left = @ \ {c}]
          ELSE Refused(s) /\ UNCHANGED sku
    BY <1>9 DEF PutSku
  <2>2. CASE edited \in live /\ sku[c] = "free"
    <3>1. c \in Code
      BY <1>a DEF SaveRec
    <3>2. sku'[c] = "edited" /\ meta' = meta /\ \A d \in Code : d # c => sku'[d] = sku[d]
      BY <1>a, <1>9, <2>1, <2>2, <3>1 DEF PutSku
    <3>3. /\ save'[s].left = save[s].left \ {c} /\ save'[s].at = "rows"
          /\ save'[s].of = save[s].of /\ save'[s].rows = save[s].rows
          /\ save'[s].alone = save[s].alone /\ save'[s].meta = save[s].meta
          /\ \A t \in Save : t # s => save'[t] = save[t]
      BY <1>a, <1>9, <2>1, <2>2 DEF PutSku, SaveRec
    <3> QED
      BY <1>a, <1>9, <3>1, <3>2, <3>3 DEF SavesAreDone, StoredSoFar, SaveRec, PutSku
  <2>3. CASE ~(edited \in live /\ sku[c] = "free")
    BY <1>6, <1>9, <2>1, <2>3 DEF PutSku, Refused
  <2> QED
    BY <2>2, <2>3
<1>10. ASSUME NEW s \in Save, SaveLost(s)
       PROVE  SavesAreDone'
  BY <1>6, <1>10 DEF SaveLost, Refused
<1>11. ASSUME NEW s \in Save, SaveSucceeds(s) \/ SaveFails(s)
       PROVE  SavesAreDone'
  <2>1. /\ UNCHANGED <<meta, sku>> /\ save'[s].at = "none"
        /\ \A t \in Save : t # s => save'[t] = save[t]
    BY <1>a, <1>11 DEF SaveSucceeds, SaveFails, NoSave
  <2> QED
    BY <2>1 DEF SavesAreDone, StoredSoFar
<1>12. ASSUME NEW p \in Product, Toggle(p)
       PROVE  SavesAreDone'
  BY <1>2, <1>12 DEF Toggle
<1>13. ASSUME NEW p \in Product, DeleteProduct(p) \/ LateDelete(p)
       PROVE  SavesAreDone'
  <2>1. meta' = meta /\ (UNCHANGED <<sku, save>> \/ save' = Disturbed(save))
    BY <1>13, Deleting DEF DeleteProduct, LateDelete
  <2> QED
    BY <1>2, <2>1, DisturbedAreDone
<1>14. CASE UNCHANGED formVars
  BY <1>2, <1>14 DEF formVars
<1> QED
  BY <1>1, <1>3, <1>4, <1>5, <1>7, <1>8, <1>9, <1>10, <1>11, <1>12, <1>13, <1>14 DEF FormNext

LEMMA DeletesAreDoneStep == FormTypeOK /\ DeletesAreDone /\ [FormNext]_formVars => DeletesAreDone'
<1> SUFFICES ASSUME FormTypeOK, DeletesAreDone, [FormNext]_formVars
             PROVE  DeletesAreDone'
  OBVIOUS
<1> USE DEF rowVars, bulkVars
<1>1. ASSUME live' \subseteq live, UNCHANGED bulk
      PROVE  DeletesAreDone'
  BY <1>1 DEF DeletesAreDone
<1>2. CASE OthersWork
  BY <1>1, <1>2 DEF OthersWork, Delete
<1>3. CASE Refetch \/ ReadProduct \/ AnswerProduct \/ ReadFails \/ Type \/ CloseForm
  BY <1>1, <1>3 DEF Refetch, ReadProduct, AnswerProduct, ReadFails, Type, CloseForm
<1>4. ASSUME NEW f \in {"edited", "new"}, OpenForm(f)
      PROVE  DeletesAreDone'
  BY <1>1, <1>4 DEF OpenForm
<1>5. ASSUME NEW s \in Save,
             SubmitForm(s) \/ PostProduct(s) \/ PutProduct(s) \/ PutSku(s) \/ SaveLost(s)
               \/ SaveSucceeds(s) \/ SaveFails(s)
      PROVE  DeletesAreDone'
  BY <1>1, <1>5 DEF SubmitForm, PostProduct, PutProduct, PutSku, SaveLost, SaveSucceeds, SaveFails
<1>6. ASSUME NEW p \in Product, DeleteProduct(p)
      PROVE  DeletesAreDone'
  <2>1. CASE bulk' = NoBulk
    BY <2>1 DEF DeletesAreDone, NoBulk
  <2>2. CASE p \in live /\ Delete(p) /\ bulk' = [bulk EXCEPT !.todo = @ \ {p}]
    BY <2>2 DEF DeletesAreDone, Delete, FormTypeOK
  <2> QED
    BY <1>6, <2>1, <2>2 DEF DeleteProduct, DeleteFails
<1>7. ASSUME NEW p \in Product, Toggle(p) \/ LateDelete(p)
      PROVE  DeletesAreDone'
  BY <1>1, <1>7 DEF Toggle, LateDelete, Delete
<1>8. CASE ConfirmDelete \/ DeleteSucceeds
  BY <1>8 DEF ConfirmDelete, DeleteSucceeds, NoBulk, DeletesAreDone
<1>9. CASE UNCHANGED formVars
  BY <1>1, <1>9 DEF formVars
<1> QED
  BY <1>2, <1>3, <1>4, <1>5, <1>6, <1>7, <1>8, <1>9 DEF FormNext

(* What the console reports as saved is stored, unless somebody else changed the product     *)
(* meanwhile, and what it reports as deleted is gone, whatever else is under way in the tab. *)
THEOREM ReportsAreTrue == FormSpec => []DoneMeansDone
<1>1. FormInit => SavesAreDone /\ DeletesAreDone
  BY DEF FormInit, SavesAreDone, DeletesAreDone, NoSave, NoBulk
<1>2. FormTypeOK /\ SavesAreDone /\ DeletesAreDone => DoneMeansDone
  BY DEF FormTypeOK, SavesAreDone, StoredSoFar, DeletesAreDone, DoneMeansDone, Saved, Deleted, Stored
<1> QED
  BY <1>1, <1>2, SavesAreDoneStep, DeletesAreDoneStep, FormTypeCorrect, PTL DEF FormSpec
(* Only a form on the screen holds what the admin typed. *)
TypedIsVisible == form.typed => Visible

LEMMA TypedIsVisibleStep == FormTypeOK /\ TypedIsVisible /\ [FormNext]_formVars => TypedIsVisible'
<1> SUFFICES ASSUME FormTypeOK, TypedIsVisible, [FormNext]_formVars
             PROVE  TypedIsVisible'
  OBVIOUS
<1> USE DEF pageVars, TypedIsVisible, Visible
<1>a. form \in FormRec
  BY DEF FormTypeOK, FormRec
<1>1. CASE OthersWork \/ Refetch \/ ReadProduct \/ ConfirmDelete \/ DeleteSucceeds \/ UNCHANGED formVars
  BY <1>1 DEF OthersWork, Refetch, ReadProduct, ConfirmDelete, DeleteSucceeds, formVars
<1>2. CASE AnswerProduct
  BY <1>a, <1>2 DEF AnswerProduct, FormRec
<1>3. CASE ReadFails
  <2>1. [NoForm EXCEPT !.of = "edited"].typed = FALSE
    BY DEF NoForm
  <2> QED
    BY <1>a, <1>3, <2>1 DEF ReadFails, FormRec
<1>4. CASE Type
  BY <1>a, <1>4 DEF Type, FormRec
<1>5. CASE CloseForm
  BY <1>5 DEF CloseForm, NoForm
<1>6. ASSUME NEW f \in {"edited", "new"}, OpenForm(f)
      PROVE  TypedIsVisible'
  BY <1>6 DEF OpenForm, NoForm
<1>7. ASSUME NEW s \in Save,
             SubmitForm(s) \/ PostProduct(s) \/ PutProduct(s) \/ PutSku(s) \/ SaveLost(s)
               \/ SaveSucceeds(s) \/ SaveFails(s)
      PROVE  TypedIsVisible'
  <2>1. CASE SubmitForm(s) \/ SaveFails(s)
    BY <1>a, <2>1 DEF SubmitForm, SaveFails, FormRec
  <2>2. CASE SaveSucceeds(s)
    BY <2>2 DEF SaveSucceeds, NoForm
  <2>3. CASE PostProduct(s) \/ PutProduct(s) \/ PutSku(s) \/ SaveLost(s)
    BY <2>3 DEF PostProduct, PutProduct, PutSku, SaveLost
  <2> QED
    BY <1>7, <2>1, <2>2, <2>3
<1>8. ASSUME NEW p \in Product, Toggle(p) \/ DeleteProduct(p) \/ LateDelete(p)
      PROVE  TypedIsVisible'
  BY <1>8 DEF Toggle, DeleteProduct, LateDelete
<1> QED
  BY <1>1, <1>2, <1>3, <1>4, <1>5, <1>6, <1>7, <1>8 DEF FormNext

(* What the admin typed is gone only by the admin's own hand, by a reading of the product     *)
(* that brings something new or fails, or by a save that succeeds.                            *)
THEOREM EditsSurvive == FormSpec => TypedEditsSurvive
<1>1. FormInit => TypedIsVisible
  BY DEF FormInit, TypedIsVisible, NoForm
<1>2. ASSUME FormTypeOK, TypedIsVisible, [FormNext]_formVars, form.typed, ~form'.typed
      PROVE  \/ CloseForm
             \/ form.of = "edited" /\ (data' # data \/ broken')
             \/ \E s \in Save : Saved(s) /\ save'[s] = NoSave
  <2> USE DEF pageVars
  <2>a. form \in FormRec /\ save \in [Save -> SaveRec]
    BY <1>2 DEF FormTypeOK, FormRec, SaveRec
  <2>1. CASE AnswerProduct
    BY <1>2, <2>a, <2>1 DEF AnswerProduct, FormRec, TypedIsVisible, Visible
  <2>2. CASE ReadFails
    BY <1>2, <2>2 DEF ReadFails
  <2>3. CASE Type
    BY <1>2, <2>a, <2>3 DEF Type, FormRec
  <2>4. ASSUME NEW f \in {"edited", "new"}, OpenForm(f)
        PROVE  FALSE
    BY <1>2, <2>4 DEF OpenForm, TypedIsVisible, Visible
  <2>5. ASSUME NEW s \in Save, SubmitForm(s) \/ SaveFails(s)
        PROVE  FALSE
    BY <1>2, <2>a, <2>5 DEF SubmitForm, SaveFails, FormRec
  <2>6. ASSUME NEW s \in Save, SaveSucceeds(s)
        PROVE  Saved(s) /\ save'[s] = NoSave
    BY <2>a, <2>6 DEF SaveSucceeds
  <2>7. ASSUME NEW s \in Save, PostProduct(s) \/ PutProduct(s) \/ PutSku(s) \/ SaveLost(s)
        PROVE  FALSE
    BY <1>2, <2>7 DEF PostProduct, PutProduct, PutSku, SaveLost
  <2>8. ASSUME NEW p \in Product, Toggle(p) \/ DeleteProduct(p) \/ LateDelete(p)
        PROVE  FALSE
    BY <1>2, <2>8 DEF Toggle, DeleteProduct, LateDelete
  <2>9. CASE OthersWork \/ Refetch \/ ReadProduct \/ ConfirmDelete \/ DeleteSucceeds \/ UNCHANGED formVars
    BY <1>2, <2>9 DEF OthersWork, Refetch, ReadProduct, ConfirmDelete, DeleteSucceeds, formVars
  <2> QED
    BY <1>2, <2>1, <2>2, <2>3, <2>4, <2>5, <2>6, <2>7, <2>8, <2>9 DEF FormNext
<1>3. FormTypeOK /\ TypedIsVisible /\ [FormNext]_formVars =>
        [form.typed /\ ~form'.typed =>
           \/ CloseForm
           \/ form.of = "edited" /\ (data' # data \/ broken')
           \/ \E s \in Save : Saved(s) /\ save'[s] = NoSave]_formVars
  BY <1>2
<1> QED
  BY <1>1, <1>3, TypedIsVisibleStep, FormTypeCorrect, PTL DEF FormSpec, TypedEditsSurvive
--------------------------------------------------------------------------------
(* The product list of the storefront.  The first and the last of some products. *)
LEMMA Firstly ==
  ASSUME NEW S, S \subseteq Id, S # {}
  PROVE  \E p \in S : \A q \in S : p <= q
<1>1. IsWellFoundedOn({p \in Nat \X Nat : p[1] < p[2]}, Nat)
  BY NatLessThanWellFounded DEF OpToRel
<1>2. S \subseteq Nat
  BY ShelvesAssumption DEF Id
<1>3. PICK p \in S : \A q \in S : <<q, p>> \notin {r \in Nat \X Nat : r[1] < r[2]}
  BY <1>1, <1>2, WFMin
<1>4. \A m, n \in Nat : <<m, n>> \notin {r \in Nat \X Nat : r[1] < r[2]} => n <= m
  OBVIOUS
<1> QED
  BY <1>2, <1>3, <1>4

LEMMA Lastly ==
  ASSUME NEW S, S \subseteq Id, S # {}
  PROVE  Max(S) \in S /\ \A p \in S : p <= Max(S)
<1> DEFINE Mirror == {q \in Id : MaxId + 1 - q \in S}
<1>0. \A p \in S : p \in Int /\ 1 <= p /\ p <= MaxId
  BY ShelvesAssumption DEF Id
<1>1. \A p \in S : MaxId + 1 - p \in Mirror
  BY <1>0, ShelvesAssumption DEF Id
<1>2. PICK q \in Mirror : \A r \in Mirror : q <= r
  <2>1. Mirror \subseteq Id /\ Mirror # {}
    BY <1>1
  <2> HIDE DEF Mirror
  <2> QED
    BY <2>1, Firstly
<1>3. MaxId + 1 - q \in S /\ q \in Int
  BY <1>2, ShelvesAssumption DEF Id
<1>4. \A p \in S : q <= MaxId + 1 - p
  BY <1>1, <1>2
<1>5. \A p \in S : MaxId + 1 - q >= p
  BY <1>0, <1>3, <1>4, ShelvesAssumption
<1>6. \A p \in S : Max(S) >= p
  BY <1>3, <1>5 DEF Max
<1>7. Max(S) \in S
  BY <1>3, <1>5 DEF Max
<1> QED
  BY <1>0, <1>6, <1>7

(* The first rows are a beginning of the rows, and all of them when there are no more. *)
LEMMA FirstRows ==
  ASSUME NEW rows, rows \subseteq Id, NEW n \in Nat \ {0}
  PROVE  /\ First(n, rows) \subseteq rows
         /\ \A p \in First(n, rows), q \in rows : q < p => q \in First(n, rows)
         /\ rows # {} => First(n, rows) # {}
         /\ Cardinality(rows) <= n => First(n, rows) = rows
<1> DEFINE Before(p) == {q \in rows : q < p}
<1>0. /\ IsFiniteSet(rows) /\ Cardinality(rows) \in Nat
      /\ \A p : IsFiniteSet(Before(p)) /\ Cardinality(Before(p)) \in Nat
  <2>1. IsFiniteSet(Id)
    BY FS_Interval, ShelvesAssumption DEF Id
  <2>2. IsFiniteSet(rows)
    BY <2>1, FS_Subset
  <2>3. \A p : IsFiniteSet(Before(p))
    BY <2>2, FS_Subset
  <2> QED
    BY <2>2, <2>3, FS_CardinalityType
<1>1. \A p : p \in First(n, rows) <=> p \in rows /\ Cardinality(Before(p)) < n
  BY DEF First
<1>2. rows \subseteq Int
  BY ShelvesAssumption DEF Id
<1>3. ASSUME NEW p \in First(n, rows), NEW q \in rows, q < p
      PROVE  q \in First(n, rows)
  <2>1. p \in Int /\ q \in Int
    BY <1>1, <1>2
  <2>2. Before(q) \subseteq Before(p)
    <3> SUFFICES ASSUME NEW r \in rows, r < q PROVE r < p
      OBVIOUS
    <3>1. r \in Int
      BY <1>2
    <3> QED
      BY <1>3, <2>1, <3>1
  <2>3. Cardinality(Before(q)) <= Cardinality(Before(p))
    BY <1>0, <2>2, FS_Subset
  <2>4. Cardinality(Before(p)) < n
    BY <1>1, <1>3
  <2>5. Cardinality(Before(q)) < n
    BY <1>0, <2>3, <2>4
  <2> QED
    BY <1>1, <2>5
<1>4. ASSUME rows # {}
      PROVE  First(n, rows) # {}
  <2>1. PICK p \in rows : \A q \in rows : p <= q
    BY <1>4, Firstly
  <2>2. Before(p) = {}
    <3> SUFFICES ASSUME NEW q \in rows, q < p PROVE FALSE
      OBVIOUS
    <3>1. p \in Int /\ q \in Int
      BY <1>2
    <3> QED
      BY <2>1, <3>1
  <2>3. Cardinality(Before(p)) = 0
    BY <2>2, FS_EmptySet
  <2> QED
    BY <1>1, <2>1, <2>3
<1>5. ASSUME Cardinality(rows) <= n, NEW p \in rows
      PROVE  p \in First(n, rows)
  <2>1. Before(p) \subseteq rows /\ Before(p) # rows
    BY <1>2
  <2>2. Cardinality(Before(p)) <= Cardinality(rows) /\ Cardinality(Before(p)) # Cardinality(rows)
    BY <1>0, <2>1, FS_Subset
  <2>3. Cardinality(Before(p)) < n
    BY <1>0, <1>5, <2>2
  <2> QED
    BY <1>1, <2>3
<1> QED
  BY <1>1, <1>3, <1>4, <1>5

(* What a page after cursor c tells, as long as it is kept: the products it shows come after  *)
(* c, and no steady one is left out up to the next cursor, or up to the end if there is none. *)
Tells(c, pg) ==
  /\ pg \in Page /\ pg.next \in Cursor
  /\ \A p \in pg.items : c < p
  /\ pg.next # 0 =>
       /\ c < pg.next /\ \A p \in pg.items : p <= pg.next
       /\ \A p \in steady : c < p /\ p <= pg.next => p \in pg.items
  /\ pg.items # {} /\ pg.next = 0 => \A p \in steady : c < p => p \in pg.items

LEMMA FreshPageTells ==
  ASSUME NEW c \in Cursor, onSale \subseteq Id, steady \subseteq onSale
  PROVE  Tells(c, ListPage(c))
<1> DEFINE rows == Rows(c)
           items == First(PageSize, rows)
           next == NextCursor(rows)
<1>0. /\ rows \subseteq Id /\ rows \subseteq Int /\ Id \subseteq Int /\ c \in Int
      /\ \A p \in rows : c < p
      /\ rows # {} => rows = {p \in onSale : p > c}
  <2>1. Id \subseteq Int /\ c \in Int
    BY ShelvesAssumption DEF Id, Cursor
  <2>2. rows = {} \/ rows = {p \in onSale : p > c}
    BY DEF Rows
  <2>3. ASSUME NEW p \in rows PROVE p \in Id /\ c < p
    BY <2>1, <2>2
  <2> QED
    BY <2>1, <2>2, <2>3
<1>1. ListPage(c) = [items |-> items, next |-> next]
  BY DEF ListPage
<1>2. /\ items \subseteq rows
      /\ \A p \in items, q \in rows : q < p => q \in items
      /\ rows # {} => items # {}
      /\ Cardinality(rows) <= PageSize => items = rows
  BY <1>0, FirstRows, ShelvesAssumption
<1>3. Cardinality(rows) \in Nat /\ PageSize \in Nat
  <2>1. IsFiniteSet(Id)
    BY FS_Interval, ShelvesAssumption DEF Id
  <2> QED
    BY <1>0, <2>1, FS_Subset, FS_CardinalityType, ShelvesAssumption
<1>4. CASE Cardinality(rows) > PageSize
  <2>1. rows # {}
    BY <1>3, <1>4, FS_EmptySet
  <2>2. items # {} /\ items \subseteq Id
    BY <1>0, <1>2, <2>1
  <2>3. next = Max(items)
    BY <1>4 DEF NextCursor
  <2> HIDE DEF rows, items, next
  <2>4. next \in items /\ \A p \in items : p <= next
    BY <2>2, <2>3, Lastly
  <2>5. next \in Id /\ c < next /\ next # 0 /\ next \in Cursor
    BY <1>0, <1>2, <2>4, ShelvesAssumption DEF Id, Cursor
  <2>6. ASSUME NEW p \in steady, c < p, p <= next PROVE p \in items
    <3>1. p \in rows /\ p \in Int /\ next \in Int
      BY <1>0, <2>1, <2>5, <2>6
    <3>2. CASE p = next
      BY <2>4, <3>2
    <3>3. CASE p < next
      BY <1>2, <2>4, <3>1, <3>3
    <3> QED
      BY <2>6, <3>1, <3>2, <3>3
  <2>7. ListPage(c) \in Page
    BY <1>1, <2>2, <2>5 DEF Page
  <2>8. \A p \in items : c < p
    BY <1>0, <1>2
  <2> QED
    BY <1>1, <2>4, <2>5, <2>6, <2>7, <2>8 DEF Tells
<1>5. CASE ~(Cardinality(rows) > PageSize)
  <2>1. items = rows /\ next = 0
    BY <1>2, <1>3, <1>5 DEF NextCursor
  <2> HIDE DEF rows, items, next
  <2>2. ListPage(c) \in Page /\ next \in Cursor
    BY <1>0, <1>1, <2>1, ShelvesAssumption DEF Page, Cursor
  <2>3. \A p \in items : c < p
    BY <1>0, <2>1
  <2>4. items # {} => \A p \in steady : c < p => p \in items
    BY <1>0, <2>1
  <2> QED
    BY <1>1, <2>1, <2>2, <2>3, <2>4 DEF Tells
<1> QED
  BY <1>4, <1>5

LEMMA EmptyPageTells ==
  ASSUME NEW c \in Cursor
  PROVE  Tells(c, [NoPage EXCEPT !.next = 0])
<1>1. [NoPage EXCEPT !.next = 0] = [items |-> {}, next |-> 0]
  BY DEF NoPage
<1>2. 0 \in Cursor
  BY ShelvesAssumption DEF Cursor
<1> QED
  BY <1>1, <1>2 DEF Tells, Page

(* What is steady only gets less. *)
LEMMA StillTells ==
  ASSUME NEW c, NEW pg, Tells(c, pg), steady' \subseteq steady
  PROVE  Tells(c, pg)'
BY DEF Tells

ShelvesKept ==
  /\ onSale \subseteq Id /\ steady \subseteq onSale
  /\ cached \in [Cursor -> Page]
  /\ \A c \in Cursor : cached[c] # NoPage => Tells(c, cached[c])

(* The walk has shown each steady product up to its cursor, and nothing beyond but the page. *)
Walked ==
  /\ twice = {} /\ shown \subseteq Id /\ cursor \in Cursor
  /\ grid = NoPage \/ Tells(cursor, grid)
  /\ grid # NoPage =>
       /\ grid.items \subseteq shown
       /\ \A p \in shown : p <= cursor \/ p \in grid.items
       /\ \A p \in steady : p <= cursor => p \in shown

LEMMA ShowWalks ==
  ASSUME ShelvesKept, Walked, NEW c \in Cursor, NEW pg, Tells(c, pg), Show(c, pg),
         c = 0 \/ (grid # NoPage /\ c = grid.next), steady' = steady
  PROVE  Walked'
<1>0. /\ cursor' = c /\ grid' = pg
      /\ shown' = (IF c = 0 THEN {} ELSE shown) \union pg.items
      /\ twice' = IF c = 0 THEN {} ELSE twice \union (shown \intersect pg.items)
  BY DEF Show
<1>1. /\ c \in Int /\ cursor \in Int /\ shown \subseteq Id /\ steady \subseteq Id /\ Id \subseteq Int
      /\ \A p \in Id : p > 0
      /\ pg.items \subseteq Id /\ \A p \in pg.items : c < p
  BY ShelvesAssumption DEF ShelvesKept, Walked, Tells, Page, Cursor, Id
<1>2. Tells(c, pg)'
  BY StillTells
<1>3. CASE c = 0
  <2>1. twice' = {} /\ shown' = pg.items
    BY <1>0, <1>3
  <2>2. \A p \in steady' : ~(p <= c)
    <3> SUFFICES ASSUME NEW p \in steady PROVE ~(p <= c)
      OBVIOUS
    <3>1. p \in Int /\ p > 0
      BY <1>1
    <3> QED
      BY <1>3, <3>1
  <2>3. Tells(cursor, grid)'
    BY <1>0, <1>2 DEF Tells
  <2> QED
    BY <1>0, <1>1, <2>1, <2>2, <2>3 DEF Walked
<1>4. CASE c # 0
  <2>1. grid # NoPage /\ c = grid.next /\ Tells(cursor, grid)
    BY <1>4 DEF Walked
  <2>2. /\ \A p \in grid.items : p <= c
        /\ cursor < c
        /\ \A p \in steady : cursor < p /\ p <= c => p \in grid.items
    BY <1>4, <2>1 DEF Tells
  <2>3. /\ grid.items \subseteq shown
        /\ \A p \in shown : p <= cursor \/ p \in grid.items
        /\ \A p \in steady : p <= cursor => p \in shown
    BY <2>1 DEF Walked
  <2>4. \A p \in shown : p <= c
    <3> SUFFICES ASSUME NEW p \in shown PROVE p <= c
      OBVIOUS
    <3>1. p \in Int
      BY <1>1
    <3> QED
      BY <1>1, <2>2, <2>3, <3>1
  <2>5. shown \intersect pg.items = {}
    <3> SUFFICES ASSUME NEW p \in shown, p \in pg.items PROVE FALSE
      OBVIOUS
    <3>1. p \in Int
      BY <1>1
    <3> QED
      BY <1>1, <2>4, <3>1
  <2>6. \A p \in steady : p <= c => p \in shown
    <3> SUFFICES ASSUME NEW p \in steady, p <= c PROVE p \in shown
      OBVIOUS
    <3>1. p \in Int
      BY <1>1
    <3>2. p <= cursor \/ cursor < p
      BY <1>1, <3>1
    <3> QED
      BY <2>2, <2>3, <3>2
  <2>7. twice' = {} /\ shown' = shown \union pg.items
    BY <1>0, <1>4, <2>5 DEF Walked
  <2>8. Tells(cursor, grid)'
    BY <1>0, <1>2 DEF Tells
  <2> QED
    BY <1>0, <1>1, <2>4, <2>6, <2>7, <2>8 DEF Walked
<1> QED
  BY <1>3, <1>4

LEMMA WalkStep == ShelvesKept /\ Walked /\ [WalkNext]_shelfVars => ShelvesKept' /\ Walked'
<1> SUFFICES ASSUME ShelvesKept, Walked, [WalkNext]_shelfVars
             PROVE  ShelvesKept' /\ Walked'
  OBVIOUS
<1>1. ASSUME UNCHANGED <<onSale, steady>>, cached' \in [Cursor -> Page],
             \A c \in Cursor : cached'[c] \in {cached[c], NoPage, ListPage(c)}
      PROVE  ShelvesKept'
  <2> SUFFICES ASSUME NEW c \in Cursor, cached'[c] # NoPage
               PROVE  Tells(c, cached[c])'
    BY <1>1 DEF ShelvesKept
  <2>1. Tells(c, cached'[c])
    BY <1>1, FreshPageTells DEF ShelvesKept
  <2> QED
    BY <1>1, <2>1 DEF Tells
<1>2. ASSUME UNCHANGED walkVars, steady' \subseteq steady
      PROVE  Walked'
  <2>1. UNCHANGED <<twice, shown, cursor, grid>>
    BY <1>2 DEF walkVars
  <2>2. grid = NoPage \/ Tells(cursor, grid)'
    BY <1>2, <2>1 DEF Walked, Tells
  <2> QED
    BY <1>2, <2>1, <2>2 DEF Walked
<1>3. ASSUME NEW c \in Cursor, Request(c), UNCHANGED catalogVars,
             c = 0 \/ (grid # NoPage /\ c = grid.next)
      PROVE  ShelvesKept' /\ Walked'
  <2>0. UNCHANGED <<onSale, steady>> /\ onSale \subseteq Id /\ steady \subseteq onSale
    BY <1>3 DEF catalogVars, ShelvesKept
  <2>1. Tells(c, ListPage(c)) /\ ListPage(c) \in Page
    BY <2>0, FreshPageTells DEF Tells
  <2>2. PICK pg : /\ Show(c, pg) /\ Tells(c, pg)
                  /\ cached' = cached \/ cached' = [cached EXCEPT ![c] = ListPage(c)]
    BY <1>3, <2>1, EmptyPageTells DEF Request, ShelvesKept
  <2>3. ShelvesKept'
    BY <1>1, <2>0, <2>1, <2>2 DEF ShelvesKept
  <2>4. Walked'
    BY <1>3, <2>0, <2>2, ShowWalks
  <2> QED
    BY <2>3, <2>4
<1>4. CASE OpenList
  <2>1. 0 \in Cursor
    BY ShelvesAssumption DEF Cursor
  <2> QED
    BY <1>3, <1>4, <2>1 DEF OpenList
<1>5. CASE LoadMore
  <2>1. grid.next > 0
    BY <1>5 DEF LoadMore
  <2>2. grid # NoPage
    BY <2>1 DEF NoPage
  <2>3. grid.next \in Cursor
    BY <2>2 DEF Walked, Tells
  <2> QED
    BY <1>3, <1>5, <2>2, <2>3 DEF LoadMore
<1>6. ASSUME NEW p \in Id, ChangeCatalog(p)
      PROVE  ShelvesKept' /\ Walked'
  <2>1. /\ steady' = steady \ {p} /\ UNCHANGED <<cached, walkVars>>
        /\ onSale' = onSale \/ onSale' = (onSale \ {p}) \union ({p} \ onSale)
    BY <1>6 DEF ChangeCatalog
  <2>2. onSale' \subseteq Id /\ steady' \subseteq onSale'
    BY <2>1 DEF ShelvesKept
  <2>3. \A c \in Cursor : cached[c] # NoPage => Tells(c, cached[c])'
    BY <2>1 DEF ShelvesKept, Tells
  <2> QED
    BY <1>2, <2>1, <2>2, <2>3 DEF ShelvesKept
<1>7. ASSUME NEW c \in Cursor, Revalidate(c) \/ Drop(c)
      PROVE  ShelvesKept' /\ Walked'
  <2>1. UNCHANGED <<onSale, steady, walkVars>> /\ onSale \subseteq Id /\ steady \subseteq onSale
    BY <1>7 DEF Revalidate, Drop, catalogVars, ShelvesKept
  <2>2. ListPage(c) \in Page
    BY <2>1, FreshPageTells DEF Tells
  <2>3. NoPage \in Page
    BY DEF NoPage, Page
  <2>4. cached' \in {[cached EXCEPT ![c] = ListPage(c)], [cached EXCEPT ![c] = NoPage]}
    BY <1>7 DEF Revalidate, Drop
  <2> QED
    BY <1>1, <1>2, <2>1, <2>2, <2>3, <2>4 DEF ShelvesKept
<1>8. CASE UNCHANGED shelfVars
  <2>1. UNCHANGED <<onSale, steady, cached, walkVars>>
    BY <1>8 DEF shelfVars, catalogVars
  <2>2. \A c \in Cursor : cached[c] # NoPage => Tells(c, cached[c])'
    BY <2>1 DEF ShelvesKept, Tells
  <2> QED
    BY <1>2, <2>1, <2>2 DEF ShelvesKept
<1> QED
  BY <1>4, <1>5, <1>6, <1>7, <1>8 DEF WalkNext

(* A customer who pages through the list to a last page of products has been shown every     *)
(* product that was there all along, once, for any number of products and changes, any size  *)
(* of the pages and any age of the cached ones: a page goes on after the last product of the  *)
(* one before, wherever that stands by then.                                                  *)
THEOREM WalkIsWhole == WalkSpec => []WalkListsAll
<1>1. WalkInit => ShelvesKept /\ Walked
  <2> SUFFICES ASSUME WalkInit PROVE ShelvesKept /\ Walked
    OBVIOUS
  <2>1. NoPage \in Page /\ 0 \in Cursor
    BY ShelvesAssumption DEF NoPage, Page, Cursor
  <2> QED
    BY <2>1 DEF WalkInit, ShelvesKept, Walked
<1>2. ShelvesKept /\ Walked => WalkListsAll
  <2> SUFFICES ASSUME ShelvesKept, Walked, grid.items # {}, grid.next = 0, NEW p \in steady
               PROVE  p \in shown
    BY DEF WalkListsAll, Walked
  <2>1. grid # NoPage /\ Tells(cursor, grid)
    <3>1. NoPage.items = {}
      BY DEF NoPage
    <3>2. grid # NoPage
      BY <3>1
    <3> QED
      BY <3>2 DEF Walked
  <2>2. p \in Int /\ cursor \in Int
    <3>1. p \in Id /\ cursor \in Cursor
      BY DEF ShelvesKept, Walked
    <3>2. Id \subseteq Int /\ Cursor \subseteq Int
      BY ShelvesAssumption DEF Id, Cursor
    <3> QED
      BY <3>1, <3>2
  <2>3. cursor < p => p \in grid.items
    BY <2>1 DEF Tells
  <2> QED
    BY <2>1, <2>2, <2>3 DEF Walked
<1> QED
  BY <1>1, <1>2, WalkStep, PTL DEF WalkSpec
================================================================================
