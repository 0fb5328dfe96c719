-------------------------------- MODULE OrderSaga --------------------------------
(***************************************************************************)
(* The order service from checkout to delivery: StartCheckoutUseCase, the  *)
(* Stripe webhook, the payment-result consumer with MarkPaymentSucceeded   *)
(* and MarkPaymentFailed, the admin status update, and the reconciliation  *)
(* cron, over one PostgreSQL database, RabbitMQ, the catalog and Stripe.   *)
(*                                                                         *)
(* One process runs everything (the consumer's comment pins the service to *)
(* one instance); its async handlers interleave at every await.  A call to *)
(* the catalog or to Stripe is one step; a call that times out fails at    *)
(* once and may still be executed later.  An order id stands for one call  *)
(* of StartCheckout, which draws a fresh UUID, and for its PaymentIntent,  *)
(* whose idempotency key is the order id.                                  *)
(***************************************************************************)
EXTENDS Integers, Sequences, FiniteSets

CONSTANTS
  Order, Sku, Stock, Lines,  \* as in ReservationLedger
  Consumer,     \* deliveries handled at once (the channel's prefetch)
  Admin,        \* admin status requests handled at once
  NoHandler, NoJob,
  MaxAttempts,  \* bound: payment attempts of a customer on one PaymentIntent
  Batch,        \* take: rows that one run of the orphan query returns
  Faults,       \* the kinds of fault that occur
  MaxFaults     \* bound: faults in one behaviour

Handler == Consumer \union Admin

Event == [order : Order, attempt : 1..MaxAttempts, kind : {"succeeded", "failed"}]
Request == [order : Order, attempt : {0}, kind : {"ship", "deliver"}]
Job == Event \union Request

FaultKind == {"crash", "catalog", "stripe", "publish", "db", "lockTimeout"}

ASSUME SagaAssumption ==
  /\ Stock \in [Sku -> Int]
  /\ Lines \in [Order -> [Sku -> Nat]]
  /\ Consumer \intersect Admin = {}
  /\ NoHandler \notin Handler /\ NoJob \notin Job
  /\ MaxAttempts \in Nat /\ MaxFaults \in Nat /\ Batch \in Nat
  /\ Faults \subseteq FaultKind

VARIABLES
  status, piid,  \* orders: the row's status ("NONE": no row), and is its intent id set?
  outbox,        \* outbox[o]: kinds of the outbox_events rows of o, in commit order
  checkout,      \* checkout[o]: where the StartCheckout call of o is
  free, held,    \* the catalog's stock and reservations (ReservationLedger)
  late,          \* catalog calls given up by their caller, executed later if ever
  intents,       \* PaymentIntents that exist at Stripe
  stripe,        \* payment events Stripe has emitted and delivers until it sees a 2xx
  recorded,      \* webhook_events rows
  publishing,    \* webhook handlers between their insert and their publish
  queue,         \* messages in the payment-result queues that are not acked
  dlq,           \* messages dead-lettered
  advisory,      \* advisory[o]: the handler whose transaction holds the lock of o
  expired,       \* history: orders of which a lock has expired under a handler at work
  pc, job,       \* pc[h], job[h]: where handler h is and what it handles
  seen,          \* seen[h]: the status its findById read
  requeue,       \* requeue[h]: will it nack with requeue instead of ack?
  cron,          \* is a reconciliation running? (its busy flag)
  sweep,         \* candidates it has not called the catalog for yet
  alerts,        \* orders it has logged as payment.reconcile_required
  faults         \* faults so far

rowVars == <<status, piid, outbox>>
catalogVars == <<free, held, late>>
stripeVars == <<intents, stripe>>
brokerVars == <<recorded, publishing, queue, dlq>>
handlerVars == <<advisory, expired, pc, job, seen, requeue>>
cronVars == <<cron, sweep, alerts>>
vars == <<rowVars, checkout, catalogVars, stripeVars, brokerVars, handlerVars, cronVars, faults>>

Catalog == INSTANCE ReservationLedger

Paid == {e.order : e \in {x \in stripe : x.kind = "succeeded"}}
Declined == {e.order : e \in {x \in stripe : x.kind = "failed"}}

Lifecycle == INSTANCE LooseLifecycle WITH paid <- Paid

CanTransition(from, to) == Lifecycle!CanTransition(from, to)

Settled == {"CONFIRMED", "SHIPPED", "DELIVERED"}

Init ==
  /\ status = [o \in Order |-> "NONE"]
  /\ piid = [o \in Order |-> FALSE]
  /\ outbox = [o \in Order |-> << >>]
  /\ checkout = [o \in Order |-> "start"]
  /\ Catalog!Init /\ late = {}
  /\ intents = {} /\ stripe = {}
  /\ recorded = {} /\ publishing = {} /\ queue = {} /\ dlq = {}
  /\ advisory = [o \in Order |-> NoHandler] /\ expired = {}
  /\ pc = [h \in Handler |-> "idle"]
  /\ job = [h \in Handler |-> NoJob]
  /\ seen = [h \in Handler |-> "NONE"]
  /\ requeue = [h \in Handler |-> FALSE]
  /\ cron = "idle" /\ sweep = {} /\ alerts = {}
  /\ faults = 0

Fault(kind) ==
  /\ kind \in Faults
  /\ faults < MaxFaults
  /\ faults' = faults + 1

(* repository.save: the row, its outbox event and its audit row in one transaction. *)
SaveOrder(o, to, intent, event) ==
  /\ status' = [status EXCEPT ![o] = to]
  /\ piid' = [piid EXCEPT ![o] = intent]
  /\ outbox' = [outbox EXCEPT ![o] = @ \o event]
--------------------------------------------------------------------------------
(* The catalog's side. *)

(* releaseForOrder answers 200 whether or not there is something to release. *)
ReleaseIfHeld(o) ==
  IF o \in held THEN Catalog!Release(o) ELSE UNCHANGED <<free, held>>

ReserveIfPossible(o) ==
  IF o \notin held /\ Catalog!Covers(o) THEN Catalog!Reserve(o) ELSE UNCHANGED <<free, held>>

(* A call its caller has given up is executed after all. *)
LateCall(o, what) ==
  /\ <<what, o>> \in late
  /\ late' = late \ {<<what, o>>}
  /\ IF what = "reserve" THEN ReserveIfPossible(o) ELSE ReleaseIfHeld(o)
  /\ UNCHANGED <<rowVars, checkout, stripeVars, brokerVars, handlerVars, cronVars, faults>>
--------------------------------------------------------------------------------
(* Checkout.  In memory the order is PENDING at "start", INVENTORY_RESERVED at *)
(* "intent" and PAYMENT_PENDING at "save"; no row exists before a Save step.   *)

At(o, from, to) == checkout[o] = from /\ checkout' = [checkout EXCEPT ![o] = to]

ReserveInventory(o) ==
  /\ At(o, "start", "intent")
  /\ Catalog!Reserve(o)
  /\ UNCHANGED <<rowVars, late, stripeVars, brokerVars, handlerVars, cronVars, faults>>

ReserveRefused(o) ==
  /\ At(o, "start", "cancelInventory")
  /\ ~Catalog!Covers(o)
  /\ UNCHANGED <<rowVars, catalogVars, stripeVars, brokerVars, handlerVars, cronVars, faults>>

(* CATALOG_UNAVAILABLE: refused connection, 5xx, or no answer within the timeout. *)
ReserveTimesOut(o) ==
  /\ At(o, "start", "cancelInventory")
  /\ Fault("catalog")
  /\ late' = late \union {<<"reserve", o>>}
  /\ UNCHANGED <<rowVars, free, held, stripeVars, brokerVars, handlerVars, cronVars>>

CreateIntent(o) ==
  /\ At(o, "intent", "save")
  /\ intents' = intents \union {o}
  /\ UNCHANGED <<rowVars, catalogVars, stripe, brokerVars, handlerVars, cronVars, faults>>

(* PAYMENT_GATEWAY_FAILED; when only the answer is lost the intent exists. *)
CreateIntentFails(o) ==
  /\ At(o, "intent", "compensate")
  /\ Fault("stripe")
  /\ intents' \in {intents, intents \union {o}}
  /\ UNCHANGED <<rowVars, catalogVars, stripe, brokerVars, handlerVars, cronVars>>

Compensate(o) ==
  /\ At(o, "compensate", "cancelPayment")
  /\ ReleaseIfHeld(o)
  /\ UNCHANGED <<rowVars, late, stripeVars, brokerVars, handlerVars, cronVars, faults>>

(* The result of the compensating release is not looked at. *)
CompensateTimesOut(o) ==
  /\ At(o, "compensate", "cancelPayment")
  /\ Fault("catalog")
  /\ late' = late \union {<<"release", o>>}
  /\ UNCHANGED <<rowVars, free, held, stripeVars, brokerVars, handlerVars, cronVars>>

SaveCancelled(o) ==
  /\ \E from \in {"cancelInventory", "cancelPayment"} : At(o, from, "refused")
  /\ SaveOrder(o, "CANCELLED", FALSE, <<"cancelled">>)
  /\ UNCHANGED <<catalogVars, stripeVars, brokerVars, handlerVars, cronVars, faults>>

(* The intent id is attached before the save. *)
SaveCreated(o) ==
  /\ At(o, "save", "cart")
  /\ SaveOrder(o, "PAYMENT_PENDING", TRUE, <<"created">>)
  /\ UNCHANGED <<catalogVars, stripeVars, brokerVars, handlerVars, cronVars, faults>>

(* The cart is deleted and the client secret answered. *)
DeleteCart(o) ==
  /\ At(o, "cart", "answered")
  /\ UNCHANGED <<rowVars, catalogVars, stripeVars, brokerVars, handlerVars, cronVars, faults>>

(* PostgreSQL or Redis throws; nothing in execute catches it. *)
CheckoutThrows(o) ==
  /\ \E from \in {"cancelInventory", "cancelPayment", "save", "cart"} : At(o, from, "failed")
  /\ Fault("db")
  /\ UNCHANGED <<rowVars, catalogVars, stripeVars, brokerVars, handlerVars, cronVars>>
--------------------------------------------------------------------------------
(* Stripe and its webhook. *)

AttemptsOf(o) == {e.attempt : e \in {x \in stripe : x.order = o}}

Payable(o) == o \in intents /\ checkout[o] = "answered"

(* The customer tries to pay with the client secret the checkout answered; *)
(* after a declined attempt the same intent can be tried again.            *)
Pay(o, kind) ==
  /\ Payable(o)
  /\ o \notin Paid
  /\ Cardinality(AttemptsOf(o)) < MaxAttempts
  /\ stripe' = stripe \union
       {[order |-> o, attempt |-> Cardinality(AttemptsOf(o)) + 1, kind |-> kind]}
  /\ UNCHANGED <<rowVars, checkout, catalogVars, intents, brokerVars, handlerVars, cronVars, faults>>

(* recordIfNew inserts the row.  A delivery of a recorded event is answered 200 and no more. *)
RecordEvent(e) ==
  /\ e \in stripe /\ e \notin recorded
  /\ recorded' = recorded \union {e}
  /\ publishing' = publishing \union {e}
  /\ UNCHANGED <<rowVars, checkout, catalogVars, stripeVars, queue, dlq, handlerVars, cronVars, faults>>

PublishEvent(e) ==
  /\ e \in publishing
  /\ publishing' = publishing \ {e}
  /\ queue' = queue \union {e}
  /\ UNCHANGED <<rowVars, checkout, catalogVars, stripeVars, recorded, dlq, handlerVars, cronVars, faults>>

(* The handler answers 500; the retries it asks for find the row of recordIfNew. *)
PublishFails(e) ==
  /\ e \in publishing
  /\ Fault("publish")
  /\ publishing' = publishing \ {e}
  /\ UNCHANGED <<rowVars, checkout, catalogVars, stripeVars, recorded, queue, dlq, handlerVars, cronVars>>
--------------------------------------------------------------------------------
(* Handlers: PaymentResultConsumer's deliveries and the admin's PATCH, which all *)
(* run their use case under withAdvisoryLock.                                    *)

Target(kind) ==
  CASE kind = "succeeded" -> "CONFIRMED"
    [] kind = "failed"    -> "CANCELLED"
    [] kind = "ship"      -> "SHIPPED"
    [] kind = "deliver"   -> "DELIVERED"

OutboxEvent(kind) ==
  CASE kind = "succeeded" -> <<"confirmed">>
    [] kind = "failed"    -> <<"cancelled">>
    [] kind = "ship"      -> <<"shipped">>
    [] kind = "deliver"   -> << >>

Assign(h, j) ==
  /\ pc[h] = "idle"
  /\ pc' = [pc EXCEPT ![h] = "enter"]
  /\ job' = [job EXCEPT ![h] = j]
  /\ UNCHANGED <<rowVars, checkout, catalogVars, stripeVars, brokerVars, advisory, expired, seen,
                 requeue, cronVars, faults>>

Deliver(c, e) ==
  /\ e \in queue /\ \A d \in Consumer : job[d] # e
  /\ Assign(c, e)

AdminRequest(a, r) ==
  /\ status[r.order] # "NONE"
  /\ Assign(a, r)

(* What a use case does with the row it found: release first, save, or nothing more. *)

(* Mutant: no idempotency check, and a confirm that does not ask the table. *)
MarkPaymentSucceededAgain(s, hasIntent) ==
  IF hasIntent /\ s # "CANCELLED" THEN "save" ELSE "leave"

MarkPaymentSucceeded(s, hasIntent) ==
  IF hasIntent /\ CanTransition(s, "CONFIRMED") THEN "save" ELSE "leave"

(* Mutant: the release is left to the cron. *)
MarkPaymentFailedWithoutRelease(s) ==
  IF CanTransition(s, "CANCELLED") THEN "save" ELSE "leave"

MarkPaymentFailed(s) ==
  IF s \in {"NONE", "CANCELLED"} THEN "leave" ELSE "release"

UpdateOrderStatus(s, to) ==
  IF CanTransition(s, to) THEN "save" ELSE "leave"

Decide(kind, s, hasIntent) ==
  CASE kind = "succeeded" -> MarkPaymentSucceeded(s, hasIntent)
    [] kind = "failed"    -> MarkPaymentFailed(s)
    [] OTHER              -> UpdateOrderStatus(s, Target(kind))

(* Mutant: find and save without withAdvisoryLock. *)
GrantableAlways(o) == TRUE

Grantable(o) == advisory[o] = NoHandler

(* Mutant: every error of a use case is terminal. *)
RequeuesNothing(kind, error) == FALSE

(* Which errors the consumer nacks with requeue; it acks the others. *)
Requeues(kind, error) ==
  \/ error = "CATALOG_UNAVAILABLE"
  \/ kind = "succeeded" /\ error = "ORDER_NOT_FOUND"

(* pg_advisory_xact_lock is granted, then findById. *)
Enter(h) ==
  /\ pc[h] = "enter"
  /\ LET o == job[h].order
         kind == job[h].kind
         error == IF status[o] = "NONE" THEN "ORDER_NOT_FOUND" ELSE "none"
     IN /\ Grantable(o)
        /\ advisory' = [advisory EXCEPT ![o] = h]
        /\ seen' = [seen EXCEPT ![h] = status[o]]
        /\ pc' = [pc EXCEPT ![h] = Decide(kind, status[o], piid[o])]
        /\ requeue' = [requeue EXCEPT ![h] = Requeues(kind, error)]
  /\ UNCHANGED <<rowVars, checkout, catalogVars, stripeVars, brokerVars, expired, job, cronVars, faults>>

(* MarkPaymentFailed releases the stock first, and asks the aggregate to cancel after. *)
ReleaseInventory(h) ==
  /\ pc[h] = "release"
  /\ ReleaseIfHeld(job[h].order)
  /\ pc' = [pc EXCEPT ![h] = IF CanTransition(seen[h], "CANCELLED") THEN "save" ELSE "leave"]
  /\ UNCHANGED <<rowVars, checkout, late, stripeVars, brokerVars, advisory, expired, job, seen,
                 requeue, cronVars, faults>>

ReleaseTimesOut(h) ==
  /\ pc[h] = "release"
  /\ Fault("catalog")
  /\ late' = late \union {<<"release", job[h].order>>}
  /\ pc' = [pc EXCEPT ![h] = "leave"]
  /\ requeue' = [requeue EXCEPT ![h] = Requeues(job[h].kind, "CATALOG_UNAVAILABLE")]
  /\ UNCHANGED <<rowVars, checkout, free, held, stripeVars, brokerVars, advisory, expired, job, seen,
                 cronVars>>

SaveTransition(h) ==
  /\ pc[h] = "save"
  /\ LET o == job[h].order
         kind == job[h].kind
     IN SaveOrder(o, Target(kind), piid[o], OutboxEvent(kind))
  /\ pc' = [pc EXCEPT ![h] = "leave"]
  /\ UNCHANGED <<checkout, catalogVars, stripeVars, brokerVars, advisory, expired, job, seen, requeue,
                 cronVars, faults>>

Unlock(h) == advisory' = [o \in Order |-> IF advisory[o] = h THEN NoHandler ELSE advisory[o]]

(* The transaction around the use case commits: the lock is gone before the ack. *)
Leave(h) ==
  /\ pc[h] = "leave"
  /\ advisory[job[h].order] = h
  /\ Unlock(h)
  /\ pc' = [pc EXCEPT ![h] = "settle"]
  /\ UNCHANGED <<rowVars, checkout, catalogVars, stripeVars, brokerVars, expired, job, seen, requeue,
                 cronVars, faults>>

Finish(h) ==
  /\ pc' = [pc EXCEPT ![h] = "idle"]
  /\ job' = [job EXCEPT ![h] = NoJob]
  /\ seen' = [seen EXCEPT ![h] = "NONE"]
  /\ requeue' = [requeue EXCEPT ![h] = FALSE]

(* ack, nack with requeue, or the HTTP answer. *)
Settle(h) ==
  /\ pc[h] = "settle"
  /\ queue' = IF requeue[h] THEN queue ELSE queue \ {job[h]}
  /\ Finish(h)
  /\ UNCHANGED <<rowVars, checkout, catalogVars, stripeVars, recorded, publishing, dlq, advisory,
                 expired, cronVars, faults>>

(* Mutant: the catch block of the consumer acks. *)
AbandonAcked(h) ==
  /\ Unlock(h)
  /\ queue' = queue \ {job[h]}
  /\ Finish(h)
  /\ UNCHANGED <<rowVars, checkout, catalogVars, stripeVars, recorded, publishing, dlq, expired, cronVars>>

(* The use case throws: the lock's transaction rolls back, a message is dead-lettered. *)
Abandon(h) ==
  /\ Unlock(h)
  /\ queue' = queue \ {job[h]}
  /\ dlq' = dlq \union ({job[h]} \intersect Event)
  /\ Finish(h)
  /\ UNCHANGED <<rowVars, checkout, catalogVars, stripeVars, recorded, publishing, expired, cronVars>>

HandlerThrows(h) ==
  /\ pc[h] \in {"enter", "save", "leave"}
  /\ Fault("db")
  /\ Abandon(h)

(* withAdvisoryLock sets no timeout, so Prisma rolls its transaction back after five   *)
(* seconds and the lock is free; the use case inside, which may be waiting for the      *)
(* catalog for longer than that, runs on and saves in a transaction of its own.         *)
LockExpires(h) ==
  /\ pc[h] \in {"release", "save", "leave"}
  /\ advisory[job[h].order] = h
  /\ Fault("lockTimeout")
  /\ Unlock(h)
  /\ expired' = expired \union {job[h].order}
  /\ UNCHANGED <<rowVars, checkout, catalogVars, stripeVars, brokerVars, pc, job, seen, requeue,
                 cronVars>>

(* The commit of a transaction that has expired throws. *)
CommitRefused(h) ==
  /\ pc[h] = "leave"
  /\ advisory[job[h].order] # h
  /\ Abandon(h)
  /\ UNCHANGED faults
--------------------------------------------------------------------------------
(* ReservationCleanupCron. *)

(* Mutant: the predicate widened to orders that wait for their payment. *)
OrphansWidened == {o \in Order : status[o] \in {"CANCELLED", "PAYMENT_PENDING"}}

(* Mutant: only the orders that never got an intent, and are not cancelled yet. *)
OrphansPendingOnly == {o \in Order : status[o] = "PENDING" /\ ~piid[o]}

(* The second half of the query's OR, PENDING rows without an intent, matches no row: *)
(* a checkout saves its order as PAYMENT_PENDING or as CANCELLED.                      *)
Orphans == {o \in Order : status[o] = "CANCELLED" \/ (status[o] = "PENDING" /\ ~piid[o])}

(* take without orderBy: any Batch of them. *)
FindOrphans ==
  /\ cron = "idle"
  /\ cron' = "busy"
  /\ sweep' \in {S \in SUBSET Orphans :
       Cardinality(S) = IF Cardinality(Orphans) < Batch THEN Cardinality(Orphans) ELSE Batch}
  /\ UNCHANGED <<rowVars, checkout, catalogVars, stripeVars, brokerVars, handlerVars, alerts, faults>>

ReleaseOrphan(o) ==
  /\ o \in sweep
  /\ sweep' = sweep \ {o}
  /\ ReleaseIfHeld(o)
  /\ UNCHANGED <<rowVars, checkout, late, stripeVars, brokerVars, handlerVars, cron, alerts, faults>>

(* The candidate is skipped; the next run finds it again. *)
ReleaseOrphanTimesOut(o) ==
  /\ o \in sweep
  /\ Fault("catalog")
  /\ sweep' = sweep \ {o}
  /\ late' = late \union {<<"release", o>>}
  /\ UNCHANGED <<rowVars, checkout, free, held, stripeVars, brokerVars, handlerVars, cron, alerts>>

StalePending == {o \in Order : status[o] = "PENDING" /\ piid[o]}

(* reconcileStalePaidOrders asks Stripe about each row of the query and logs the paid ones. *)
ReconcileStalePaidOrders ==
  /\ cron = "busy" /\ sweep = {}
  /\ cron' = "idle"
  /\ alerts' = alerts \union (StalePending \intersect Paid)
  /\ UNCHANGED <<rowVars, checkout, catalogVars, stripeVars, brokerVars, handlerVars, sweep, faults>>
--------------------------------------------------------------------------------
(* The process dies and starts again: what it held in memory is gone, the database *)
(* drops its locks, and RabbitMQ delivers again what was not acked.                *)
Over == {"answered", "refused", "failed", "start"}

Crash ==
  /\ Fault("crash")
  /\ checkout' = [o \in Order |-> IF checkout[o] \in Over THEN checkout[o] ELSE "failed"]
  /\ publishing' = {}
  /\ cron' = "idle" /\ sweep' = {}
  /\ advisory' = [o \in Order |-> NoHandler]
  /\ pc' = [h \in Handler |-> "idle"]
  /\ job' = [h \in Handler |-> NoJob]
  /\ seen' = [h \in Handler |-> "NONE"]
  /\ requeue' = [h \in Handler |-> FALSE]
  /\ UNCHANGED <<rowVars, catalogVars, stripeVars, recorded, queue, dlq, expired, alerts>>

CheckoutStep(o) ==
  \/ ReserveInventory(o) \/ ReserveRefused(o)
  \/ CreateIntent(o) \/ Compensate(o)
  \/ SaveCancelled(o) \/ SaveCreated(o) \/ DeleteCart(o)

CheckoutFault(o) ==
  ReserveTimesOut(o) \/ CreateIntentFails(o) \/ CompensateTimesOut(o) \/ CheckoutThrows(o)

HandlerStep(h) ==
  \/ Enter(h) \/ ReleaseInventory(h) \/ SaveTransition(h)
  \/ Leave(h) \/ CommitRefused(h) \/ Settle(h)

HandlerFault(h) == ReleaseTimesOut(h) \/ HandlerThrows(h) \/ LockExpires(h)

Next ==
  \/ \E o \in Order :
       \/ CheckoutStep(o) \/ CheckoutFault(o)
       \/ \E kind \in {"succeeded", "failed"} : Pay(o, kind)
       \/ \E what \in {"reserve", "release"} : LateCall(o, what)
       \/ ReleaseOrphan(o) \/ ReleaseOrphanTimesOut(o)
  \/ \E e \in Event : RecordEvent(e) \/ PublishEvent(e) \/ PublishFails(e)
  \/ \E c \in Consumer, e \in Event : Deliver(c, e)
  \/ \E a \in Admin, r \in Request : AdminRequest(a, r)
  \/ \E h \in Handler : HandlerStep(h) \/ HandlerFault(h)
  \/ FindOrphans \/ ReconcileStalePaidOrders
  \/ Crash

Spec == Init /\ [][Next]_vars

(* The process and the database give every step its turn, a waiter of an advisory *)
(* lock is granted it in turn however often others take it, Stripe delivers an     *)
(* event until it is answered 200, the broker hands out what is queued, and the    *)
(* cron fires every ten minutes.  Customers, admins and faults owe nothing.        *)
Fairness ==
  /\ \A o \in Order : WF_vars(CheckoutStep(o))
  /\ WF_vars(\E e \in Event : RecordEvent(e))
  /\ WF_vars(\E e \in Event : PublishEvent(e))
  /\ WF_vars(\E c \in Consumer, e \in Event : Deliver(c, e))
  /\ \A h \in Handler : WF_vars(HandlerStep(h)) /\ SF_vars(Enter(h))
  /\ WF_vars(FindOrphans)
  /\ WF_vars(\E o \in Order : ReleaseOrphan(o))
  /\ WF_vars(ReconcileStalePaidOrders)

FairSpec == Spec /\ Fairness
--------------------------------------------------------------------------------
OutboxKind == {"created", "confirmed", "shipped", "cancelled"}

RowsOK ==
  /\ status \in [Order -> Lifecycle!Status \union {"NONE"}]
  /\ piid \in [Order -> BOOLEAN]
  /\ outbox \in [Order -> Seq(OutboxKind)]

CheckoutOK ==
  checkout \in [Order -> {"start", "intent", "compensate", "cancelInventory", "cancelPayment",
                          "save", "cart", "answered", "refused", "failed"}]

CatalogOK ==
  /\ free \in [Sku -> Int]
  /\ held \in SUBSET Order
  /\ late \in SUBSET ({"reserve", "release"} \X Order)

StripeOK == intents \in SUBSET Order /\ stripe \in SUBSET Event

BrokerOK ==
  /\ recorded \in SUBSET Event /\ publishing \in SUBSET Event
  /\ queue \in SUBSET Event /\ dlq \in SUBSET Event

HandlersOK ==
  /\ advisory \in [Order -> Handler \union {NoHandler}] /\ expired \in SUBSET Order
  /\ pc \in [Handler -> {"idle", "enter", "release", "save", "leave", "settle"}]
  /\ job \in [Handler -> Job \union {NoJob}]
  /\ \A h \in Handler : job[h] = NoJob <=> pc[h] = "idle"
  /\ \A c \in Consumer : job[c] \notin Request
  /\ \A a \in Admin : job[a] \notin Event
  /\ seen \in [Handler -> Lifecycle!Status \union {"NONE"}]
  /\ requeue \in [Handler -> BOOLEAN]

CronOK ==
  /\ cron \in {"idle", "busy"}
  /\ sweep \in SUBSET Order /\ alerts \in SUBSET Order

TypeOK ==
  /\ RowsOK /\ CheckoutOK /\ CatalogOK /\ StripeOK /\ BrokerOK /\ HandlersOK /\ CronOK
  /\ faults \in 0..MaxFaults

(* Whatever handlers, crashes and redeliveries interleave, the row of an order whose locks  *)
(* have lasted only makes the transitions of the aggregate's table: no save overwrites what  *)
(* another handler committed since the row was read (the withAdvisoryLock around find and    *)
(* save).  Where a lock has expired, which the catalog's timeouts allow, a save may overwrite,*)
(* but only a row that is there, never back to waiting, and never to CONFIRMED unless Stripe   *)
(* reported the order paid.                                                                   *)
ImplementsLifecycle == Lifecycle!LooseSpec

(* The stock of an order waiting for its payment, paid or shipped stays reserved      *)
(* against reconciliation, late calls and compensation; only a declined attempt can    *)
(* have released it (the narrow predicate of findOrphanReservations).                  *)
ReservationBacked ==
  \A o \in Order :
    status[o] \in {"PAYMENT_PENDING"} \union Settled => o \in held \/ o \in Declined

(* A cancelled order whose checkout had succeeded holds no stock: MarkPaymentFailed    *)
(* releases before it saves, so that no crash in between strands a reservation that     *)
(* only the cron would find.                                                            *)
CancelledAfterCheckoutHoldsNothing ==
  \A o \in Order : status[o] = "CANCELLED" /\ piid[o] => o \notin held

Told ==
  [NONE            |-> {<< >>},
   PAYMENT_PENDING |-> {<<"created">>},
   CONFIRMED       |-> {<<"created", "confirmed">>},
   SHIPPED         |-> {<<"created", "confirmed", "shipped">>},
   DELIVERED       |-> {<<"created", "confirmed", "shipped">>},
   CANCELLED       |-> {<<"cancelled">>, <<"created", "cancelled">>,
                        <<"created", "confirmed", "cancelled">>}]

(* The event of a status that has one. *)
Says ==
  [PAYMENT_PENDING |-> "created",
   CONFIRMED       |-> "confirmed",
   SHIPPED         |-> "shipped",
   CANCELLED       |-> "cancelled"]

(* The events a subscriber will get tell the row's history once, in order and in full: one   *)
(* transaction writes both, and no handler run twice (a redelivered message, a second admin   *)
(* request) appends its event twice, as long as no lock of the order has expired.  And even    *)
(* when one has, the last event tells the status in which the overwritten row ended.           *)
OutboxTellsTheStory ==
  \A o \in Order :
    /\ o \notin expired => status[o] \in DOMAIN Told /\ outbox[o] \in Told[status[o]]
    /\ status[o] \in DOMAIN Says =>
         outbox[o] # << >> /\ outbox[o][Len(outbox[o])] = Says[status[o]]

(* A payment result is never lost between the webhook and the order while the process   *)
(* and the broker stay up: once recorded it is being published, queued, dead-lettered,   *)
(* or the order is no longer waiting for it, whatever the catalog and database do.       *)
NoPaymentVanishes ==
  \A e \in recorded \ (publishing \union queue \union dlq) :
    status[e.order] # "PAYMENT_PENDING"

DeadLettered(o) == \E e \in dlq : e.order = o

(* A customer who has paid and was never declined gets the order confirmed, or an       *)
(* operator is told: the message is in the dead-letter queue, or the reconciliation      *)
(* cron has logged the order as paid but not confirmed.                                  *)
PaidIsConfirmedOrSurfaced ==
  \A o \in Order :
    o \in Paid ~> \/ status[o] \in Settled \/ o \in Declined
                  \/ DeadLettered(o) \/ o \in alerts

(* A declined attempt ends the wait and gives the stock back, through any number of     *)
(* catalog timeouts, each of which requeues the message.                                *)
DeclineIsCompensated ==
  \A o \in Order :
    o \in Declined ~> \/ status[o] # "PAYMENT_PENDING" /\ o \notin held
                      \/ DeadLettered(o)

(* What a refused or failed checkout left reserved for a cancelled order, because the   *)
(* compensating call timed out or the reserve it gave up was executed after all, the     *)
(* reconciliation cron gives back.                                                      *)
CancelledIsReleased ==
  \A o \in Order : status[o] = "CANCELLED" /\ o \in held ~> o \notin held
================================================================================
