---------------------------- MODULE OrderSagaProofs ----------------------------
(***************************************************************************)
(* Theorems about OrderSaga, for any orders, handlers, faults and bounds.  *)
(*                                                                         *)
(* LifeInv needs no lock: what a handler is about to do its use case has   *)
(* decided from a status of a row with an intent (Allowed, Created), every *)
(* event comes from Stripe (Known) and names a row (PaidAfterSave), and    *)
(* checkout saves only rows that no handler can have read (SavedInTime).   *)
(*                                                                         *)
(* That the rows live the life of the aggregate needs the advisory lock.   *)
(* Of an order whose locks have all lasted, a handler about to save holds  *)
(* the lock (Locked), and the status it read is still the row's (Fresh);   *)
(* of the others only what LifeInv says of its decision is left, and that  *)
(* is what LooseLifecycle allows.  From these follows what the outbox      *)
(* tells, of the orders of both sorts.                                     *)
(*                                                                         *)
(* No payment vanishes unless the process dies or cannot publish: an order *)
(* that is paid is confirmed, or the event waits somewhere (Answered).     *)
(*                                                                         *)
(* A reservation is made once, before the row exists.  From then on every  *)
(* call that could release it is traced to its cause (MayRelease): the     *)
(* order is cancelled, an attempt was declined, or the checkout is over    *)
(* without a row.  A reserve still under way belongs to a checkout that    *)
(* was refused and can never get an intent (LateReserves).                 *)
(***************************************************************************)
EXTENDS OrderSaga, FiniteSetTheorems, SequenceTheorems, TLAPS

(* Whatever the catalog does for an order, stock and holders keep their types. *)
LEMMA CatalogTypes ==
  ASSUME TypeOK, NEW o \in Order,
         ReleaseIfHeld(o) \/ ReserveIfPossible(o) \/ Catalog!Reserve(o) \/ UNCHANGED <<free, held>>
  PROVE  free' \in [Sku -> Int] /\ held' \in SUBSET Order
<1>1. \A s \in Sku : Lines[o][s] \in Nat /\ free[s] \in Int
  BY SagaAssumption DEF TypeOK, CatalogOK
<1> QED
  BY <1>1 DEF TypeOK, CatalogOK, ReleaseIfHeld, ReserveIfPossible, Catalog!Reserve, Catalog!Release

(* A save keeps the types of the tables. *)
LEMMA RowTypes ==
  ASSUME TypeOK, NEW o \in Order, NEW to \in Lifecycle!Status, NEW intent \in BOOLEAN,
         NEW event \in Seq(OutboxKind),
         SaveOrder(o, to, intent, event)
  PROVE  RowsOK'
<1>1. outbox[o] \o event \in Seq(OutboxKind)
  BY ConcatProperties DEF TypeOK, RowsOK
<1> QED
  BY <1>1 DEF TypeOK, RowsOK, SaveOrder

(* A payment event is never an admin request. *)
LEMMA KindsDiffer == Event \intersect Request = {}
BY DEF Event, Request

(* The attempts of an order can be counted. *)
LEMMA AttemptsAreFinite ==
  ASSUME TypeOK, NEW o \in Order
  PROVE  Cardinality(AttemptsOf(o)) \in Nat
<1>1. AttemptsOf(o) \subseteq 1..MaxAttempts
  BY DEF AttemptsOf, TypeOK, StripeOK, Event
<1>2. IsFiniteSet(1..MaxAttempts)
  BY SagaAssumption, FS_Interval
<1> QED
  BY <1>1, <1>2, FS_Subset, FS_CardinalityType

(* A busy handler has a job, and the job says what it is to save. *)
LEMMA JobTypes ==
  ASSUME TypeOK, NEW h \in Handler, pc[h] # "idle"
  PROVE  /\ job[h] \in Job /\ job[h].order \in Order
         /\ Target(job[h].kind) \in Lifecycle!Status
         /\ OutboxEvent(job[h].kind) \in Seq(OutboxKind)
<1>1. job[h] \in Event \union Request
  BY DEF TypeOK, HandlersOK, Job
<1>2. job[h].order \in Order /\ job[h].kind \in {"succeeded", "failed", "ship", "deliver"}
  BY <1>1 DEF Event, Request
<1>3. /\ << >> \in Seq(OutboxKind)
      /\ \A e \in OutboxKind :
           <<e>> \in Seq(OutboxKind)
  BY DEF OutboxKind
<1>4. Target(job[h].kind) \in Lifecycle!Status
  BY <1>2 DEF Target, Lifecycle!Status
<1>5. OutboxEvent(job[h].kind) \in Seq(OutboxKind)
  <2>1. OutboxEvent(job[h].kind) \in {<<"confirmed">>, <<"cancelled">>, <<"shipped">>, << >>}
    BY <1>2 DEF OutboxEvent
  <2> QED
    BY <2>1, <1>3 DEF OutboxKind
<1> QED
  BY <1>1, <1>2, <1>4, <1>5 DEF Job

(* The empty database, broker and memory have their types. *)
LEMMA TypeCorrectInitially == Init => TypeOK
<1> USE SagaAssumption
<1> SUFFICES ASSUME Init PROVE TypeOK
  OBVIOUS
<1>1. RowsOK
  BY DEF Init, RowsOK
<1>2. CheckoutOK /\ CatalogOK /\ StripeOK /\ BrokerOK /\ CronOK
  BY DEF Init, CheckoutOK, CatalogOK, StripeOK, BrokerOK, CronOK, Catalog!Init
<1>3. HandlersOK
  BY DEF Init, HandlersOK, Handler, Job
<1> QED
  BY <1>1, <1>2, <1>3 DEF Init, TypeOK

(* The type invariant, whatever the handlers, the faults and the bounds. *)
THEOREM TypeCorrect == Spec => []TypeOK
<1> USE SagaAssumption
<1>1. Init => TypeOK
  BY TypeCorrectInitially
<1>2. TypeOK /\ [Next]_vars => TypeOK'
  <2> SUFFICES ASSUME TypeOK, [Next]_vars PROVE TypeOK'
    OBVIOUS
  <2> USE DEF TypeOK, RowsOK, CheckoutOK, CatalogOK, StripeOK, BrokerOK, HandlersOK, CronOK,
              rowVars, catalogVars, stripeVars, brokerVars, handlerVars, cronVars
  <2>1. ASSUME NEW o \in Order, ReserveInventory(o) PROVE TypeOK'
    BY <2>1, CatalogTypes DEF ReserveInventory, At
  <2>2. ASSUME NEW o \in Order, ReserveRefused(o) PROVE TypeOK'
    BY <2>2 DEF ReserveRefused, At
  <2>3. ASSUME NEW o \in Order, ReserveTimesOut(o) PROVE TypeOK'
    BY <2>3 DEF ReserveTimesOut, At, Fault
  <2>4. ASSUME NEW o \in Order, CreateIntent(o) PROVE TypeOK'
    BY <2>4 DEF CreateIntent, At
  <2>5. ASSUME NEW o \in Order, CreateIntentFails(o) PROVE TypeOK'
    BY <2>5 DEF CreateIntentFails, At, Fault
  <2>6. ASSUME NEW o \in Order, Compensate(o) PROVE TypeOK'
    BY <2>6, CatalogTypes DEF Compensate, At
  <2>7. ASSUME NEW o \in Order, CompensateTimesOut(o) PROVE TypeOK'
    BY <2>7 DEF CompensateTimesOut, At, Fault
  <2>8. ASSUME NEW o \in Order, SaveCancelled(o) PROVE TypeOK'
    <3>1. RowsOK'
      <4>1. "CANCELLED" \in Lifecycle!Status /\ <<"cancelled">> \in Seq(OutboxKind)
        BY DEF Lifecycle!Status, OutboxKind
      <4> QED
        BY <2>8, <4>1, RowTypes DEF SaveCancelled
    <3> QED
      BY <2>8, <3>1 DEF SaveCancelled, At
  <2>9. ASSUME NEW o \in Order, SaveCreated(o) PROVE TypeOK'
    <3>1. RowsOK'
      <4>1. "PAYMENT_PENDING" \in Lifecycle!Status /\ <<"created">> \in Seq(OutboxKind)
        BY DEF Lifecycle!Status, OutboxKind
      <4> QED
        BY <2>9, <4>1, RowTypes DEF SaveCreated
    <3> QED
      BY <2>9, <3>1 DEF SaveCreated, At
  <2>10. ASSUME NEW o \in Order, DeleteCart(o) PROVE TypeOK'
    BY <2>10 DEF DeleteCart, At
  <2>11. ASSUME NEW o \in Order, CheckoutThrows(o) PROVE TypeOK'
    BY <2>11 DEF CheckoutThrows, At, Fault
  <2>12. ASSUME NEW o \in Order, NEW kind \in {"succeeded", "failed"}, Pay(o, kind) PROVE TypeOK'
    <3>1. stripe' \in SUBSET Event
      <4> DEFINE tried == Cardinality(AttemptsOf(o))
      <4>1. tried \in Nat /\ tried < MaxAttempts
        BY <2>12, AttemptsAreFinite DEF Pay
      <4>2. [order |-> o, attempt |-> tried + 1, kind |-> kind] \in Event
        BY <4>1 DEF Event
      <4> QED
        BY <2>12, <4>2 DEF Pay
    <3> QED
      BY <2>12, <3>1 DEF Pay
  <2>13. ASSUME NEW o \in Order, NEW what \in {"reserve", "release"}, LateCall(o, what) PROVE TypeOK'
    BY <2>13, CatalogTypes DEF LateCall
  <2>14. ASSUME NEW e \in Event, RecordEvent(e) PROVE TypeOK'
    BY <2>14 DEF RecordEvent
  <2>15. ASSUME NEW e \in Event, PublishEvent(e) PROVE TypeOK'
    BY <2>15 DEF PublishEvent
  <2>16. ASSUME NEW e \in Event, PublishFails(e) PROVE TypeOK'
    BY <2>16 DEF PublishFails, Fault
  <2>17. ASSUME NEW c \in Consumer, NEW e \in Event, Deliver(c, e) PROVE TypeOK'
    BY <2>17, KindsDiffer DEF Deliver, Assign, Handler, Job
  <2>18. ASSUME NEW a \in Admin, NEW r \in Request, AdminRequest(a, r) PROVE TypeOK'
    BY <2>18, KindsDiffer DEF AdminRequest, Assign, Handler, Job
  <2>19. ASSUME NEW h \in Handler, Enter(h) PROVE TypeOK'
    BY <2>19, JobTypes DEF Enter, Decide, MarkPaymentSucceeded, MarkPaymentFailed, UpdateOrderStatus,
         Requeues
  <2>20. ASSUME NEW h \in Handler, ReleaseInventory(h) PROVE TypeOK'
    BY <2>20, JobTypes, CatalogTypes DEF ReleaseInventory
  <2>21. ASSUME NEW h \in Handler, ReleaseTimesOut(h) PROVE TypeOK'
    BY <2>21, JobTypes DEF ReleaseTimesOut, Fault, Requeues
  <2>22. ASSUME NEW h \in Handler, SaveTransition(h) PROVE TypeOK'
    <3>1. RowsOK'
      BY <2>22, JobTypes, RowTypes DEF SaveTransition
    <3> QED
      BY <2>22, <3>1 DEF SaveTransition
  <2>23. ASSUME NEW h \in Handler, Leave(h) PROVE TypeOK'
    BY <2>23 DEF Leave, Unlock
  <2>24. ASSUME NEW h \in Handler, Settle(h) PROVE TypeOK'
    BY <2>24 DEF Settle, Finish, Job
  <2>25. ASSUME NEW h \in Handler, HandlerThrows(h) \/ CommitRefused(h) PROVE TypeOK'
    <3>1. Abandon(h) /\ faults' \in 0..MaxFaults
      BY <2>25 DEF HandlerThrows, CommitRefused, Fault
    <3> QED
      BY <3>1 DEF Abandon, Finish, Unlock, Job
  <2>32. ASSUME NEW h \in Handler, LockExpires(h) PROVE TypeOK'
    BY <2>32, JobTypes DEF LockExpires, Unlock, Fault
  <2>26. CASE FindOrphans
    BY <2>26 DEF FindOrphans, Orphans
  <2>27. ASSUME NEW o \in Order, ReleaseOrphan(o) PROVE TypeOK'
    BY <2>27, CatalogTypes DEF ReleaseOrphan
  <2>28. ASSUME NEW o \in Order, ReleaseOrphanTimesOut(o) PROVE TypeOK'
    BY <2>28 DEF ReleaseOrphanTimesOut, Fault
  <2>29. CASE ReconcileStalePaidOrders
    BY <2>29 DEF ReconcileStalePaidOrders, StalePending
  <2>30. CASE Crash
    BY <2>30 DEF Crash, Fault, Over, Handler, Job
  <2>31. CASE UNCHANGED vars
    BY <2>31 DEF vars
  <2> HIDE DEF TypeOK, rowVars, catalogVars, stripeVars, brokerVars, handlerVars, cronVars
  <2> QED
    BY <2>1, <2>2, <2>3, <2>4, <2>5, <2>6, <2>7, <2>8, <2>9, <2>10, <2>11, <2>12, <2>13, <2>14,
       <2>15, <2>16, <2>17, <2>18, <2>19, <2>20, <2>21, <2>22, <2>23, <2>24, <2>25, <2>26, <2>27,
       <2>28, <2>29, <2>30, <2>31, <2>32
    DEF Next, CheckoutStep, CheckoutFault, HandlerStep, HandlerFault
<1> QED
  BY <1>1, <1>2, PTL DEF Spec
--------------------------------------------------------------------------------
(* Every row but that of an order cancelled in its checkout has its intent id. *)
Created == \A o \in Order : status[o] \notin {"NONE", "CANCELLED"} => piid[o]

(* What a handler is about to do, its use case has decided from the status it read. *)
Allowed ==
  \A h \in Handler :
    /\ pc[h] = "release" => job[h].kind = "failed"
    /\ pc[h] = "save" => CanTransition(seen[h], Target(job[h].kind))
    /\ pc[h] \in {"release", "save"} => status[job[h].order] # "NONE" /\ piid[job[h].order]

(* Every event under way is one that Stripe emitted. *)
Known ==
  /\ recorded \subseteq stripe /\ publishing \subseteq stripe /\ queue \subseteq stripe
  /\ \A h \in Handler : job[h] \in Event => job[h] \in stripe

Unsaved == {"start", "intent", "compensate", "cancelInventory", "cancelPayment", "save"}

(* No row before the checkout saves it, and an intent id on it before the answer. *)
SavedInTime ==
  \A o \in Order :
    /\ checkout[o] \in Unsaved => status[o] = "NONE" /\ ~piid[o]
    /\ checkout[o] \in {"cart", "answered"} => status[o] # "NONE" /\ piid[o]

(* The client secret is answered after the save, so nobody pays for a missing row. *)
PaidAfterSave == \A e \in stripe : status[e.order] # "NONE" /\ piid[e.order]

LifeInv ==
  /\ TypeOK
  /\ Created /\ Allowed
  /\ Known
  /\ SavedInTime
  /\ PaidAfterSave

(* No transition leads out of a missing row, or out of CANCELLED. *)
LEMMA NoneIsNoStatus ==
  /\ "NONE" \notin Lifecycle!Status
  /\ \A to : ~CanTransition("NONE", to) /\ ~CanTransition("CANCELLED", to)
BY DEF Lifecycle!Status, CanTransition, Lifecycle!CanTransition, Lifecycle!VALID_TRANSITIONS

(* A checkout's steps touch no handler, and the row only before anybody knows it. *)
LEMMA CheckoutKeepsLife ==
  ASSUME LifeInv, TypeOK', NEW o \in Order,
         UNCHANGED <<stripe, brokerVars, handlerVars>>,
         \A x \in Order \ {o} :
           checkout'[x] = checkout[x] /\ status'[x] = status[x] /\ piid'[x] = piid[x],
         \/ status'[o] = status[o] /\ piid'[o] = piid[o]
         \/ /\ status[o] = "NONE" /\ ~piid[o] /\ status'[o] # "NONE"
            /\ status'[o] # "CANCELLED" => piid'[o],
         /\ checkout'[o] \in Unsaved => status'[o] = "NONE" /\ ~piid'[o]
         /\ checkout'[o] \in {"cart", "answered"} => status'[o] # "NONE" /\ piid'[o]
  PROVE  LifeInv'
<1>1. \A h \in Handler : pc[h] # "idle" => job[h].order \in Order
  BY JobTypes DEF LifeInv
<1>2. Created' /\ Known'
  BY DEF LifeInv, Created, Known, handlerVars, brokerVars
<1>3. Allowed'
  BY <1>1 DEF LifeInv, Allowed, handlerVars, CanTransition, Lifecycle!CanTransition
<1>4. SavedInTime'
  BY DEF LifeInv, SavedInTime
<1>5. PaidAfterSave'
  BY DEF LifeInv, PaidAfterSave, TypeOK, StripeOK, Event
<1> QED
  BY <1>2, <1>3, <1>4, <1>5 DEF LifeInv

(* Steps that only move events, catalog state and the cron's, and give locks back. *)
LEMMA OthersKeepLife ==
  ASSUME LifeInv, TypeOK', UNCHANGED <<status, piid, checkout, stripe, pc, job, seen>>,
         recorded' \subseteq stripe, publishing' \subseteq stripe, queue' \subseteq stripe
  PROVE  LifeInv'
BY DEF LifeInv, Created, Allowed, Known, SavedInTime, PaidAfterSave,
       CanTransition, Lifecycle!CanTransition

(* Steps of one handler that leave the rows alone. *)
LEMMA HandlerKeepsLife ==
  ASSUME LifeInv, TypeOK', NEW h \in Handler,
         UNCHANGED <<status, piid, checkout, stripe, recorded, publishing>>,
         queue' \subseteq queue,
         \A g \in Handler \ {h} :
           pc'[g] = pc[g] /\ job'[g] = job[g] /\ seen'[g] = seen[g],
         job'[h] \in Event => job'[h] \in stripe,
         pc'[h] = "release" => job'[h].kind = "failed",
         pc'[h] = "save" => CanTransition(seen'[h], Target(job'[h].kind)),
         pc'[h] \in {"release", "save"} =>
           status[job'[h].order] # "NONE" /\ piid[job'[h].order]
  PROVE  LifeInv'
<1>1. Allowed'
  BY DEF LifeInv, Allowed
<1>2. Created' /\ Known' /\ SavedInTime' /\ PaidAfterSave'
  BY DEF LifeInv, Created, Known, SavedInTime, PaidAfterSave
<1> QED
  BY <1>1, <1>2 DEF LifeInv

(* What holds of rows, events and handlers whatever is lost, locks included. *)
THEOREM LifeCorrect == Spec => []LifeInv
<1> USE SagaAssumption
<1>1. Init => LifeInv
  <2> SUFFICES ASSUME Init, TypeOK PROVE LifeInv
    BY TypeCorrectInitially
  <2> QED
    BY DEF Init, LifeInv, Created, Allowed, Known, SavedInTime, PaidAfterSave, Job
<1>2. LifeInv /\ TypeOK' /\ [Next]_vars => LifeInv'
  <2> SUFFICES ASSUME LifeInv, TypeOK', [Next]_vars PROVE LifeInv'
    OBVIOUS
  <2>0. /\ status \in [Order -> Lifecycle!Status \union {"NONE"}]
        /\ piid \in [Order -> BOOLEAN]
        /\ DOMAIN checkout = Order
        /\ advisory \in [Order -> Handler \union {NoHandler}]
        /\ DOMAIN pc = Handler /\ DOMAIN job = Handler
        /\ DOMAIN seen = Handler /\ DOMAIN requeue = Handler
        /\ recorded \subseteq stripe /\ publishing \subseteq stripe /\ queue \subseteq stripe
    BY DEF LifeInv, TypeOK, RowsOK, CheckoutOK, HandlersOK, Known
  <2>1. ASSUME NEW o \in Order, CheckoutStep(o) \/ CheckoutFault(o) PROVE LifeInv'
    <3>1. UNCHANGED <<stripe, brokerVars, handlerVars>>
      BY <2>1 DEF CheckoutStep, CheckoutFault, ReserveInventory, ReserveRefused, CreateIntent,
         Compensate, SaveCancelled, SaveCreated, DeleteCart, ReserveTimesOut, CreateIntentFails,
         CompensateTimesOut, CheckoutThrows, stripeVars
    <3>2. CASE SaveCancelled(o) \/ SaveCreated(o)
      <4>1. checkout[o] \in Unsaved
        BY <3>2 DEF SaveCancelled, SaveCreated, At, Unsaved
      <4>2. status[o] = "NONE" /\ ~piid[o]
        BY <4>1 DEF LifeInv, SavedInTime
      <4>3. /\ \A x \in Order \ {o} :
                 checkout'[x] = checkout[x] /\ status'[x] = status[x] /\ piid'[x] = piid[x]
            /\ status'[o] # "NONE" /\ checkout'[o] \notin Unsaved
            /\ status'[o] # "CANCELLED" => piid'[o]
            /\ checkout'[o] \in {"cart", "answered"} => piid'[o]
        BY <3>2, <2>0 DEF SaveCancelled, SaveCreated, SaveOrder, At, Unsaved
      <4> QED
        BY <3>1, <4>2, <4>3, CheckoutKeepsLife
    <3>3. CASE ~(SaveCancelled(o) \/ SaveCreated(o))
      <4>1. UNCHANGED <<status, piid>>
        BY <3>3, <2>1 DEF CheckoutStep, CheckoutFault, ReserveInventory, ReserveRefused,
           CreateIntent, Compensate, DeleteCart, ReserveTimesOut, CreateIntentFails,
           CompensateTimesOut, CheckoutThrows, rowVars
      <4>2. \E from, to : /\ At(o, from, to)
                          /\ to \in Unsaved => from \in Unsaved
                          /\ to \in {"cart", "answered"} => from = "cart"
        BY <3>3, <2>1 DEF CheckoutStep, CheckoutFault, ReserveInventory, ReserveRefused,
           CreateIntent, Compensate, DeleteCart, ReserveTimesOut, CreateIntentFails,
           CompensateTimesOut, CheckoutThrows, Unsaved
      <4>3. /\ \A x \in Order \ {o} : checkout'[x] = checkout[x]
            /\ checkout'[o] \in Unsaved => checkout[o] \in Unsaved
            /\ checkout'[o] \in {"cart", "answered"} => checkout[o] = "cart"
        BY <4>2, <2>0 DEF At
      <4> QED
        BY <3>1, <4>1, <4>3, CheckoutKeepsLife DEF LifeInv, SavedInTime
    <3> QED
      BY <3>2, <3>3
  <2>2. ASSUME NEW o \in Order, NEW kind \in {"succeeded", "failed"}, Pay(o, kind) PROVE LifeInv'
    <3> DEFINE e == [order |-> o, attempt |-> Cardinality(AttemptsOf(o)) + 1, kind |-> kind]
    <3>1. stripe' = stripe \union {e} /\ e.order = o
      BY <2>2 DEF Pay
    <3> HIDE DEF e
    <3>2. status[o] # "NONE" /\ piid[o]
      BY <2>2 DEF Pay, Payable, LifeInv, SavedInTime
    <3>3. UNCHANGED <<status, piid, checkout, recorded, publishing, queue, handlerVars>>
      BY <2>2 DEF Pay, rowVars, brokerVars
    <3>4. PaidAfterSave'
      BY <3>1, <3>2, <3>3 DEF LifeInv, PaidAfterSave
    <3>5. Known'
      BY <3>1, <3>3 DEF LifeInv, Known, handlerVars
    <3> QED
      BY <3>3, <3>4, <3>5 DEF LifeInv, Created, Allowed, SavedInTime, handlerVars,
         CanTransition, Lifecycle!CanTransition
  <2>3. ASSUME NEW o \in Order, NEW what \in {"reserve", "release"}, LateCall(o, what) PROVE LifeInv'
    BY <2>0, <2>3, OthersKeepLife DEF LateCall, rowVars, stripeVars, brokerVars, handlerVars
  <2>4. ASSUME NEW e \in Event, RecordEvent(e) \/ PublishEvent(e) \/ PublishFails(e) PROVE LifeInv'
    BY <2>0, <2>4, OthersKeepLife
    DEF RecordEvent, PublishEvent, PublishFails, rowVars, stripeVars, handlerVars
  <2>5. ASSUME NEW o \in Order, ReleaseOrphan(o) \/ ReleaseOrphanTimesOut(o) PROVE LifeInv'
    BY <2>0, <2>5, OthersKeepLife
    DEF ReleaseOrphan, ReleaseOrphanTimesOut, rowVars, stripeVars, brokerVars, handlerVars
  <2>6. ASSUME FindOrphans \/ ReconcileStalePaidOrders PROVE LifeInv'
    BY <2>0, <2>6, OthersKeepLife
    DEF FindOrphans, ReconcileStalePaidOrders, rowVars, stripeVars, brokerVars, handlerVars
  <2>7. ASSUME NEW h \in Handler, NEW j \in Job, Assign(h, j), j \in Event => j \in stripe
        PROVE  LifeInv'
    <3>1. /\ UNCHANGED <<status, piid, checkout, stripe, recorded, publishing, queue>>
          /\ pc'[h] = "enter" /\ job'[h] = j
          /\ \A g \in Handler \ {h} :
               pc'[g] = pc[g] /\ job'[g] = job[g] /\ seen'[g] = seen[g]
      BY <2>0, <2>7 DEF Assign, rowVars, stripeVars, brokerVars
    <3> QED
      BY <3>1, <2>7, HandlerKeepsLife
  <2>8. ASSUME NEW h \in Handler, Enter(h) PROVE LifeInv'
    <3> DEFINE o == job[h].order
               kind == job[h].kind
    <3>1. /\ UNCHANGED <<status, piid, checkout, stripe, recorded, publishing, queue, job>>
          /\ seen' = [seen EXCEPT ![h] = status[o]]
          /\ pc' = [pc EXCEPT ![h] = Decide(kind, status[o], piid[o])]
      BY <2>8 DEF Enter, rowVars, stripeVars, brokerVars
    <3>2. o \in Order /\ job[h] \in Job
      BY <2>8, JobTypes DEF Enter, LifeInv
    <3>3. kind \in {"succeeded", "failed", "ship", "deliver"}
      BY <3>2 DEF Job, Event, Request
    <3>4. /\ Decide(kind, status[o], piid[o]) \in {"release", "save", "leave"}
          /\ Decide(kind, status[o], piid[o]) # "leave" =>
               status[o] # "NONE" /\ status[o] # "CANCELLED"
          /\ Decide(kind, status[o], piid[o]) = "release" => kind = "failed"
          /\ Decide(kind, status[o], piid[o]) = "save" => CanTransition(status[o], Target(kind))
      BY <3>3, NoneIsNoStatus
      DEF Decide, MarkPaymentSucceeded, MarkPaymentFailed, UpdateOrderStatus,
          Target
    <3>5. /\ pc'[h] = Decide(kind, status[o], piid[o]) /\ seen'[h] = status[o]
          /\ \A g \in Handler \ {h} : pc'[g] = pc[g] /\ job'[g] = job[g] /\ seen'[g] = seen[g]
      BY <2>0, <3>1, <3>2
    <3>6. /\ job[h] \in Event => job[h] \in stripe
          /\ status[o] # "NONE" /\ status[o] # "CANCELLED" => piid[o]
      BY <3>2 DEF LifeInv, Known, Created
    <3> QED
      BY <3>1, <3>4, <3>5, <3>6, HandlerKeepsLife
  <2>9. ASSUME NEW h \in Handler, ReleaseInventory(h) \/ ReleaseTimesOut(h) PROVE LifeInv'
    <3>1. /\ UNCHANGED <<status, piid, checkout, stripe, recorded, publishing, queue, job, seen>>
          /\ pc[h] = "release"
          /\ \A g \in Handler \ {h} : pc'[g] = pc[g]
          /\ \/ pc'[h] = "leave"
             \/ pc'[h] = "save" /\ CanTransition(seen[h], "CANCELLED")
      BY <2>0, <2>9 DEF ReleaseInventory, ReleaseTimesOut, rowVars, stripeVars, brokerVars
    <3>2. /\ job[h].kind = "failed"
          /\ status[job[h].order] # "NONE" /\ piid[job[h].order]
          /\ job[h] \in Event => job[h] \in stripe
      BY <3>1 DEF LifeInv, Allowed, Known
    <3>3. Target("failed") = "CANCELLED"
      BY DEF Target
    <3> QED
      BY <3>1, <3>2, <3>3, HandlerKeepsLife
  <2>10. ASSUME NEW h \in Handler, SaveTransition(h) PROVE LifeInv'
    <3> DEFINE o == job[h].order
    <3>1. /\ UNCHANGED <<checkout, stripe, recorded, publishing, queue, job, seen>>
          /\ pc[h] = "save" /\ pc'[h] = "leave"
          /\ \A g \in Handler \ {h} : pc'[g] = pc[g]
          /\ SaveOrder(o, Target(job[h].kind), piid[o], OutboxEvent(job[h].kind))
      BY <2>0, <2>10 DEF SaveTransition, rowVars, stripeVars, brokerVars
    <3>2. o \in Order /\ Target(job[h].kind) \in Lifecycle!Status
      BY <3>1, JobTypes DEF LifeInv
    <3>3. status[o] # "NONE" /\ piid[o]
      BY <3>1 DEF LifeInv, Allowed
    <3>4. /\ piid' = piid
          /\ status'[o] # "NONE"
          /\ \A x \in Order \ {o} : status'[x] = status[x]
      BY <2>0, <3>1, <3>2, NoneIsNoStatus DEF SaveOrder
    <3>5. Created'
      BY <3>3, <3>4 DEF LifeInv, Created
    <3>6. Allowed'
      <4> SUFFICES ASSUME NEW g \in Handler
                   PROVE  /\ pc'[g] = "release" => job[g].kind = "failed"
                          /\ pc'[g] = "save" => CanTransition(seen[g], Target(job[g].kind))
                          /\ pc'[g] \in {"release", "save"} =>
                               status'[job[g].order] # "NONE" /\ piid[job[g].order]
        BY <3>1, <3>4 DEF Allowed, CanTransition, Lifecycle!CanTransition
      <4>1. pc'[g] \in {"release", "save"} => pc[g] = pc'[g]
        BY <3>1
      <4>2. pc[g] # "idle" => job[g].order \in Order
        BY JobTypes DEF LifeInv
      <4> QED
        BY <4>1, <4>2, <3>4 DEF LifeInv, Allowed
    <3>7. Known'
      BY <3>1 DEF LifeInv, Known
    <3>8. SavedInTime' /\ PaidAfterSave'
      <4>1. checkout[o] \notin Unsaved
        BY <3>2, <3>3 DEF LifeInv, SavedInTime
      <4>2. \A e \in stripe : e.order \in Order
        BY DEF LifeInv, TypeOK, StripeOK, Event
      <4> QED
        BY <4>1, <4>2, <3>1, <3>4 DEF LifeInv, SavedInTime, PaidAfterSave
    <3> QED
      BY <3>5, <3>6, <3>7, <3>8 DEF LifeInv
  <2>11. ASSUME NEW h \in Handler, Leave(h) PROVE LifeInv'
    <3>1. /\ UNCHANGED <<status, piid, checkout, stripe, recorded, publishing, queue, job, seen>>
          /\ pc'[h] = "settle"
          /\ \A g \in Handler \ {h} : pc'[g] = pc[g]
      BY <2>0, <2>11 DEF Leave, rowVars, stripeVars, brokerVars
    <3>2. job[h] \in Event => job[h] \in stripe
      BY DEF LifeInv, Known
    <3> QED
      BY <3>1, <3>2, HandlerKeepsLife
  <2>12. ASSUME NEW h \in Handler, Settle(h) \/ HandlerThrows(h) \/ CommitRefused(h)
         PROVE  LifeInv'
    <3>1. /\ UNCHANGED <<status, piid, checkout, stripe, recorded, publishing>>
          /\ queue' \subseteq queue
          /\ pc'[h] = "idle" /\ job'[h] = NoJob
          /\ \A g \in Handler \ {h} :
               pc'[g] = pc[g] /\ job'[g] = job[g] /\ seen'[g] = seen[g]
      BY <2>0, <2>12
      DEF Settle, HandlerThrows, CommitRefused, Abandon, Finish, rowVars, stripeVars
    <3>2. NoJob \notin Event
      BY DEF Job
    <3> QED
      BY <3>1, <3>2, HandlerKeepsLife
  <2>13. CASE Crash
    <3>1. /\ UNCHANGED <<status, piid, stripe, recorded, queue>>
          /\ publishing' = {}
          /\ \A h \in Handler : pc'[h] = "idle" /\ job'[h] = NoJob
          /\ \A o \in Order : checkout'[o] = checkout[o] \/ checkout'[o] = "failed"
      BY <2>13 DEF Crash, rowVars, stripeVars
    <3>2. NoJob \notin Event
      BY DEF Job
    <3>3. Created' /\ Allowed' /\ Known'
      BY <2>0, <3>1, <3>2 DEF LifeInv, Created, Allowed, Known
    <3>4. SavedInTime' /\ PaidAfterSave'
      BY <3>1 DEF LifeInv, SavedInTime, PaidAfterSave, Unsaved
    <3> QED
      BY <3>3, <3>4 DEF LifeInv
  <2>14. CASE UNCHANGED vars
    BY <2>14, <2>0, OthersKeepLife DEF vars, rowVars, stripeVars, brokerVars, handlerVars
  <2>17. ASSUME NEW h \in Handler, LockExpires(h) PROVE LifeInv'
    BY <2>0, <2>17, OthersKeepLife DEF LockExpires, rowVars, stripeVars, brokerVars
  <2>15. ASSUME NEW c \in Consumer, NEW e \in Event, Deliver(c, e) PROVE LifeInv'
    <3>1. c \in Handler /\ e \in Job /\ e \in stripe /\ Assign(c, e)
      BY <2>0, <2>15 DEF Deliver, Handler, Job
    <3> QED
      BY <3>1, <2>7
  <2>16. ASSUME NEW a \in Admin, NEW r \in Request, AdminRequest(a, r) PROVE LifeInv'
    <3>1. a \in Handler /\ r \in Job /\ r \notin Event /\ Assign(a, r)
      BY <2>16, KindsDiffer DEF AdminRequest, Handler, Job
    <3> QED
      BY <3>1, <2>7
  <2> QED
    BY <2>1, <2>2, <2>3, <2>4, <2>5, <2>6, <2>8, <2>9, <2>10, <2>11, <2>12, <2>13, <2>14, <2>15,
       <2>16, <2>17
    DEF Next, HandlerStep, HandlerFault
<1> QED
  BY <1>1, <1>2, TypeCorrect, PTL DEF Spec

--------------------------------------------------------------------------------
(* A handler that has entered holds the lock of its order until it leaves or the lock expires. *)
Locked ==
  \A h \in Handler :
    pc[h] \in {"release", "save", "leave"} /\ job[h].order \notin expired
      => advisory[job[h].order] = h

(* The status it read is still the row's. *)
Fresh ==
  \A h \in Handler :
    pc[h] \in {"release", "save"} /\ job[h].order \notin expired
      => seen[h] = status[job[h].order]

LockInv == Locked /\ Fresh

(* Steps that leave the handlers alone, and change no row that a handler has read. *)
LEMMA OthersKeepLocks ==
  ASSUME LifeInv, LockInv, UNCHANGED handlerVars,
         \A x \in Order : status'[x] = status[x] \/ status[x] = "NONE"
  PROVE  LockInv'
<1>1. \A h \in Handler : pc[h] # "idle" => job[h].order \in Order
  BY JobTypes DEF LifeInv
<1>2. \A h \in Handler : pc[h] \in {"release", "save"} => status[job[h].order] # "NONE"
  BY DEF LifeInv, Allowed
<1> QED
  BY <1>1, <1>2 DEF LockInv, Locked, Fresh, handlerVars

(* Steps of one handler that leave the rows alone. *)
LEMMA HandlerKeepsLocks ==
  ASSUME LifeInv, LockInv, NEW h \in Handler,
         UNCHANGED status, expired \subseteq expired',
         \A g \in Handler \ {h} :
           pc'[g] = pc[g] /\ job'[g] = job[g] /\ seen'[g] = seen[g],
         \A x \in Order : advisory[x] \notin {h, NoHandler} => advisory'[x] = advisory[x],
         pc'[h] \in {"release", "save", "leave"} /\ job'[h].order \notin expired'
           => advisory'[job'[h].order] = h,
         pc'[h] \in {"release", "save"} /\ job'[h].order \notin expired'
           => seen'[h] = status[job'[h].order]
  PROVE  LockInv'
<1> USE SagaAssumption
<1>1. \A g \in Handler : pc[g] # "idle" => job[g].order \in Order
  BY JobTypes DEF LifeInv
<1>2. Locked'
  BY <1>1 DEF LockInv, Locked
<1>3. Fresh'
  BY <1>1 DEF LockInv, Fresh
<1> QED
  BY <1>2, <1>3 DEF LockInv

(* Find and save of an order are one critical section until a lock of it expires under its *)
(* use case, whatever expires under the handlers of other orders.                          *)
THEOREM LocksCorrect == Spec => []LockInv
<1> USE SagaAssumption
<1>1. Init => LockInv
  BY DEF Init, LockInv, Locked, Fresh
<1>2. LifeInv /\ LockInv /\ [Next]_vars => LockInv'
  <2> SUFFICES ASSUME LifeInv, LockInv, [Next]_vars PROVE LockInv'
    OBVIOUS
  <2>0. /\ status \in [Order -> Lifecycle!Status \union {"NONE"}]
        /\ advisory \in [Order -> Handler \union {NoHandler}]
        /\ DOMAIN pc = Handler /\ DOMAIN job = Handler
        /\ DOMAIN seen = Handler /\ DOMAIN requeue = Handler
    BY DEF LifeInv, TypeOK, RowsOK, HandlersOK
  <2>1. ASSUME NEW o \in Order, SaveCancelled(o) \/ SaveCreated(o) PROVE LockInv'
    <3>1. status[o] = "NONE"
      BY <2>1 DEF SaveCancelled, SaveCreated, At, Unsaved, LifeInv, SavedInTime
    <3>2. UNCHANGED handlerVars /\ \A x \in Order \ {o} : status'[x] = status[x]
      BY <2>0, <2>1 DEF SaveCancelled, SaveCreated, SaveOrder
    <3> QED
      BY <3>1, <3>2, OthersKeepLocks
  <2>2. CASE UNCHANGED <<status, handlerVars>>
    BY <2>2, OthersKeepLocks
  <2>3. ASSUME NEW h \in Handler, NEW j \in Job, Assign(h, j) PROVE LockInv'
    <3>1. /\ UNCHANGED <<status, advisory, expired>>
          /\ pc'[h] = "enter"
          /\ \A g \in Handler \ {h} :
               pc'[g] = pc[g] /\ job'[g] = job[g] /\ seen'[g] = seen[g]
      BY <2>0, <2>3 DEF Assign, rowVars
    <3> QED
      BY <3>1, HandlerKeepsLocks
  <2>4. ASSUME NEW h \in Handler, Enter(h) PROVE LockInv'
    <3> DEFINE o == job[h].order
    <3>1. o \in Order
      BY <2>4, JobTypes DEF Enter, LifeInv
    <3>2. /\ UNCHANGED <<status, job, expired>>
          /\ advisory[o] = NoHandler
          /\ advisory' = [advisory EXCEPT ![o] = h]
          /\ seen' = [seen EXCEPT ![h] = status[o]]
          /\ \A g \in Handler \ {h} : pc'[g] = pc[g]
      BY <2>0, <2>4 DEF Enter, Grantable, rowVars
    <3>3. /\ advisory'[o] = h /\ seen'[h] = status[o]
          /\ \A x \in Order : advisory[x] \notin {h, NoHandler} => advisory'[x] = advisory[x]
          /\ \A g \in Handler \ {h} : seen'[g] = seen[g]
      BY <2>0, <3>1, <3>2
    <3> QED
      BY <3>2, <3>3, HandlerKeepsLocks
  <2>5. ASSUME NEW h \in Handler, ReleaseInventory(h) \/ ReleaseTimesOut(h) PROVE LockInv'
    <3>1. /\ UNCHANGED <<status, advisory, expired, job, seen>>
          /\ pc[h] = "release"
          /\ \A g \in Handler \ {h} : pc'[g] = pc[g]
      BY <2>0, <2>5 DEF ReleaseInventory, ReleaseTimesOut, rowVars
    <3>2. job[h].order \notin expired =>
            advisory[job[h].order] = h /\ seen[h] = status[job[h].order]
      BY <3>1 DEF LockInv, Locked, Fresh
    <3> QED
      BY <3>1, <3>2, HandlerKeepsLocks
  <2>6. ASSUME NEW h \in Handler, SaveTransition(h) PROVE LockInv'
    <3> DEFINE o == job[h].order
    <3>1. /\ UNCHANGED <<advisory, expired, job, seen>>
          /\ pc[h] = "save" /\ pc'[h] = "leave"
          /\ \A g \in Handler \ {h} : pc'[g] = pc[g]
          /\ \A x \in Order \ {o} : status'[x] = status[x]
      BY <2>0, <2>6 DEF SaveTransition, SaveOrder
    <3>2. o \notin expired => advisory[o] = h
      BY <3>1 DEF LockInv, Locked
    <3>3. Locked'
      BY <3>1 DEF LockInv, Locked
    <3>4. Fresh'
      <4> SUFFICES ASSUME NEW g \in Handler, pc'[g] \in {"release", "save"},
                          job[g].order \notin expired
                   PROVE  seen[g] = status'[job[g].order]
        BY <3>1 DEF Fresh
      <4>1. g # h /\ pc[g] \in {"release", "save"}
        BY <3>1
      <4>2. advisory[job[g].order] = g /\ job[g].order \in Order
        BY <4>1, JobTypes DEF LifeInv, LockInv, Locked
      <4> QED
        BY <4>1, <4>2, <3>1, <3>2 DEF LockInv, Fresh
    <3> QED
      BY <3>3, <3>4 DEF LockInv
  <2>7. ASSUME NEW h \in Handler,
               Leave(h) \/ Settle(h) \/ HandlerThrows(h) \/ CommitRefused(h)
        PROVE  LockInv'
    <3>1. /\ UNCHANGED <<status, expired>>
          /\ pc'[h] \in {"settle", "idle"}
          /\ \A g \in Handler \ {h} :
               pc'[g] = pc[g] /\ job'[g] = job[g] /\ seen'[g] = seen[g]
          /\ \A x \in Order : advisory[x] # h => advisory'[x] = advisory[x]
      BY <2>0, <2>7
      DEF Leave, Settle, HandlerThrows, CommitRefused, Abandon, Finish, Unlock, rowVars
    <3> QED
      BY <3>1, HandlerKeepsLocks
  <2>8. ASSUME NEW h \in Handler, LockExpires(h) PROVE LockInv'
    <3>1. /\ UNCHANGED <<status, pc, job, seen>>
          /\ expired' = expired \union {job[h].order}
          /\ \A x \in Order : advisory[x] # h => advisory'[x] = advisory[x]
      BY <2>0, <2>8 DEF LockExpires, Unlock, rowVars
    <3> QED
      BY <3>1, HandlerKeepsLocks
  <2>9. CASE Crash
    BY <2>0, <2>9 DEF Crash, LockInv, Locked, Fresh
  <2>10. ASSUME NEW h \in Handler, HandlerStep(h) \/ HandlerFault(h) PROVE LockInv'
    BY <2>10, <2>4, <2>5, <2>6, <2>7, <2>8 DEF HandlerStep, HandlerFault
  <2>11. ASSUME NEW c \in Consumer, NEW e \in Event, Deliver(c, e) PROVE LockInv'
    BY <2>11, <2>3 DEF Deliver, Handler, Job
  <2>12. ASSUME NEW a \in Admin, NEW r \in Request, AdminRequest(a, r) PROVE LockInv'
    BY <2>12, <2>3 DEF AdminRequest, Handler, Job
  <2> QED
    BY <2>1, <2>2, <2>9, <2>10, <2>11, <2>12
    DEF Next, CheckoutStep, CheckoutFault, ReserveInventory, ReserveRefused,
        CreateIntent, Compensate, DeleteCart, ReserveTimesOut, CreateIntentFails,
        CompensateTimesOut, CheckoutThrows, LateCall, ReleaseOrphan, ReleaseOrphanTimesOut,
        RecordEvent, PublishEvent, PublishFails, Pay, FindOrphans, ReconcileStalePaidOrders,
        vars, rowVars
<1> QED
  BY <1>1, <1>2, LifeCorrect, PTL DEF Spec

(* The rows live the life their aggregate allows: the saga refines LooseLifecycle, which is *)
(* OrderLifecycle for every order of which no advisory lock expired under its use case.     *)
THEOREM SagaImplementsLifecycle == Spec => ImplementsLifecycle
<1> USE SagaAssumption
<1>1. Init => Lifecycle!LooseInit
  BY DEF Init, Lifecycle!LooseInit, Lifecycle!Init, Paid
<1>2. LifeInv /\ LockInv /\ [Next]_vars => [Lifecycle!LooseNext]_(Lifecycle!looseVars)
  <2> SUFFICES ASSUME LifeInv, LockInv, [Next]_vars
               PROVE  \/ Lifecycle!LooseNext
                      \/ status' = status /\ Paid' = Paid /\ expired' = expired
    BY DEF Lifecycle!looseVars, Lifecycle!lifecycleVars
  <2>0. /\ status \in [Order -> Lifecycle!Status \union {"NONE"}]
        /\ stripe' = stripe => Paid' = Paid
    BY DEF LifeInv, TypeOK, RowsOK, Paid
  <2>1. ASSUME NEW o \in Order, SaveCancelled(o) \/ SaveCreated(o) PROVE Lifecycle!LooseNext
    <3>1. status[o] = "NONE"
      BY <2>1 DEF LifeInv, SavedInTime, SaveCancelled, SaveCreated, At, Unsaved
    <3>2. /\ \E s \in {"PAYMENT_PENDING", "CANCELLED"} : status' = [status EXCEPT ![o] = s]
          /\ stripe' = stripe /\ expired' = expired
      BY <2>1 DEF SaveCancelled, SaveCreated, SaveOrder, stripeVars, handlerVars
    <3> QED
      BY <3>1, <3>2, <2>0 DEF Lifecycle!LooseNext, Lifecycle!Next, Lifecycle!Place
  <2>2. ASSUME NEW o \in Order, NEW kind \in {"succeeded", "failed"}, Pay(o, kind)
        PROVE  \/ Lifecycle!LooseNext
               \/ status' = status /\ Paid' = Paid /\ expired' = expired
    <3> DEFINE e == [order |-> o, attempt |-> Cardinality(AttemptsOf(o)) + 1, kind |-> kind]
    <3>1. /\ stripe' = stripe \union {e} /\ e.order = o /\ e.kind = kind
          /\ status' = status /\ expired' = expired
          /\ status[o] # "NONE"
      BY <2>2 DEF Pay, Payable, rowVars, handlerVars, LifeInv, SavedInTime
    <3> HIDE DEF e
    <3>2. CASE kind = "succeeded"
      <4>1. Paid' = Paid \union {o}
        BY <3>1, <3>2 DEF Paid
      <4> QED
        BY <3>1, <4>1 DEF Lifecycle!LooseNext, Lifecycle!Next, Lifecycle!Pay
    <3>3. CASE kind = "failed"
      BY <3>1, <3>3 DEF Paid
    <3> QED
      BY <3>2, <3>3
  <2>3. ASSUME NEW h \in Handler, SaveTransition(h) PROVE Lifecycle!LooseNext
    <3> DEFINE o == job[h].order
               to == Target(job[h].kind)
    <3>1. /\ o \in Order /\ to \in Lifecycle!Status /\ job[h] \in Job
          /\ status' = [status EXCEPT ![o] = to] /\ stripe' = stripe /\ expired' = expired
      BY <2>3, JobTypes DEF SaveTransition, SaveOrder, stripeVars, LifeInv
    <3>2. job[h].kind \in {"succeeded", "failed", "ship", "deliver"}
      BY <3>1 DEF Job, Event, Request
    <3>3. to = "CONFIRMED" => o \in Paid
      <4> SUFFICES ASSUME to = "CONFIRMED" PROVE o \in Paid
        OBVIOUS
      <4>1. job[h].kind = "succeeded"
        BY <3>2 DEF Target
      <4>2. job[h] \in Event
        BY <3>1, <4>1 DEF Job, Request
      <4> QED
        BY <4>1, <4>2 DEF LifeInv, Known, Paid
    <3>4. CASE o \notin expired
      <4>1. CanTransition(status[o], to)
        BY <2>3, <3>4 DEF SaveTransition, LifeInv, LockInv, Fresh, Allowed
      <4> QED
        BY <3>1, <3>3, <4>1, <2>0
        DEF CanTransition, Lifecycle!LooseNext, Lifecycle!Next, Lifecycle!MoveTo
    <3>5. CASE o \in expired
      <4>1. to \in Lifecycle!Result
        BY <3>2 DEF Target, Lifecycle!Result
      <4>2. status[o] # "NONE"
        BY <2>3 DEF SaveTransition, LifeInv, Allowed
      <4>3. Lifecycle!Overwrite(o, to)
        BY <3>1, <3>3, <3>5, <4>1, <4>2, <2>0 DEF Lifecycle!Overwrite
      <4> QED
        BY <3>1, <4>1, <4>3 DEF Lifecycle!LooseNext
    <3> QED
      BY <3>4, <3>5
  <2>4. ASSUME NEW h \in Handler, LockExpires(h) PROVE Lifecycle!LooseNext
    <3>1. /\ job[h].order \in Order
          /\ status' = status /\ stripe' = stripe
          /\ expired' = expired \union {job[h].order}
      BY <2>4, JobTypes DEF LockExpires, LifeInv, rowVars, stripeVars
    <3>2. Lifecycle!Expire(job[h].order)
      BY <3>1, <2>0 DEF Lifecycle!Expire, Lifecycle!lifecycleVars
    <3> QED
      BY <3>1, <3>2 DEF Lifecycle!LooseNext
  <2>5. CASE UNCHANGED <<status, stripe, expired>>
    BY <2>5, <2>0
  <2> QED
    BY <2>1, <2>2, <2>3, <2>4, <2>5
    DEF Next, HandlerStep, HandlerFault, CheckoutStep, CheckoutFault, ReserveInventory, ReserveRefused,
        CreateIntent, Compensate, DeleteCart, ReserveTimesOut, CreateIntentFails,
        CompensateTimesOut, CheckoutThrows, LateCall, ReleaseOrphan, ReleaseOrphanTimesOut,
        RecordEvent, PublishEvent, PublishFails, Deliver, AdminRequest, Assign, Enter,
        ReleaseInventory, ReleaseTimesOut, Leave, Settle, HandlerThrows,
        CommitRefused, Abandon, FindOrphans,
        ReconcileStalePaidOrders, Crash, vars, rowVars, stripeVars, handlerVars
<1> QED
  BY <1>1, <1>2, LifeCorrect, LocksCorrect, PTL DEF Spec, ImplementsLifecycle, Lifecycle!LooseSpec
--------------------------------------------------------------------------------
(* Appending to short tuples. *)
LEMMA TwoTold ==
  ASSUME NEW S, NEW a \in S, NEW b \in S
  PROVE  <<a>> \o <<b>> = <<a, b>>
<1> DEFINE s == <<a>> \o <<b>>
<1>1. /\ <<a>> \in Seq(S) /\ Len(<<a>>) = 1
      /\ <<b>> \in Seq(S) /\ Len(<<b>>) = 1
      /\ <<a, b>> \in Seq(S) /\ Len(<<a, b>>) = 2
  OBVIOUS
<1>2. /\ s \in Seq(S) /\ Len(s) = 2
      /\ \A i \in 1..2 : s[i] = IF i <= 1 THEN <<a>>[i] ELSE <<b>>[i - 1]
  BY <1>1, ConcatProperties
<1>3. s[1] = a /\ s[2] = b
  BY <1>2
<1> HIDE DEF s
<1>4. s = <<a, b>>
  BY <1>1, <1>2, <1>3, SeqEqual
<1> QED
  BY <1>4 DEF s

LEMMA ThreeTold ==
  ASSUME NEW S, NEW a \in S, NEW b \in S, NEW c \in S
  PROVE  <<a, b>> \o <<c>> = <<a, b, c>>
<1> DEFINE s == <<a, b>> \o <<c>>
<1>1. /\ <<a, b>> \in Seq(S) /\ Len(<<a, b>>) = 2
      /\ <<c>> \in Seq(S) /\ Len(<<c>>) = 1
      /\ <<a, b, c>> \in Seq(S) /\ Len(<<a, b, c>>) = 3
  OBVIOUS
<1>2. /\ s \in Seq(S) /\ Len(s) = 3
      /\ \A i \in 1..3 : s[i] = IF i <= 2 THEN <<a, b>>[i] ELSE <<c>>[i - 2]
  BY <1>1, ConcatProperties
<1>3. s[1] = a /\ s[2] = b /\ s[3] = c
  BY <1>2
<1> HIDE DEF s
<1>4. s = <<a, b, c>>
  BY <1>1, <1>2, <1>3, SeqEqual
<1> QED
  BY <1>4 DEF s

(* One save tells one more thing: what the table of the aggregate allows is also what *)
(* the stories of Told allow.                                                         *)
LEMMA StoryGoesOn ==
  ASSUME NEW from \in DOMAIN Told, NEW kind \in {"succeeded", "failed", "ship", "deliver"},
         CanTransition(from, Target(kind)), NEW told \in Told[from]
  PROVE  Target(kind) \in DOMAIN Told /\ told \o OutboxEvent(kind) \in Told[Target(kind)]
<1> USE DEF CanTransition, Lifecycle!CanTransition, Lifecycle!VALID_TRANSITIONS,
            Lifecycle!Status, Target, OutboxEvent
<1>1. /\ "created" \in OutboxKind /\ "confirmed" \in OutboxKind
      /\ "shipped" \in OutboxKind /\ "cancelled" \in OutboxKind
  BY DEF OutboxKind
<1>2. CASE kind = "succeeded"
  <2>1. from = "PAYMENT_PENDING"
    BY <1>2
  <2>2. told = <<"created">>
    BY <2>1 DEF Told
  <2>3. told \o <<"confirmed">> = <<"created", "confirmed">>
    BY <1>1, <2>2, TwoTold
  <2> QED
    BY <1>2, <2>3 DEF Told
<1>3. CASE kind = "failed"
  <2>1. from \in {"PAYMENT_PENDING", "CONFIRMED"}
    BY <1>3 DEF Told
  <2>2. CASE from = "PAYMENT_PENDING"
    <3>1. told = <<"created">>
      BY <2>2 DEF Told
    <3>2. told \o <<"cancelled">> = <<"created", "cancelled">>
      BY <1>1, <3>1, TwoTold
    <3> QED
      BY <1>3, <3>2 DEF Told
  <2>3. CASE from = "CONFIRMED"
    <3>1. told = <<"created", "confirmed">>
      BY <2>3 DEF Told
    <3>2. told \o <<"cancelled">> = <<"created", "confirmed", "cancelled">>
      BY <1>1, <3>1, ThreeTold
    <3> QED
      BY <1>3, <3>2 DEF Told
  <2> QED
    BY <2>1, <2>2, <2>3
<1>4. CASE kind = "ship"
  <2>1. from = "CONFIRMED"
    BY <1>4
  <2>2. told = <<"created", "confirmed">>
    BY <2>1 DEF Told
  <2>3. told \o <<"shipped">> = <<"created", "confirmed", "shipped">>
    BY <1>1, <2>2, ThreeTold
  <2> QED
    BY <1>4, <2>3 DEF Told
<1>5. CASE kind = "deliver"
  <2>1. from = "SHIPPED"
    BY <1>5
  <2>2. told = <<"created", "confirmed", "shipped">>
    BY <2>1 DEF Told
  <2>3. told \o << >> = told
    <3>1. <<"created", "confirmed", "shipped">> \in Seq(OutboxKind)
      BY <1>1
    <3> QED
      BY <2>2, <3>1, ConcatEmptySeq
  <2> QED
    BY <1>5, <2>2, <2>3 DEF Told
<1> QED
  BY <1>2, <1>3, <1>4, <1>5

(* The event that a save appends is the last the outbox tells. *)
LEMMA LastIsSaid ==
  ASSUME NEW told \in Seq(OutboxKind), NEW event \in OutboxKind
  PROVE  /\ told \o <<event>> # << >>
         /\ (told \o <<event>>)[Len(told \o <<event>>)] = event
<1> DEFINE all == told \o <<event>>
<1>1. <<event>> \in Seq(OutboxKind) /\ Len(<<event>>) = 1 /\ Len(told) \in Nat
  BY LenProperties
<1>2. Len(all) = Len(told) + 1 /\ all[Len(told) + 1] = <<event>>[1]
  BY <1>1, ConcatProperties
<1> HIDE DEF all
<1>3. Len(all) # 0 /\ all[Len(all)] = event
  BY <1>1, <1>2
<1>4. all # << >>
  BY <1>3
<1> QED
  BY <1>3, <1>4 DEF all

(* The outbox tells the row's history once, in order and in full, whatever crashes, throws or *)
(* is redelivered, until an advisory lock of the order expires under its use case: each save   *)
(* appends to what the status it read has told.  The last event told names the row's status   *)
(* even then, because one save writes both.                                                   *)
THEOREM StoryIsTold == Spec => []OutboxTellsTheStory
<1>1. Init => OutboxTellsTheStory
  BY DEF Init, OutboxTellsTheStory, Told, Says
<1>2. LifeInv /\ LockInv /\ OutboxTellsTheStory /\ [Next]_vars => OutboxTellsTheStory'
  <2> SUFFICES ASSUME LifeInv, LockInv, OutboxTellsTheStory, [Next]_vars
               PROVE  OutboxTellsTheStory'
    OBVIOUS
  <2>0. DOMAIN status = Order /\ outbox \in [Order -> Seq(OutboxKind)]
    BY DEF LifeInv, TypeOK, RowsOK
  <2>1. ASSUME NEW o \in Order, SaveCancelled(o) \/ SaveCreated(o)
        PROVE  OutboxTellsTheStory'
    <3>1. status[o] = "NONE"
      BY <2>1 DEF SaveCancelled, SaveCreated, At, Unsaved, LifeInv, SavedInTime
    <3>2. /\ \/ SaveOrder(o, "CANCELLED", FALSE, <<"cancelled">>)
             \/ SaveOrder(o, "PAYMENT_PENDING", TRUE, <<"created">>)
          /\ expired' = expired
      BY <2>1 DEF SaveCancelled, SaveCreated, handlerVars
    <3>3. /\ \/ status'[o] = "CANCELLED" /\ outbox'[o] = outbox[o] \o <<"cancelled">>
             \/ status'[o] = "PAYMENT_PENDING" /\ outbox'[o] = outbox[o] \o <<"created">>
          /\ \A x \in Order \ {o} : status'[x] = status[x] /\ outbox'[x] = outbox[x]
      BY <2>0, <3>2 DEF SaveOrder
    <3>4. o \notin expired => status'[o] \in DOMAIN Told /\ outbox'[o] \in Told[status'[o]]
      <4> SUFFICES ASSUME o \notin expired
                   PROVE  status'[o] \in DOMAIN Told /\ outbox'[o] \in Told[status'[o]]
        OBVIOUS
      <4>1. outbox[o] = << >>
        BY <3>1 DEF OutboxTellsTheStory, Told
      <4>2. << >> \o <<"cancelled">> = <<"cancelled">> /\ << >> \o <<"created">> = <<"created">>
        <5>1. <<"cancelled">> \in Seq(OutboxKind) /\ <<"created">> \in Seq(OutboxKind)
          BY DEF OutboxKind
        <5> QED
          BY <5>1, ConcatEmptySeq
      <4>3. /\ "CANCELLED" \in DOMAIN Told /\ <<"cancelled">> \in Told["CANCELLED"]
            /\ "PAYMENT_PENDING" \in DOMAIN Told /\ <<"created">> \in Told["PAYMENT_PENDING"]
        BY DEF Told
      <4> QED
        BY <3>3, <4>1, <4>2, <4>3
    <3>5. outbox'[o] # << >> /\ outbox'[o][Len(outbox'[o])] = Says[status'[o]]
      <4>1. /\ "cancelled" \in OutboxKind /\ Says["CANCELLED"] = "cancelled"
            /\ "created" \in OutboxKind /\ Says["PAYMENT_PENDING"] = "created"
        BY DEF OutboxKind, Says
      <4> QED
        BY <2>0, <3>3, <4>1, LastIsSaid
    <3> QED
      BY <3>2, <3>3, <3>4, <3>5 DEF OutboxTellsTheStory
  <2>2. ASSUME NEW h \in Handler, SaveTransition(h)
        PROVE  OutboxTellsTheStory'
    <3> DEFINE o == job[h].order
               kind == job[h].kind
    <3>1. o \in Order /\ job[h] \in Job
      BY <2>2, JobTypes DEF SaveTransition, LifeInv
    <3>2. kind \in {"succeeded", "failed", "ship", "deliver"}
      BY <3>1 DEF Job, Event, Request
    <3>3. /\ status'[o] = Target(kind) /\ outbox'[o] = outbox[o] \o OutboxEvent(kind)
          /\ \A x \in Order \ {o} : status'[x] = status[x] /\ outbox'[x] = outbox[x]
          /\ expired' = expired
      BY <2>0, <2>2, <3>1 DEF SaveTransition, SaveOrder
    <3>4. o \notin expired =>
            Target(kind) \in DOMAIN Told /\ outbox[o] \o OutboxEvent(kind) \in Told[Target(kind)]
      <4> SUFFICES ASSUME o \notin expired
                   PROVE  /\ Target(kind) \in DOMAIN Told
                          /\ outbox[o] \o OutboxEvent(kind) \in Told[Target(kind)]
        OBVIOUS
      <4>1. CanTransition(status[o], Target(kind))
        BY <2>2 DEF SaveTransition, LifeInv, LockInv, Fresh, Allowed
      <4> QED
        BY <3>1, <3>2, <4>1, StoryGoesOn DEF OutboxTellsTheStory
    <3>5. Target(kind) \in DOMAIN Says =>
            /\ outbox'[o] # << >>
            /\ outbox'[o][Len(outbox'[o])] = Says[Target(kind)]
      <4> SUFFICES ASSUME Target(kind) \in DOMAIN Says
                   PROVE  /\ outbox'[o] # << >>
                          /\ outbox'[o][Len(outbox'[o])] = Says[Target(kind)]
        OBVIOUS
      <4> DEFINE event == Says[Target(kind)]
      <4>1. /\ OutboxEvent(kind) = <<event>>
            /\ event \in OutboxKind
        BY <3>2 DEF Target, OutboxEvent, Says, OutboxKind
      <4>2. outbox[o] \in Seq(OutboxKind) /\ outbox'[o] = outbox[o] \o <<event>>
        BY <2>0, <3>1, <3>3, <4>1
      <4> HIDE DEF event
      <4>3. /\ outbox[o] \o <<event>> # << >>
            /\ (outbox[o] \o <<event>>)[Len(outbox[o] \o <<event>>)] = event
        BY <4>1, <4>2, LastIsSaid
      <4> QED
        BY <4>2, <4>3 DEF event
    <3>6. /\ o \notin expired' => status'[o] \in DOMAIN Told /\ outbox'[o] \in Told[status'[o]]
          /\ status'[o] \in DOMAIN Says =>
               outbox'[o] # << >> /\ outbox'[o][Len(outbox'[o])] = Says[status'[o]]
      BY <3>3, <3>4, <3>5
    <3>7. ASSUME NEW x \in Order \ {o}
          PROVE  /\ x \notin expired' => status'[x] \in DOMAIN Told /\ outbox'[x] \in Told[status'[x]]
                 /\ status'[x] \in DOMAIN Says =>
                      outbox'[x] # << >> /\ outbox'[x][Len(outbox'[x])] = Says[status'[x]]
      BY <3>3 DEF OutboxTellsTheStory
    <3> QED
      BY <3>6, <3>7 DEF OutboxTellsTheStory
  <2>3. ASSUME NEW h \in Handler, LockExpires(h) PROVE OutboxTellsTheStory'
    <3>1. UNCHANGED <<status, outbox>> /\ expired \subseteq expired'
      BY <2>3 DEF LockExpires, rowVars
    <3> QED
      BY <3>1 DEF OutboxTellsTheStory
  <2>4. CASE UNCHANGED <<status, outbox, expired>>
    BY <2>4 DEF OutboxTellsTheStory
  <2> QED
    BY <2>1, <2>2, <2>3, <2>4
    DEF Next, HandlerStep, HandlerFault, CheckoutStep, CheckoutFault, ReserveInventory,
        ReserveRefused, CreateIntent, Compensate, DeleteCart, ReserveTimesOut,
        CreateIntentFails, CompensateTimesOut, CheckoutThrows, LateCall, ReleaseOrphan,
        ReleaseOrphanTimesOut, RecordEvent, PublishEvent, PublishFails, Pay, Deliver,
        AdminRequest, Assign, Enter, ReleaseInventory, ReleaseTimesOut, Leave, Settle,
        HandlerThrows, CommitRefused, Abandon, FindOrphans,
        ReconcileStalePaidOrders, Crash, vars, rowVars, handlerVars
<1> QED
  BY <1>1, <1>2, LifeCorrect, LocksCorrect, PTL DEF Spec
--------------------------------------------------------------------------------
Waiting(o) == status[o] = "PAYMENT_PENDING"

(* A handler that will not cancel after its release, or that will ack a payment event, *)
(* leaves no order behind that waits for this event.                                   *)
Answered ==
  /\ \A h \in Handler :
       pc[h] = "release" /\ seen[h] # "PAYMENT_PENDING" => ~Waiting(job[h].order)
  /\ \A h \in Handler :
       pc[h] \in {"leave", "settle"} /\ job[h] \in Event /\ ~requeue[h] => ~Waiting(job[h].order)

Unhandled == recorded \ (publishing \union queue \union dlq)

(* An order that has a row never begins to wait again. *)
WaitsOnce == \A o \in Order : status'[o] = "PAYMENT_PENDING" => status[o] \in {"NONE", "PAYMENT_PENDING"}

(* Where the handlers' orders and the events' orders are rows. *)
LEMMA RowsOfJobs ==
  ASSUME LifeInv
  PROVE  /\ \A h \in Handler : pc[h] = "release" => /\ job[h].order \in Order
                                                    /\ status[job[h].order] # "NONE"
         /\ \A h \in Handler : job[h] \in Event => /\ job[h].order \in Order
                                                   /\ status[job[h].order] # "NONE"
         /\ \A e \in recorded : e.order \in Order /\ status[e.order] # "NONE"
<1>1. \A e \in stripe : e.order \in Order /\ status[e.order] # "NONE"
  BY DEF LifeInv, TypeOK, StripeOK, Event, PaidAfterSave
<1>2. \A h \in Handler : pc[h] = "release" => /\ job[h].order \in Order
                                              /\ status[job[h].order] # "NONE"
  BY JobTypes DEF LifeInv, Allowed
<1> QED
  BY <1>1, <1>2 DEF LifeInv, Known

LEMMA OthersKeepAnswered ==
  ASSUME LifeInv, Answered, NoPaymentVanishes, WaitsOnce,
         UNCHANGED <<pc, job, seen, requeue>>,
         Unhandled' \subseteq Unhandled
  PROVE  Answered' /\ NoPaymentVanishes'
BY RowsOfJobs DEF Answered, NoPaymentVanishes, Unhandled, WaitsOnce, Waiting

(* A step of handler h: what it leaves behind is what has to be seen to. *)
LEMMA HandlerKeepsAnswered ==
  ASSUME LifeInv, Answered, NoPaymentVanishes, WaitsOnce, NEW h \in Handler,
         \A g \in Handler \ {h} :
           pc'[g] = pc[g] /\ job'[g] = job[g] /\ seen'[g] = seen[g] /\ requeue'[g] = requeue[g],
         pc'[h] = "release" /\ seen'[h] # "PAYMENT_PENDING" => status'[job'[h].order] # "PAYMENT_PENDING",
         pc'[h] \in {"leave", "settle"} /\ job'[h] \in Event /\ ~requeue'[h]
           => status'[job'[h].order] # "PAYMENT_PENDING",
         \A e \in Unhandled' : e \in Unhandled \/ status'[e.order] # "PAYMENT_PENDING"
  PROVE  Answered' /\ NoPaymentVanishes'
<1>1. Answered'
  BY RowsOfJobs DEF Answered, WaitsOnce, Waiting
<1>2. NoPaymentVanishes'
  BY RowsOfJobs DEF NoPaymentVanishes, Unhandled, WaitsOnce, Waiting
<1> QED
  BY <1>1, <1>2

LEMMA AnsweredStep ==
  ASSUME "crash" \notin Faults, "publish" \notin Faults,
         LifeInv, Answered, NoPaymentVanishes, [Next]_vars
  PROVE  Answered' /\ NoPaymentVanishes'
<1>0. /\ status \in [Order -> Lifecycle!Status \union {"NONE"}]
      /\ DOMAIN pc = Handler /\ DOMAIN job = Handler
      /\ DOMAIN seen = Handler /\ DOMAIN requeue = Handler
  BY DEF LifeInv, TypeOK, RowsOK, HandlersOK
<1>1. ASSUME NEW o \in Order, SaveCancelled(o) \/ SaveCreated(o)
      PROVE  Answered' /\ NoPaymentVanishes'
  <2>1. status[o] = "NONE"
    BY <1>1 DEF SaveCancelled, SaveCreated, At, Unsaved, LifeInv, SavedInTime
  <2>2. WaitsOnce
    BY <1>0, <1>1, <2>1 DEF SaveCancelled, SaveCreated, SaveOrder, WaitsOnce
  <2>3. UNCHANGED <<handlerVars, brokerVars>>
    BY <1>1 DEF SaveCancelled, SaveCreated
  <2> QED
    BY <2>2, <2>3, OthersKeepAnswered DEF handlerVars, brokerVars, Unhandled
<1>2. ASSUME UNCHANGED <<status, pc, job, seen, requeue>>, Unhandled' \subseteq Unhandled
      PROVE  Answered' /\ NoPaymentVanishes'
  BY <1>2, OthersKeepAnswered DEF WaitsOnce
<1>3. CASE UNCHANGED <<status, pc, job, seen, requeue, brokerVars>>
  BY <1>2, <1>3 DEF brokerVars, Unhandled
<1>4. ASSUME NEW e \in Event, RecordEvent(e) \/ PublishEvent(e)
      PROVE  Answered' /\ NoPaymentVanishes'
  <2>1. Unhandled' \subseteq Unhandled
    BY <1>4 DEF RecordEvent, PublishEvent, Unhandled
  <2> QED
    BY <1>2, <1>4, <2>1 DEF RecordEvent, PublishEvent, rowVars, handlerVars
<1>5. ASSUME NEW h \in Handler, NEW j \in Job, Assign(h, j)
      PROVE  Answered' /\ NoPaymentVanishes'
  <2>1. /\ UNCHANGED <<status, brokerVars>> /\ pc'[h] = "enter"
        /\ \A g \in Handler \ {h} :
             pc'[g] = pc[g] /\ job'[g] = job[g] /\ seen'[g] = seen[g] /\ requeue'[g] = requeue[g]
    BY <1>0, <1>5 DEF Assign, rowVars
  <2> QED
    BY <2>1, HandlerKeepsAnswered DEF WaitsOnce, Unhandled, brokerVars
<1>6. ASSUME NEW h \in Handler, Enter(h)
      PROVE  Answered' /\ NoPaymentVanishes'
  <2> DEFINE o == job[h].order
             kind == job[h].kind
  <2>1. /\ UNCHANGED <<status, job, brokerVars>>
        /\ pc'[h] = Decide(kind, status[o], piid[o]) /\ seen'[h] = status[o]
        /\ \A g \in Handler \ {h} :
             pc'[g] = pc[g] /\ job'[g] = job[g] /\ seen'[g] = seen[g] /\ requeue'[g] = requeue[g]
    BY <1>0, <1>6 DEF Enter, rowVars
  <2>2. ASSUME job[h] \in Event, Waiting(o)
        PROVE  pc'[h] # "leave" /\ pc'[h] # "settle"
    <3>1. kind \in {"succeeded", "failed"}
      BY <2>2 DEF Event
    <3>2. piid[o]
      BY <2>2, RowsOfJobs DEF Waiting, LifeInv, Created
    <3>3. CanTransition("PAYMENT_PENDING", "CONFIRMED")
      BY DEF CanTransition, Lifecycle!CanTransition, Lifecycle!VALID_TRANSITIONS, Lifecycle!Status
    <3> QED
      BY <2>1, <2>2, <3>1, <3>2, <3>3
      DEF Waiting, Decide, MarkPaymentSucceeded, MarkPaymentFailed
  <2> HIDE DEF o, kind
  <2> QED
    BY <2>1, <2>2, HandlerKeepsAnswered DEF o, WaitsOnce, Waiting, Unhandled, brokerVars
<1>7. ASSUME NEW h \in Handler, ReleaseInventory(h)
      PROVE  Answered' /\ NoPaymentVanishes'
  <2>1. /\ UNCHANGED <<status, job, brokerVars>>
        /\ pc[h] = "release"
        /\ pc'[h] = IF CanTransition(seen[h], "CANCELLED") THEN "save" ELSE "leave"
        /\ \A g \in Handler \ {h} :
             pc'[g] = pc[g] /\ job'[g] = job[g] /\ seen'[g] = seen[g] /\ requeue'[g] = requeue[g]
    BY <1>0, <1>7 DEF ReleaseInventory, rowVars
  <2>2. CanTransition("PAYMENT_PENDING", "CANCELLED")
    BY DEF CanTransition, Lifecycle!CanTransition, Lifecycle!VALID_TRANSITIONS, Lifecycle!Status
  <2>3. pc'[h] = "leave" => ~Waiting(job[h].order)
    BY <2>1, <2>2 DEF Answered
  <2> QED
    BY <2>1, <2>3, HandlerKeepsAnswered DEF WaitsOnce, Waiting, Unhandled, brokerVars
<1>8. ASSUME NEW h \in Handler, ReleaseTimesOut(h)
      PROVE  Answered' /\ NoPaymentVanishes'
  <2>1. /\ UNCHANGED <<status, job, brokerVars>>
        /\ pc'[h] = "leave" /\ requeue'[h]
        /\ \A g \in Handler \ {h} :
             pc'[g] = pc[g] /\ job'[g] = job[g] /\ seen'[g] = seen[g] /\ requeue'[g] = requeue[g]
    BY <1>0, <1>8 DEF ReleaseTimesOut, rowVars, Requeues
  <2> QED
    BY <2>1, HandlerKeepsAnswered DEF WaitsOnce, Waiting, Unhandled, brokerVars
<1>9. ASSUME NEW h \in Handler, SaveTransition(h)
      PROVE  Answered' /\ NoPaymentVanishes'
  <2> DEFINE o == job[h].order
  <2>1. o \in Order /\ job[h] \in Job
    BY <1>9, JobTypes DEF SaveTransition, LifeInv
  <2>2. job[h].kind \in {"succeeded", "failed", "ship", "deliver"}
    BY <2>1 DEF Job, Event, Request
  <2>3. Target(job[h].kind) # "PAYMENT_PENDING"
    BY <2>2 DEF Target
  <2>4. /\ UNCHANGED <<job, seen, requeue, brokerVars>>
        /\ pc'[h] = "leave" /\ status'[o] # "PAYMENT_PENDING"
        /\ \A x \in Order \ {o} : status'[x] = status[x]
        /\ \A g \in Handler \ {h} : pc'[g] = pc[g]
    BY <1>0, <1>9, <2>1, <2>3 DEF SaveTransition, SaveOrder
  <2>5. WaitsOnce
    BY <2>4 DEF WaitsOnce
  <2> QED
    BY <2>4, <2>5, HandlerKeepsAnswered DEF Waiting, Unhandled, brokerVars
<1>10. ASSUME NEW h \in Handler, Leave(h)
       PROVE  Answered' /\ NoPaymentVanishes'
  <2>1. /\ UNCHANGED <<status, job, seen, requeue, brokerVars>>
        /\ pc[h] = "leave" /\ pc'[h] = "settle"
        /\ \A g \in Handler \ {h} : pc'[g] = pc[g]
    BY <1>0, <1>10 DEF Leave, rowVars
  <2> QED
    BY <2>1, HandlerKeepsAnswered DEF Answered, WaitsOnce, Waiting, Unhandled, brokerVars
<1>11. ASSUME NEW h \in Handler, Settle(h)
       PROVE  Answered' /\ NoPaymentVanishes'
  <2>1. /\ UNCHANGED <<status, recorded, publishing, dlq>>
        /\ pc[h] = "settle" /\ pc'[h] = "idle"
        /\ queue' = IF requeue[h] THEN queue ELSE queue \ {job[h]}
        /\ \A g \in Handler \ {h} :
             pc'[g] = pc[g] /\ job'[g] = job[g] /\ seen'[g] = seen[g] /\ requeue'[g] = requeue[g]
    BY <1>0, <1>11 DEF Settle, Finish, rowVars
  <2>2. \A e \in Unhandled' : e \in Unhandled \/ ~Waiting(e.order)
    <3> SUFFICES ASSUME NEW e \in Unhandled', e \notin Unhandled
                 PROVE  ~Waiting(e.order)
      OBVIOUS
    <3>1. e = job[h] /\ ~requeue[h] /\ e \in recorded
      BY <2>1 DEF Unhandled
    <3>2. e \in Event
      BY <3>1 DEF LifeInv, TypeOK, BrokerOK
    <3> QED
      BY <2>1, <3>1, <3>2 DEF Answered
  <2> QED
    BY <2>1, <2>2, HandlerKeepsAnswered DEF WaitsOnce, Waiting
<1>12. ASSUME NEW h \in Handler, HandlerThrows(h) \/ CommitRefused(h)
       PROVE  Answered' /\ NoPaymentVanishes'
  <2>1. /\ UNCHANGED <<status, recorded, publishing>>
        /\ pc'[h] = "idle"
        /\ queue' = queue \ {job[h]} /\ dlq' = dlq \union ({job[h]} \intersect Event)
        /\ \A g \in Handler \ {h} :
             pc'[g] = pc[g] /\ job'[g] = job[g] /\ seen'[g] = seen[g] /\ requeue'[g] = requeue[g]
    BY <1>0, <1>12 DEF HandlerThrows, CommitRefused, Abandon, Finish, rowVars
  <2>2. Unhandled' \subseteq Unhandled
    BY <2>1 DEF Unhandled, LifeInv, TypeOK, BrokerOK
  <2> QED
    BY <2>1, <2>2, HandlerKeepsAnswered DEF WaitsOnce
<1>13. ASSUME NEW h \in Handler, LockExpires(h)
       PROVE  Answered' /\ NoPaymentVanishes'
  BY <1>3, <1>13 DEF LockExpires, rowVars
<1>14. ASSUME NEW c \in Consumer, NEW e \in Event, Deliver(c, e)
       PROVE  Answered' /\ NoPaymentVanishes'
  BY <1>5, <1>14 DEF Deliver, Handler, Job
<1>15. ASSUME NEW a \in Admin, NEW r \in Request, AdminRequest(a, r)
       PROVE  Answered' /\ NoPaymentVanishes'
  BY <1>5, <1>15 DEF AdminRequest, Handler, Job
<1>16. ~Crash /\ \A e \in Event : ~PublishFails(e)
  BY DEF Crash, PublishFails, Fault
<1>17. ASSUME NEW h \in Handler, HandlerStep(h) \/ HandlerFault(h)
       PROVE  Answered' /\ NoPaymentVanishes'
  BY <1>6, <1>7, <1>8, <1>9, <1>10, <1>11, <1>12, <1>13, <1>17 DEF HandlerStep, HandlerFault
<1> QED
  BY <1>1, <1>3, <1>4, <1>14, <1>15, <1>16, <1>17
  DEF Next, CheckoutStep, CheckoutFault, ReserveInventory, ReserveRefused,
      CreateIntent, Compensate, DeleteCart, ReserveTimesOut, CreateIntentFails,
      CompensateTimesOut, CheckoutThrows, LateCall, ReleaseOrphan, ReleaseOrphanTimesOut,
      Pay, FindOrphans, ReconcileStalePaidOrders,
      vars, rowVars, handlerVars

(* A recorded payment result is on its way, dead-lettered, or its order no longer waits for *)
(* it, whatever the catalog, Stripe and the database do and whichever locks expire; a        *)
(* publish that fails and a process that dies between the two are what loses one.           *)
THEOREM PaymentsStay ==
  ASSUME "crash" \notin Faults, "publish" \notin Faults
  PROVE  Spec => []NoPaymentVanishes
<1>1. Init => Answered /\ NoPaymentVanishes
  BY DEF Init, Answered, NoPaymentVanishes
<1> QED
  BY <1>1, AnsweredStep, LifeCorrect, PTL DEF Spec
--------------------------------------------------------------------------------
(* The stock the orders hold. *)

(* A checkout on its way to a PAYMENT_PENDING row holds its stock. *)
HeldInCheckout == \A o \in Order : checkout[o] \in {"intent", "save"} => o \in held

MayRelease(o) ==
  \/ status[o] = "CANCELLED"
  \/ o \in Declined
  \/ status[o] = "NONE" /\ checkout[o] \in {"cancelPayment", "failed"}

LateReleases == \A o \in Order : <<"release", o>> \in late => MayRelease(o)

LateReserves ==
  \A o \in Order :
    <<"reserve", o>> \in late =>
      checkout[o] \in {"cancelInventory", "refused", "failed"} /\ ~piid[o]

SweepsMayRelease == \A o \in sweep : status[o] = "CANCELLED" \/ o \in Declined

(* Only a declined payment cancels an order whose checkout succeeded. *)
CancelledWasDeclined ==
  \A o \in Order : status[o] = "CANCELLED" /\ piid[o] => o \in Declined

(* The in-memory statuses of a checkout are never saved. *)
NeverPending == \A o \in Order : status[o] \notin {"PENDING", "INVENTORY_RESERVED"}

(* MarkPaymentFailed has released what it is about to cancel. *)
ReleasedFirst ==
  \A h \in Handler : pc[h] = "save" /\ job[h].kind = "failed" => job[h].order \notin held

StockInv ==
  /\ HeldInCheckout /\ LateReleases /\ LateReserves
  /\ SweepsMayRelease /\ NeverPending /\ ReleasedFirst
  /\ CancelledWasDeclined
  /\ ReservationBacked
  /\ CancelledAfterCheckoutHoldsNothing
--------------------------------------------------------------------------------
(* What the two idempotent calls do to the set of holders. *)
LEMMA HoldersAfterCall ==
  ASSUME NEW o \in Order
  PROVE  /\ ReleaseIfHeld(o) => held' = held \ {o}
         /\ ReserveIfPossible(o) => held \subseteq held' /\ held' \subseteq held \union {o}
BY DEF ReleaseIfHeld, ReserveIfPossible, Catalog!Release, Catalog!Reserve

(* An order whose payment was tried has a row with an intent, past its checkout. *)
LEMMA DeclinedIsSaved ==
  ASSUME LifeInv, NEW o \in Order, o \in Declined
  PROVE  status[o] # "NONE" /\ piid[o] /\ checkout[o] \notin Unsaved
BY DEF LifeInv, PaidAfterSave, Declined, SavedInTime

(* Whoever handles a payment.failed handles a declined order. *)
LEMMA FailedJobIsDeclined ==
  ASSUME LifeInv, NEW h \in Handler, pc[h] # "idle", job[h].kind = "failed"
  PROVE  job[h].order \in Order /\ job[h].order \in Declined
<1>1. job[h] \in Job /\ job[h].order \in Order
  BY JobTypes DEF LifeInv
<1>2. job[h] \in Event
  BY <1>1 DEF Job, Request
<1> QED
  BY <1>1, <1>2 DEF LifeInv, Known, Declined

(* Steps that release what may be released keep the stock invariant. *)
LEMMA ReleaseKeepsStock ==
  ASSUME LifeInv, StockInv, NEW o \in Order, MayRelease(o),
         held' = held \ {o}, late' \subseteq late, sweep' \subseteq sweep,
         UNCHANGED <<status, piid, checkout, stripe, job>>,
         \A h \in Handler : pc'[h] = "save" => pc[h] = "save" \/ job[h].order = o
  PROVE  StockInv'
<1>1. o \in Declined => checkout[o] \notin Unsaved
  BY DeclinedIsSaved
<1>2. status[o] # "NONE" => checkout[o] \notin Unsaved
  BY DEF LifeInv, SavedInTime
<1>3. checkout[o] \notin {"intent", "save"}
  BY <1>1, <1>2 DEF MayRelease, Unsaved
<1>4. HeldInCheckout'
  BY <1>3 DEF StockInv, HeldInCheckout
<1>5. LateReleases' /\ LateReserves' /\ SweepsMayRelease' /\ NeverPending'
  BY DEF StockInv, LateReleases, LateReserves, SweepsMayRelease, NeverPending, MayRelease, Declined
<1>6. ReleasedFirst'
  BY DEF StockInv, ReleasedFirst
<1>7. ReservationBacked'
  BY DEF StockInv, ReservationBacked, MayRelease, Declined, Settled
<1>8. CancelledWasDeclined' /\ CancelledAfterCheckoutHoldsNothing'
  BY DEF StockInv, CancelledWasDeclined, CancelledAfterCheckoutHoldsNothing, Declined
<1> QED
  BY <1>4, <1>5, <1>6, <1>7, <1>8 DEF StockInv

(* Steps that touch neither rows nor stock, and give up only calls that may release. *)
LEMMA IdleKeepsStock ==
  ASSUME LifeInv, StockInv,
         UNCHANGED <<status, piid, held>>, stripe \subseteq stripe',
         \A o \in Order : /\ checkout'[o] = checkout[o] \/ checkout'[o] = "failed"
                          /\ <<"reserve", o>> \in late' => <<"reserve", o>> \in late
                          /\ <<"release", o>> \in late' =>
                               <<"release", o>> \in late \/ MayRelease(o),
         \A o \in sweep' : status[o] = "CANCELLED" \/ o \in Declined,
         \A h \in Handler :
           pc'[h] = "save" /\ job'[h].kind = "failed" =>
             pc[h] = "save" /\ job'[h] = job[h]
  PROVE  StockInv'
<1>1. Declined \subseteq Declined'
  BY DEF Declined
<1>2. HeldInCheckout' /\ LateReserves' /\ NeverPending' /\ SweepsMayRelease'
  BY <1>1 DEF StockInv, HeldInCheckout, LateReserves, NeverPending, SweepsMayRelease
<1>3. LateReleases'
  BY <1>1 DEF StockInv, LateReleases, MayRelease
<1>4. ReleasedFirst'
  BY DEF StockInv, ReleasedFirst
<1>5. CancelledWasDeclined' /\ ReservationBacked' /\ CancelledAfterCheckoutHoldsNothing'
  BY <1>1 DEF StockInv, CancelledWasDeclined, ReservationBacked, CancelledAfterCheckoutHoldsNothing
<1> QED
  BY <1>2, <1>3, <1>4, <1>5 DEF StockInv

(* The reservations, what may still change them and the rows fit together, whatever *)
(* fails: nothing that can still release stock belongs to an order that needs it.     *)
THEOREM StockCorrect == Spec => []StockInv
<1> USE SagaAssumption
<1>1. Init => StockInv
  BY DEF Init, Catalog!Init, StockInv, HeldInCheckout, LateReleases, LateReserves,
         SweepsMayRelease, NeverPending, ReleasedFirst, CancelledWasDeclined,
         ReservationBacked, CancelledAfterCheckoutHoldsNothing, Settled
<1>2. LifeInv /\ StockInv /\ [Next]_vars => StockInv'
  <2> SUFFICES ASSUME LifeInv, StockInv, [Next]_vars PROVE StockInv'
    OBVIOUS
  <2>0. /\ status \in [Order -> Lifecycle!Status \union {"NONE"}]
        /\ piid \in [Order -> BOOLEAN]
        /\ DOMAIN checkout = Order
        /\ DOMAIN pc = Handler /\ DOMAIN job = Handler
        /\ \A x \in Order : checkout[x] \in Unsaved => status[x] = "NONE" /\ ~piid[x]
        /\ \A x \in sweep : x \in Order /\ (status[x] = "CANCELLED" \/ x \in Declined)
        /\ \A h \in Handler :
             pc[h] = "save" /\ job[h].kind = "failed" => status[job[h].order] # "NONE"
    <3>1. \A h \in Handler : pc[h] = "save" => status[job[h].order] # "NONE"
      BY DEF LifeInv, Allowed
    <3> QED
      BY <3>1 DEF LifeInv, TypeOK, RowsOK, CheckoutOK, CronOK, HandlersOK, SavedInTime, StockInv,
                  SweepsMayRelease
  <2>1. ASSUME NEW o \in Order, ReserveInventory(o) PROVE StockInv'
    <3>1. /\ checkout[o] = "start" /\ checkout' = [checkout EXCEPT ![o] = "intent"]
          /\ held' = held \union {o}
          /\ UNCHANGED <<status, piid, stripe, late, sweep, pc, job>>
      BY <2>1 DEF ReserveInventory, At, Catalog!Reserve, rowVars, stripeVars, handlerVars, cronVars
    <3>2. status[o] = "NONE" /\ ~piid[o]
      BY <3>1, <2>0 DEF Unsaved
    <3>3. HeldInCheckout' /\ SweepsMayRelease' /\ NeverPending'
      BY <2>0, <3>1 DEF StockInv, HeldInCheckout, SweepsMayRelease, NeverPending, Declined
    <3>4. LateReleases' /\ LateReserves'
      BY <2>0, <3>1, <3>2 DEF StockInv, LateReleases, LateReserves, MayRelease, Declined
    <3>5. ReleasedFirst'
      BY <2>0, <3>1, <3>2 DEF StockInv, ReleasedFirst
    <3>6. CancelledWasDeclined' /\ ReservationBacked' /\ CancelledAfterCheckoutHoldsNothing'
      BY <3>1, <3>2 DEF StockInv, CancelledWasDeclined, ReservationBacked, CancelledAfterCheckoutHoldsNothing, Declined
    <3> QED
      BY <3>3, <3>4, <3>5, <3>6 DEF StockInv
  <2>2. ASSUME NEW o \in Order, NEW from, NEW to, At(o, from, to),
               UNCHANGED <<status, piid, stripe, held, sweep, pc, job>>,
               to = "intent" => from = "intent", to = "save" => from \in {"intent", "save"},
               from \in {"cancelPayment", "failed"} => to \in {"cancelPayment", "failed"},
               from \in {"cancelInventory", "refused", "failed"} =>
                 to \in {"cancelInventory", "refused", "failed"},
               \A x \in Order :
                 /\ <<"reserve", x>> \in late' =>
                      <<"reserve", x>> \in late \/ (x = o /\ to = "cancelInventory" /\ ~piid[o])
                 /\ <<"release", x>> \in late' =>
                      <<"release", x>> \in late \/ (x = o /\ to = "cancelPayment" /\ status[o] = "NONE")
        PROVE  StockInv'
    <3>1. /\ checkout[o] = from /\ checkout'[o] = to
          /\ \A x \in Order \ {o} : checkout'[x] = checkout[x]
      BY <2>0, <2>2 DEF At
    <3>2. HeldInCheckout' /\ SweepsMayRelease' /\ NeverPending' /\ ReleasedFirst'
      BY <2>2, <3>1 DEF StockInv, HeldInCheckout, SweepsMayRelease, NeverPending, ReleasedFirst,
             Declined
    <3>3. LateReserves'
      BY <2>2, <3>1 DEF StockInv, LateReserves
    <3>4. LateReleases'
      BY <2>2, <3>1 DEF StockInv, LateReleases, MayRelease, Declined
    <3>5. CancelledWasDeclined' /\ ReservationBacked' /\ CancelledAfterCheckoutHoldsNothing'
      BY <2>2 DEF StockInv, CancelledWasDeclined, ReservationBacked, CancelledAfterCheckoutHoldsNothing, Declined
    <3> QED
      BY <3>2, <3>3, <3>4, <3>5 DEF StockInv
  <2>3. ASSUME NEW o \in Order, ReserveRefused(o) \/ ReserveTimesOut(o) PROVE StockInv'
    <3>1. /\ At(o, "start", "cancelInventory")
          /\ UNCHANGED <<status, piid, stripe, held, sweep, pc, job>>
          /\ late' \subseteq late \union {<<"reserve", o>>}
      BY <2>3 DEF ReserveRefused, ReserveTimesOut, rowVars, catalogVars, stripeVars, handlerVars,
         cronVars
    <3>2. ~piid[o]
      BY <3>1, <2>0 DEF At, Unsaved
    <3> QED
      BY <2>2, <3>1, <3>2
  <2>4. ASSUME NEW o \in Order, CreateIntent(o) \/ CreateIntentFails(o) PROVE StockInv'
    <3>1. /\ At(o, "intent", "save") \/ At(o, "intent", "compensate")
          /\ UNCHANGED <<status, piid, stripe, held, late, sweep, pc, job>>
      BY <2>4 DEF CreateIntent, CreateIntentFails, rowVars, catalogVars, handlerVars, cronVars
    <3> QED
      BY <2>2, <3>1
  <2>5. ASSUME NEW o \in Order, CompensateTimesOut(o) PROVE StockInv'
    <3>1. /\ At(o, "compensate", "cancelPayment")
          /\ UNCHANGED <<status, piid, stripe, held, sweep, pc, job>>
          /\ late' = late \union {<<"release", o>>}
      BY <2>5 DEF CompensateTimesOut, rowVars, stripeVars, handlerVars, cronVars
    <3>2. status[o] = "NONE"
      BY <3>1, <2>0 DEF At, Unsaved
    <3> QED
      BY <2>2, <3>1, <3>2
  <2>6. ASSUME NEW o \in Order, DeleteCart(o) \/ CheckoutThrows(o) PROVE StockInv'
    <3>1. /\ UNCHANGED <<status, piid, stripe, held, late, sweep, pc, job>>
          /\ \/ At(o, "cart", "answered")
             \/ \E from \in {"cancelInventory", "cancelPayment", "save", "cart"} :
                  At(o, from, "failed")
      BY <2>6 DEF DeleteCart, CheckoutThrows, rowVars, catalogVars, stripeVars, handlerVars, cronVars
    <3>2. CASE At(o, "cart", "answered")
      BY <2>2, <3>1, <3>2
    <3>3. ASSUME NEW from \in {"cancelInventory", "cancelPayment", "save", "cart"},
                 At(o, from, "failed")
          PROVE  StockInv'
      BY <2>2, <3>1, <3>3
    <3> QED
      BY <3>1, <3>2, <3>3
  <2>7. ASSUME NEW o \in Order, Compensate(o) PROVE StockInv'
    <3>1. /\ checkout[o] = "compensate" /\ checkout' = [checkout EXCEPT ![o] = "cancelPayment"]
          /\ held' = held \ {o}
          /\ UNCHANGED <<status, piid, stripe, late, sweep, pc, job>>
      BY <2>7, HoldersAfterCall DEF Compensate, At, rowVars, stripeVars, handlerVars, cronVars
    <3>2. status[o] = "NONE" /\ ~piid[o]
      BY <3>1, <2>0 DEF Unsaved
    <3>3. HeldInCheckout' /\ SweepsMayRelease' /\ NeverPending' /\ ReleasedFirst'
      BY <2>0, <3>1 DEF StockInv, HeldInCheckout, SweepsMayRelease, NeverPending, ReleasedFirst,
             Declined
    <3>4. LateReleases' /\ LateReserves'
      BY <2>0, <3>1, <3>2 DEF StockInv, LateReleases, LateReserves, MayRelease, Declined
    <3>5. CancelledWasDeclined' /\ ReservationBacked' /\ CancelledAfterCheckoutHoldsNothing'
      BY <3>1, <3>2
      DEF StockInv, CancelledWasDeclined, ReservationBacked, CancelledAfterCheckoutHoldsNothing, Declined, Settled
    <3> QED
      BY <3>3, <3>4, <3>5 DEF StockInv
  <2>8. ASSUME NEW o \in Order, SaveCancelled(o) PROVE StockInv'
    <3>1. /\ checkout[o] \in {"cancelInventory", "cancelPayment"}
          /\ checkout' = [checkout EXCEPT ![o] = "refused"]
          /\ status' = [status EXCEPT ![o] = "CANCELLED"]
          /\ piid' = [piid EXCEPT ![o] = FALSE]
          /\ UNCHANGED <<stripe, held, late, sweep, pc, job>>
      BY <2>8 DEF SaveCancelled, SaveOrder, At, catalogVars, stripeVars, handlerVars, cronVars
    <3>2. HeldInCheckout' /\ SweepsMayRelease' /\ NeverPending' /\ ReleasedFirst'
      BY <2>0, <3>1 DEF StockInv, HeldInCheckout, SweepsMayRelease, NeverPending, ReleasedFirst,
             Declined
    <3>3. LateReleases' /\ LateReserves'
      <4> SUFFICES ASSUME NEW x \in Order
                   PROVE  /\ <<"release", x>> \in late' => MayRelease(x)'
                          /\ <<"reserve", x>> \in late' =>
                               /\ checkout'[x] \in {"cancelInventory", "refused", "failed"}
                               /\ ~piid'[x]
        BY DEF LateReleases, LateReserves
      <4>1. CASE x = o
        BY <2>0, <3>1, <4>1 DEF MayRelease
      <4>2. CASE x # o
        BY <2>0, <3>1, <4>2 DEF StockInv, LateReleases, LateReserves, MayRelease, Declined
      <4> QED
        BY <4>1, <4>2
    <3>4. CancelledWasDeclined' /\ ReservationBacked' /\ CancelledAfterCheckoutHoldsNothing'
      BY <2>0, <3>1
      DEF StockInv, CancelledWasDeclined, ReservationBacked, CancelledAfterCheckoutHoldsNothing, Declined, Settled
    <3> QED
      BY <3>2, <3>3, <3>4 DEF StockInv
  <2>9. ASSUME NEW o \in Order, SaveCreated(o) PROVE StockInv'
    <3>1. /\ checkout[o] = "save" /\ checkout' = [checkout EXCEPT ![o] = "cart"]
          /\ status' = [status EXCEPT ![o] = "PAYMENT_PENDING"]
          /\ piid' = [piid EXCEPT ![o] = TRUE]
          /\ UNCHANGED <<stripe, held, late, sweep, pc, job>>
      BY <2>9 DEF SaveCreated, SaveOrder, At, catalogVars, stripeVars, handlerVars, cronVars
    <3>2. status[o] = "NONE" /\ o \in held
      BY <3>1, <2>0 DEF Unsaved, StockInv, HeldInCheckout
    <3>3. HeldInCheckout' /\ SweepsMayRelease' /\ NeverPending' /\ ReleasedFirst'
      BY <2>0, <3>1, <3>2 DEF StockInv, HeldInCheckout, SweepsMayRelease, NeverPending, ReleasedFirst,
             Declined
    <3>4. LateReleases' /\ LateReserves'
      <4>0. <<"reserve", o>> \notin late /\ (<<"release", o>> \in late => o \in Declined)
        BY <3>1, <3>2 DEF StockInv, LateReleases, LateReserves, MayRelease
      <4> QED
        BY <2>0, <3>1, <4>0 DEF StockInv, LateReleases, LateReserves, MayRelease, Declined
    <3>5. CancelledWasDeclined' /\ ReservationBacked' /\ CancelledAfterCheckoutHoldsNothing'
      BY <2>0, <3>1, <3>2
      DEF StockInv, CancelledWasDeclined, ReservationBacked, CancelledAfterCheckoutHoldsNothing, Declined, Settled
    <3> QED
      BY <3>3, <3>4, <3>5 DEF StockInv
  <2>10. ASSUME NEW o \in Order, LateCall(o, "reserve") PROVE StockInv'
    <3>1. /\ UNCHANGED <<status, piid, checkout, stripe, sweep, pc, job>>
          /\ late' \subseteq late
          /\ held \subseteq held' /\ held' \subseteq held \union {o}
          /\ <<"reserve", o>> \in late
      BY <2>10, HoldersAfterCall DEF LateCall, rowVars, stripeVars, handlerVars, cronVars
    <3>2. ~piid[o]
      BY <3>1 DEF StockInv, LateReserves
    <3>3. o \notin Declined
      BY <3>2, DeclinedIsSaved
    <3>4. ReleasedFirst'
      <4> SUFFICES ASSUME NEW h \in Handler, pc[h] = "save", job[h].kind = "failed"
                   PROVE  job[h].order \notin held'
        BY <3>1 DEF ReleasedFirst
      <4>1. job[h].order # o
        BY <3>3, FailedJobIsDeclined
      <4> QED
        BY <4>1, <3>1 DEF StockInv, ReleasedFirst
    <3>5. LateReleases' /\ LateReserves' /\ SweepsMayRelease' /\ NeverPending' /\ HeldInCheckout'
      BY <3>1 DEF StockInv, LateReleases, LateReserves, SweepsMayRelease, NeverPending,
                  HeldInCheckout, MayRelease, Declined
    <3>6. CancelledWasDeclined' /\ ReservationBacked' /\ CancelledAfterCheckoutHoldsNothing'
      BY <3>1, <3>2 DEF StockInv, CancelledWasDeclined, ReservationBacked, CancelledAfterCheckoutHoldsNothing, Declined
    <3> QED
      BY <3>4, <3>5, <3>6 DEF StockInv
  <2>11. ASSUME NEW o \in Order, LateCall(o, "release") \/ ReleaseOrphan(o) PROVE StockInv'
    <3>1. /\ UNCHANGED <<status, piid, checkout, stripe, pc, job>>
          /\ late' \subseteq late /\ sweep' \subseteq sweep
          /\ held' = held \ {o}
      BY <2>11, HoldersAfterCall
      DEF LateCall, ReleaseOrphan, rowVars, stripeVars, handlerVars, cronVars
    <3>2. MayRelease(o)
      <4>1. CASE LateCall(o, "release")
        BY <4>1 DEF LateCall, StockInv, LateReleases
      <4>2. CASE ReleaseOrphan(o)
        BY <4>2, <2>0 DEF ReleaseOrphan, MayRelease
      <4> QED
        BY <2>11, <4>1, <4>2
    <3> QED
      BY <3>1, <3>2, ReleaseKeepsStock
  <2>12. ASSUME NEW h \in Handler, ReleaseInventory(h) PROVE StockInv'
    <3>1. pc[h] = "release" /\ job[h].kind = "failed"
      BY <2>12 DEF ReleaseInventory, LifeInv, Allowed
    <3>2. job[h].order \in Order /\ MayRelease(job[h].order)
      BY <3>1, FailedJobIsDeclined DEF MayRelease
    <3>3. /\ UNCHANGED <<status, piid, checkout, stripe, job, late, sweep>>
          /\ held' = held \ {job[h].order}
          /\ \A g \in Handler \ {h} : pc'[g] = pc[g]
      BY <2>0, <2>12, <3>2, HoldersAfterCall
      DEF ReleaseInventory, rowVars, stripeVars, cronVars
    <3> QED
      BY <3>2, <3>3, ReleaseKeepsStock
  <2>13. ASSUME NEW h \in Handler, ReleaseTimesOut(h) PROVE StockInv'
    <3>1. pc[h] = "release" /\ job[h].kind = "failed"
      BY <2>13 DEF ReleaseTimesOut, LifeInv, Allowed
    <3>2. job[h].order \in Order /\ MayRelease(job[h].order)
      BY <3>1, FailedJobIsDeclined DEF MayRelease
    <3>3. /\ UNCHANGED <<status, piid, checkout, held, stripe, job, sweep>>
          /\ late' = late \union {<<"release", job[h].order>>}
          /\ \A g \in Handler : pc'[g] = "save" => pc[g] = "save"
      BY <2>0, <2>13 DEF ReleaseTimesOut, rowVars, stripeVars, cronVars
    <3> QED
      BY <3>2, <3>3, <2>0, IdleKeepsStock
  <2>14. ASSUME NEW o \in Order, ReleaseOrphanTimesOut(o) PROVE StockInv'
    <3>1. /\ UNCHANGED <<status, piid, checkout, held, stripe, pc, job>>
          /\ late' = late \union {<<"release", o>>} /\ sweep' \subseteq sweep /\ o \in sweep
      BY <2>14 DEF ReleaseOrphanTimesOut, rowVars, stripeVars, handlerVars
    <3> QED
      BY <3>1, <2>0, IdleKeepsStock DEF MayRelease
  <2>15. ASSUME NEW h \in Handler, SaveTransition(h) PROVE StockInv'
    <3> DEFINE o == job[h].order
               to == Target(job[h].kind)
    <3>1. /\ o \in Order /\ job[h].kind \in {"succeeded", "failed", "ship", "deliver"}
          /\ status[o] # "NONE" /\ piid[o]
          /\ status' = [status EXCEPT ![o] = to]
          /\ piid' = piid
          /\ UNCHANGED <<checkout, stripe, held, late, sweep, job>>
          /\ \A g \in Handler : pc'[g] = "save" => pc[g] = "save"
      <4>1. pc[h] = "save" /\ o \in Order /\ job[h] \in Job
        BY <2>15, JobTypes DEF SaveTransition, LifeInv
      <4>2. status[o] # "NONE" /\ piid[o]
        BY <4>1 DEF LifeInv, Allowed
      <4>3. job[h].kind \in {"succeeded", "failed", "ship", "deliver"}
        BY <4>1 DEF Job, Event, Request
      <4> QED
        BY <4>1, <4>2, <4>3, <2>0, <2>15
        DEF SaveTransition, SaveOrder, catalogVars, stripeVars, cronVars
    <3>2. /\ status[o] \in {"PAYMENT_PENDING", "CANCELLED"} \union Settled
          /\ status[o] = "CANCELLED" => o \in Declined
      BY <3>1, <2>0
      DEF StockInv, NeverPending, CancelledWasDeclined, Settled, Lifecycle!Status
    <3>3. /\ to \in {"CANCELLED"} \union Settled
          /\ to = "CANCELLED" => o \in Declined /\ o \notin held
      <4>1. to \in {"CANCELLED"} \union Settled /\ (to = "CANCELLED" => job[h].kind = "failed")
        BY <3>1 DEF Target, Settled
      <4>2. job[h].kind = "failed" => o \in Declined
        BY <2>15, FailedJobIsDeclined DEF SaveTransition
      <4>3. job[h].kind = "failed" => o \notin held
        BY <2>15 DEF SaveTransition, StockInv, ReleasedFirst
      <4> QED
        BY <4>1, <4>2, <4>3
    <3>4. /\ \A x \in Order \ {o} : status'[x] = status[x]
          /\ status'[o] = to
          /\ Declined' = Declined
      BY <2>0, <3>1 DEF Declined
    <3>5. HeldInCheckout' /\ LateReserves' /\ NeverPending' /\ ReleasedFirst'
      BY <3>1, <3>3, <3>4
      DEF StockInv, HeldInCheckout, LateReserves, NeverPending, ReleasedFirst, Settled
    <3>6. SweepsMayRelease'
      BY <3>1, <3>2, <3>4, <2>0 DEF StockInv, SweepsMayRelease
    <3>7. LateReleases'
      BY <3>1, <3>2, <3>4 DEF StockInv, LateReleases, MayRelease
    <3>8. CancelledWasDeclined' /\ CancelledAfterCheckoutHoldsNothing'
      BY <3>1, <3>3, <3>4 DEF StockInv, CancelledWasDeclined, CancelledAfterCheckoutHoldsNothing
    <3>9. ReservationBacked'
      BY <3>1, <3>2, <3>4 DEF StockInv, ReservationBacked
    <3> QED
      BY <3>5, <3>6, <3>7, <3>8, <3>9 DEF StockInv
  <2>16. ASSUME NEW h \in Handler, Enter(h) PROVE StockInv'
    <3>1. /\ UNCHANGED <<status, piid, checkout, held, late, stripe, job, sweep>>
          /\ pc' = [pc EXCEPT ![h] = Decide(job[h].kind, status[job[h].order], piid[job[h].order])]
      BY <2>16 DEF Enter, rowVars, catalogVars, stripeVars, cronVars
    <3>2. job[h].kind = "failed" => pc'[h] # "save"
      BY <2>0, <3>1
      DEF Decide, MarkPaymentSucceeded, MarkPaymentFailed, UpdateOrderStatus
    <3> QED
      BY <2>0, <3>1, <3>2, IdleKeepsStock
  <2>17. ASSUME NEW h \in Handler, Leave(h) \/ Settle(h) \/ HandlerThrows(h) \/ CommitRefused(h)
         PROVE  StockInv'
    <3>1. /\ UNCHANGED <<status, piid, checkout, held, late, stripe, sweep>>
          /\ \A g \in Handler : pc'[g] = "save" => pc[g] = "save" /\ job'[g] = job[g]
      BY <2>0, <2>17
      DEF Leave, Settle, HandlerThrows, CommitRefused, Abandon, Finish, rowVars, catalogVars, stripeVars, cronVars
    <3> QED
      BY <2>0, <3>1, IdleKeepsStock
  <2>29. ASSUME NEW h \in Handler, LockExpires(h) PROVE StockInv'
    <3>1. UNCHANGED <<status, piid, checkout, held, late, stripe, sweep, pc, job>>
      BY <2>29 DEF LockExpires, rowVars, catalogVars, stripeVars, cronVars
    <3> QED
      BY <2>0, <3>1, IdleKeepsStock
  <2>18. ASSUME NEW h \in Handler, NEW j \in Job, Assign(h, j) PROVE StockInv'
    <3>1. /\ UNCHANGED <<status, piid, checkout, held, late, stripe, sweep>>
          /\ \A g \in Handler : pc'[g] = "save" => pc[g] = "save" /\ job'[g] = job[g]
      BY <2>0, <2>18 DEF Assign, rowVars, catalogVars, stripeVars, cronVars
    <3> QED
      BY <2>0, <3>1, IdleKeepsStock
  <2>19. ASSUME NEW o \in Order, NEW kind \in {"succeeded", "failed"}, Pay(o, kind) PROVE StockInv'
    <3>1. /\ UNCHANGED <<status, piid, checkout, held, late, sweep, pc, job>>
          /\ stripe \subseteq stripe'
      BY <2>19 DEF Pay, rowVars, catalogVars, handlerVars, cronVars
    <3> QED
      BY <2>0, <3>1, IdleKeepsStock
  <2>20. ASSUME NEW e \in Event, RecordEvent(e) \/ PublishEvent(e) \/ PublishFails(e)
         PROVE  StockInv'
    <3>1. UNCHANGED <<status, piid, checkout, held, late, stripe, sweep, pc, job>>
      BY <2>20 DEF RecordEvent, PublishEvent, PublishFails, rowVars, catalogVars, stripeVars,
         handlerVars, cronVars
    <3> QED
      BY <2>0, <3>1, IdleKeepsStock
  <2>21. CASE FindOrphans
    <3>1. /\ UNCHANGED <<status, piid, checkout, held, late, stripe, pc, job>>
          /\ sweep' \subseteq Orphans
      BY <2>21 DEF FindOrphans, rowVars, catalogVars, stripeVars, handlerVars
    <3>2. \A o \in Orphans : status[o] = "CANCELLED"
      BY DEF Orphans, StockInv, NeverPending
    <3> QED
      BY <3>1, <3>2, IdleKeepsStock
  <2>22. CASE ReconcileStalePaidOrders
    <3>1. UNCHANGED <<status, piid, checkout, held, late, stripe, sweep, pc, job>>
      BY <2>22 DEF ReconcileStalePaidOrders, rowVars, catalogVars, stripeVars, handlerVars
    <3> QED
      BY <2>0, <3>1, IdleKeepsStock
  <2>23. CASE Crash
    <3>1. /\ UNCHANGED <<status, piid, held, late, stripe>>
          /\ sweep' = {}
          /\ \A h \in Handler : pc'[h] = "idle"
          /\ \A o \in Order : checkout'[o] = checkout[o] \/ checkout'[o] = "failed"
      BY <2>23 DEF Crash, rowVars, catalogVars, stripeVars
    <3> QED
      BY <3>1, IdleKeepsStock
  <2>24. CASE UNCHANGED vars
    <3>1. UNCHANGED <<status, piid, checkout, held, late, stripe, sweep, pc, job>>
      BY <2>24 DEF vars, rowVars, catalogVars, stripeVars, handlerVars, cronVars
    <3> QED
      BY <2>0, <3>1, IdleKeepsStock
  <2>25. ASSUME NEW h \in Handler, HandlerStep(h) PROVE StockInv'
    BY <2>25, <2>12, <2>15, <2>16, <2>17 DEF HandlerStep
  <2>26. ASSUME NEW c \in Consumer, NEW e \in Event, Deliver(c, e) PROVE StockInv'
    BY <2>26, <2>18 DEF Deliver, Handler, Job
  <2>27. ASSUME NEW a \in Admin, NEW r \in Request, AdminRequest(a, r) PROVE StockInv'
    BY <2>27, <2>18 DEF AdminRequest, Handler, Job
  <2>28. ASSUME NEW o \in Order, CheckoutStep(o) \/ CheckoutFault(o) PROVE StockInv'
    BY <2>28, <2>1, <2>3, <2>4, <2>5, <2>6, <2>7, <2>8, <2>9 DEF CheckoutStep, CheckoutFault
  <2> QED
    BY <2>10, <2>11, <2>13, <2>14, <2>17, <2>19, <2>20, <2>21, <2>22, <2>23, <2>24, <2>25, <2>26,
       <2>27, <2>28, <2>29
    DEF Next, HandlerFault
<1> QED
  BY <1>1, <1>2, LifeCorrect, PTL DEF Spec

(* Reconciliation, late calls and compensation never take the stock of an order that is *)
(* waiting for its payment, paid or shipped, unless an attempt to pay it was declined.   *)
THEOREM ReservationsBacked == Spec => []ReservationBacked
BY StockCorrect, PTL DEF StockInv

(* An order cancelled after its checkout has given its stock back before the row says so. *)
THEOREM CancelledHoldNothing == Spec => []CancelledAfterCheckoutHoldsNothing
BY StockCorrect, PTL DEF StockInv
================================================================================
