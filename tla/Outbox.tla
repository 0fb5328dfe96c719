--------------------------------- MODULE Outbox ---------------------------------
(***************************************************************************)
(* The transactional outbox of the order service (the catalog's is the     *)
(* same): rows committed with an aggregate, and OutboxPollerCron on every  *)
(* replica draining them to RabbitMQ through drainBatch.                   *)
(*                                                                         *)
(* drainBatch publishes inside the database transaction that locks its     *)
(* rows.  The broker cannot be rolled back with it, and Prisma rolls back   *)
(* a transaction that outlives its time limit while the loop over the rows  *)
(* goes on publishing.                                                     *)
(***************************************************************************)
EXTENDS Integers, FiniteSets

CONSTANTS
  Event,      \* outbox_events rows, numbered by created_at
  Replica,    \* processes that run the poller
  NoReplica,
  Limit,      \* ORDER_OUTBOX_BATCH_SIZE
  MaxFaults   \* bound: failures in one behaviour

ASSUME OutboxAssumption ==
  /\ Event \subseteq Nat
  /\ NoReplica \notin Replica
  /\ Limit \in Nat \ {0} /\ MaxFaults \in Nat

VARIABLES
  row,    \* row[e]: not inserted yet, or what published_at says
  lock,   \* lock[e]: the replica whose transaction locks the row
  tx,     \* tx[r]: the drainBatch transaction of r
  batch,  \* batch[r]: claimed rows the loop has not come to
  done,   \* done[r]: claimed rows whose publish was confirmed
  sent,   \* sent[e]: times the broker has accepted e
  faults  \* failures so far

outboxVars == <<row, lock, tx, batch, done, sent, faults>>

OutboxInit ==
  /\ row = [e \in Event |-> "none"]
  /\ lock = [e \in Event |-> NoReplica]
  /\ tx = [r \in Replica |-> "none"]
  /\ batch = [r \in Replica |-> {}]
  /\ done = [r \in Replica |-> {}]
  /\ sent = [e \in Event |-> 0]
  /\ faults = 0

Fault ==
  /\ faults < MaxFaults
  /\ faults' = faults + 1

(* The save of an aggregate commits with its event; commits need not follow created_at. *)
Append(e) ==
  /\ row[e] = "none"
  /\ row' = [row EXCEPT ![e] = "unpublished"]
  /\ UNCHANGED <<lock, tx, batch, done, sent, faults>>

Claimable == {e \in Event : row[e] = "unpublished" /\ lock[e] = NoReplica}

(* ORDER BY created_at LIMIT ... FOR UPDATE SKIP LOCKED; with no row the tick does nothing. *)
Drain(r) ==
  /\ tx[r] = "none"
  /\ \E S \in SUBSET Claimable :
       /\ S # {}
       /\ Cardinality(S) <= Limit
       /\ Cardinality(S) < Limit => S = Claimable
       /\ \A e \in S, f \in Claimable \ S : e < f
       /\ lock' = [e \in Event |-> IF e \in S THEN r ELSE lock[e]]
       /\ batch' = [batch EXCEPT ![r] = S]
  /\ tx' = [tx EXCEPT ![r] = "open"]
  /\ UNCHANGED <<row, done, sent, faults>>

(* The loop reaches row e; it runs on when the transaction has expired. *)
Reaches(r, e) ==
  /\ e \in batch[r]
  /\ \A f \in batch[r] : e <= f
  /\ batch' = [batch EXCEPT ![r] = @ \ {e}]

(* The broker accepts the message and its confirm arrives. *)
Publish(r, e) ==
  /\ Reaches(r, e)
  /\ sent' = [sent EXCEPT ![e] = @ + 1]
  /\ done' = [done EXCEPT ![r] = @ \union {e}]
  /\ UNCHANGED <<row, lock, tx, faults>>

(* Mutant: the id is pushed before the publish is awaited. *)
PublishThrowsMarked(r, e) ==
  /\ Reaches(r, e)
  /\ Fault
  /\ done' = [done EXCEPT ![r] = @ \union {e}]
  /\ UNCHANGED <<row, lock, tx, sent>>

(* publishFn throws, and the loop goes on: refused, or accepted with the confirm lost. *)
PublishThrows(r, e) ==
  /\ Reaches(r, e)
  /\ Fault
  /\ \E accepted \in {0, 1} : sent' = [sent EXCEPT ![e] = @ + accepted]
  /\ UNCHANGED <<row, lock, tx, done>>

(* Mutant: locks that outlive their transaction (a claimed_by column instead of row locks). *)
UnlockNothing(r) == UNCHANGED lock

Unlock(r) == lock' = [e \in Event |-> IF lock[e] = r THEN NoReplica ELSE lock[e]]

Stop(r) ==
  /\ tx' = [tx EXCEPT ![r] = "none"]
  /\ done' = [done EXCEPT ![r] = {}]

(* Mutant: only a full batch is marked. *)
MarkPublishedIfFull(r) ==
  /\ tx[r] = "open" /\ batch[r] = {}
  /\ row' = [e \in Event |->
       IF e \in done[r] /\ Cardinality(done[r]) = Limit THEN "published" ELSE row[e]]
  /\ Unlock(r)
  /\ Stop(r)
  /\ UNCHANGED <<batch, sent, faults>>

(* updateMany marks the confirmed rows, and the transaction commits. *)
MarkPublished(r) ==
  /\ tx[r] = "open" /\ batch[r] = {}
  /\ row' = [e \in Event |-> IF e \in done[r] THEN "published" ELSE row[e]]
  /\ Unlock(r)
  /\ Stop(r)
  /\ UNCHANGED <<batch, sent, faults>>

(* The time limit of the interactive transaction: the database gives the locks back. *)
Expire(r) ==
  /\ tx[r] = "open"
  /\ Fault
  /\ tx' = [tx EXCEPT ![r] = "expired"]
  /\ Unlock(r)
  /\ UNCHANGED <<row, batch, done, sent>>

(* updateMany, or the commit, throws on the expired transaction. *)
MarkRefused(r) ==
  /\ tx[r] = "expired" /\ batch[r] = {}
  /\ Stop(r)
  /\ UNCHANGED <<row, lock, batch, sent, faults>>

Crash(r) ==
  /\ tx[r] # "none"
  /\ Fault
  /\ batch' = [batch EXCEPT ![r] = {}]
  /\ Unlock(r)
  /\ Stop(r)
  /\ UNCHANGED <<row, sent>>

DrainStep(r) ==
  \/ Drain(r)
  \/ \E e \in Event : Publish(r, e)
  \/ MarkPublished(r) \/ MarkRefused(r)

OutboxNext ==
  \/ \E e \in Event : Append(e)
  \/ \E r \in Replica :
       \/ DrainStep(r)
       \/ \E e \in Event : PublishThrows(r, e)
       \/ Expire(r) \/ Crash(r)

OutboxSpec == OutboxInit /\ [][OutboxNext]_outboxVars

(* The cron ticks every second on every replica, and a drain runs to its end. *)
OutboxFairness == \A r \in Replica : WF_outboxVars(DrainStep(r))

FairOutboxSpec == OutboxSpec /\ OutboxFairness
--------------------------------------------------------------------------------
OutboxTypeOK ==
  /\ row \in [Event -> {"none", "unpublished", "published"}]
  /\ lock \in [Event -> Replica \union {NoReplica}]
  /\ tx \in [Replica -> {"none", "open", "expired"}]
  /\ batch \in [Replica -> SUBSET Event]
  /\ done \in [Replica -> SUBSET Event]
  /\ \A r \in Replica : tx[r] = "none" => batch[r] = {} /\ done[r] = {}
  /\ sent \in [Event -> Nat]
  /\ faults \in 0..MaxFaults

(* No event is lost: a row counts as published only after the broker accepted it,    *)
(* whatever throws, expires or crashes on the way (the publisher waits for the         *)
(* confirm, and drainBatch leaves a failed row unmarked).                              *)
MarkedWasAccepted == \A e \in Event : row[e] = "published" => sent[e] > 0

(* FOR UPDATE SKIP LOCKED gives concurrent replicas disjoint rows: two transactions   *)
(* that can still commit never mark the same row.                                     *)
ClaimsAreDisjoint ==
  \A r, s \in Replica :
    r # s /\ tx[r] = "open" /\ tx[s] = "open" =>
      (batch[r] \union done[r]) \intersect (batch[s] \union done[s]) = {}

(* Replicas alone never publish a row twice: every repeated publication of a row, on  *)
(* whichever replica, goes back to a failure of its own.                              *)
RepeatsCostFailures == \A e \in Event : sent[e] <= 1 + faults

(* Once the failures are over every committed event is published and marked, and no   *)
(* replica keeps a row locked away from the others.                                   *)
CommittedIsPublished ==
  \A e \in Event : row[e] = "unpublished" ~> row[e] = "published"
================================================================================
