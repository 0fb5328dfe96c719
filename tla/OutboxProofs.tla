----------------------------- MODULE OutboxProofs -----------------------------
(***************************************************************************)
(* Proofs about Outbox, for any number of rows, replicas and failures and   *)
(* any batch size: its safety invariants hold.  The account of publications *)
(* charges every attempt at a row, made or still to be made, to a failure,  *)
(* except the one of the transaction that can still mark the row.           *)
(*                                                                         *)
(* Then about OrderMail, for any number of handlers and attempts: it leaves  *)
(* the outbox as it is, drops no mail, and sends a second one only after a   *)
(* failure.  Its budget counts with the mails sent those still to come       *)
(* without another failure, which depends on the job, its stalls and whether *)
(* the worker may be restarted for free.                                    *)
(***************************************************************************)
EXTENDS OrderMail, FiniteSetTheorems, TLAPS

(* Type correctness is inductive on its own. *)
LEMMA TypeInit == OutboxInit => OutboxTypeOK
BY OutboxAssumption DEF OutboxInit, OutboxTypeOK

LEMMA TypeStep == OutboxTypeOK /\ [OutboxNext]_outboxVars => OutboxTypeOK'
<1> SUFFICES ASSUME OutboxTypeOK, [OutboxNext]_outboxVars
             PROVE  OutboxTypeOK'
  OBVIOUS
<1> USE OutboxAssumption DEF OutboxTypeOK
<1>1. ASSUME NEW e \in Event, Append(e)
      PROVE  OutboxTypeOK'
  BY <1>1 DEF Append
<1>2. ASSUME NEW r \in Replica, Drain(r)
      PROVE  OutboxTypeOK'
  BY <1>2 DEF Drain, Claimable
<1>3. ASSUME NEW r \in Replica, NEW e \in Event, Publish(r, e)
      PROVE  OutboxTypeOK'
  BY <1>3 DEF Publish, Reaches
<1>4. ASSUME NEW r \in Replica, NEW e \in Event, PublishThrows(r, e)
      PROVE  OutboxTypeOK'
  BY <1>4 DEF PublishThrows, Reaches, Fault
<1>5. ASSUME NEW r \in Replica, MarkPublished(r)
      PROVE  OutboxTypeOK'
  BY <1>5 DEF MarkPublished, Unlock, Stop
<1>6. ASSUME NEW r \in Replica, MarkRefused(r)
      PROVE  OutboxTypeOK'
  BY <1>6 DEF MarkRefused, Stop
<1>7. ASSUME NEW r \in Replica, Expire(r)
      PROVE  OutboxTypeOK'
  BY <1>7 DEF Expire, Unlock, Fault
<1>8. ASSUME NEW r \in Replica, Crash(r)
      PROVE  OutboxTypeOK'
  BY <1>8 DEF Crash, Unlock, Stop, Fault
<1>9. CASE UNCHANGED outboxVars
  BY <1>9 DEF outboxVars
<1> QED
  BY <1>1, <1>2, <1>3, <1>4, <1>5, <1>6, <1>7, <1>8, <1>9 DEF OutboxNext, DrainStep

(* drainBatch and its poller keep their variables in shape, whatever fails. *)
THEOREM TypeCorrect == OutboxSpec => []OutboxTypeOK
BY TypeInit, TypeStep, PTL DEF OutboxSpec
-------------------------------------------------------------------------------
(* What is confirmed was accepted, and a row is marked only when it was confirmed. *)
Accepted ==
  /\ \A r \in Replica : \A e \in done[r] : sent[e] > 0
  /\ MarkedWasAccepted

LEMMA AcceptedStep == OutboxTypeOK /\ Accepted /\ [OutboxNext]_outboxVars => Accepted'
<1> SUFFICES ASSUME OutboxTypeOK, Accepted, [OutboxNext]_outboxVars
             PROVE  Accepted'
  OBVIOUS
<1> USE DEF OutboxTypeOK, Accepted, MarkedWasAccepted
<1>1. ASSUME NEW e \in Event, Append(e)
      PROVE  Accepted'
  BY <1>1 DEF Append
<1>2. ASSUME NEW r \in Replica, Drain(r)
      PROVE  Accepted'
  BY <1>2 DEF Drain
<1>3. ASSUME NEW r \in Replica, NEW e \in Event, Publish(r, e)
      PROVE  Accepted'
  BY <1>3 DEF Publish, Reaches
<1>4. ASSUME NEW r \in Replica, NEW e \in Event, PublishThrows(r, e)
      PROVE  Accepted'
  BY <1>4 DEF PublishThrows, Reaches
<1>5. ASSUME NEW r \in Replica, MarkPublished(r)
      PROVE  Accepted'
  BY <1>5 DEF MarkPublished, Stop
<1>6. ASSUME NEW r \in Replica, MarkRefused(r) \/ Crash(r)
      PROVE  Accepted'
  BY <1>6 DEF MarkRefused, Crash, Stop
<1>7. ASSUME NEW r \in Replica, Expire(r)
      PROVE  Accepted'
  BY <1>7 DEF Expire
<1>8. CASE UNCHANGED outboxVars
  BY <1>8 DEF outboxVars
<1> QED
  BY <1>1, <1>2, <1>3, <1>4, <1>5, <1>6, <1>7, <1>8 DEF OutboxNext, DrainStep

(* No event is lost: a row counts as published only after the broker accepted it. *)
THEOREM MarkedOnlyWhenAccepted == OutboxSpec => []MarkedWasAccepted
<1>1. OutboxInit => Accepted
  BY DEF OutboxInit, Accepted, MarkedWasAccepted
<1>2. Accepted => MarkedWasAccepted
  BY DEF Accepted
<1> QED
  BY <1>1, <1>2, AcceptedStep, TypeCorrect, PTL DEF OutboxSpec
-------------------------------------------------------------------------------
(* Only a committed row is locked or claimed, and an open transaction holds the locks *)
(* of what it will publish and mark.                                                   *)
Locked ==
  /\ \A e \in Event : row[e] = "none" => lock[e] = NoReplica /\ sent[e] = 0
  /\ \A r \in Replica : \A e \in batch[r] : row[e] # "none"
  /\ \A r \in Replica : tx[r] = "open" =>
        \A e \in batch[r] \union done[r] : lock[e] = r /\ row[e] = "unpublished"

LEMMA LockedStep == OutboxTypeOK /\ Locked /\ [OutboxNext]_outboxVars => Locked'
<1> SUFFICES ASSUME OutboxTypeOK, Locked, [OutboxNext]_outboxVars
             PROVE  Locked'
  OBVIOUS
<1> USE OutboxAssumption DEF OutboxTypeOK, Locked
<1>1. ASSUME NEW e \in Event, Append(e)
      PROVE  Locked'
  BY <1>1 DEF Append
<1>2. ASSUME NEW r \in Replica, Drain(r)
      PROVE  Locked'
  BY <1>2 DEF Drain, Claimable
<1>3. ASSUME NEW r \in Replica, NEW e \in Event, Publish(r, e)
      PROVE  Locked'
  BY <1>3 DEF Publish, Reaches
<1>4. ASSUME NEW r \in Replica, NEW e \in Event, PublishThrows(r, e)
      PROVE  Locked'
  BY <1>4 DEF PublishThrows, Reaches
<1>5. ASSUME NEW r \in Replica, MarkPublished(r)
      PROVE  Locked'
  BY <1>5 DEF MarkPublished, Unlock, Stop
<1>6. ASSUME NEW r \in Replica, MarkRefused(r)
      PROVE  Locked'
  BY <1>6 DEF MarkRefused, Stop
<1>7. ASSUME NEW r \in Replica, Expire(r)
      PROVE  Locked'
  BY <1>7 DEF Expire, Unlock
<1>8. ASSUME NEW r \in Replica, Crash(r)
      PROVE  Locked'
  BY <1>8 DEF Crash, Unlock, Stop
<1>9. CASE UNCHANGED outboxVars
  BY <1>9 DEF outboxVars
<1> QED
  BY <1>1, <1>2, <1>3, <1>4, <1>5, <1>6, <1>7, <1>8, <1>9 DEF OutboxNext, DrainStep

LEMMA LockedAlways == OutboxSpec => []Locked
<1>1. OutboxInit => Locked
  BY OutboxAssumption DEF OutboxInit, Locked
<1> QED
  BY <1>1, LockedStep, TypeCorrect, PTL DEF OutboxSpec

(* Two transactions that can still commit never hold the same row, so that no row is *)
(* marked by a replica that did not publish it.                                       *)
THEOREM ClaimsDisjoint == OutboxSpec => []ClaimsAreDisjoint
<1>1. OutboxTypeOK /\ Locked => ClaimsAreDisjoint
  BY DEF Locked, ClaimsAreDisjoint, OutboxTypeOK
<1> QED
  BY <1>1, LockedAlways, TypeCorrect, PTL DEF OutboxSpec
-------------------------------------------------------------------------------
(* The replicas whose loop is still to come to row e, and the publications of e made *)
(* or still to be made.                                                               *)
Pending(e) == {r \in Replica : e \in batch[r]}
Publications(e) == sent[e] + Cardinality(Pending(e))

(* An open transaction that can still mark row e. *)
Owned(e) == \E r \in Replica : tx[r] = "open" /\ e \in batch[r] \union done[r]

(* Every attempt is paid by a failure of its own, except one of a row that is marked *)
(* or can still be.                                                                   *)
Paid(e) ==
  /\ IsFiniteSet(Pending(e))
  /\ Publications(e) <= 1 + faults
  /\ row[e] # "published" /\ ~Owned(e) => Publications(e) <= faults

Charged == \A e \in Event : Paid(e)

(* The loop of r comes to row e: one claim less. *)
LEMMA ReachesSpends ==
  ASSUME OutboxTypeOK, Charged, NEW r \in Replica, NEW e \in Event, Reaches(r, e), NEW x \in Event
  PROVE  /\ IsFiniteSet(Pending(x)')
         /\ Cardinality(Pending(x)) \in Nat
         /\ Cardinality(Pending(x)') = IF x = e THEN Cardinality(Pending(x)) - 1
                                               ELSE Cardinality(Pending(x))
<1>1. IsFiniteSet(Pending(x)) /\ Cardinality(Pending(x)) \in Nat
  BY FS_CardinalityType DEF Charged, Paid
<1>2. CASE x = e
  <2>1. Pending(e)' = Pending(e) \ {r} /\ r \in Pending(e)
    BY DEF Reaches, Pending, OutboxTypeOK
  <2> QED
    BY <1>1, <1>2, <2>1, FS_RemoveElement
<1>3. CASE x # e
  <2>1. Pending(x)' = Pending(x)
    BY <1>3 DEF Reaches, Pending, OutboxTypeOK
  <2> QED
    BY <1>1, <1>3, <2>1
<1> QED
  BY <1>2, <1>3

LEMMA ChargedStep == OutboxTypeOK /\ Locked /\ Charged /\ [OutboxNext]_outboxVars => Charged'
<1> SUFFICES ASSUME OutboxTypeOK, Locked, Charged, [OutboxNext]_outboxVars, NEW x \in Event
             PROVE  Paid(x)'
  BY DEF Charged
<1>0. /\ IsFiniteSet(Pending(x)) /\ Cardinality(Pending(x)) \in Nat
      /\ sent[x] \in Nat /\ faults \in Nat
      /\ sent[x] + Cardinality(Pending(x)) <= 1 + faults
      /\ row[x] # "published" /\ ~Owned(x) => sent[x] + Cardinality(Pending(x)) <= faults
  BY FS_CardinalityType, OutboxAssumption DEF Charged, Paid, Publications, OutboxTypeOK
<1>1. ASSUME NEW e \in Event, Append(e)
      PROVE  Paid(x)'
  <2>1. Pending(x)' = Pending(x) /\ Owned(x)' = Owned(x)
    BY <1>1 DEF Append, Pending, Owned
  <2>2. row'[x] # "published" => row[x] # "published"
    BY <1>1 DEF Append, OutboxTypeOK
  <2> QED
    BY <1>0, <1>1, <2>1, <2>2 DEF Append, Paid, Publications
<1>2. ASSUME NEW r \in Replica, Drain(r)
      PROVE  Paid(x)'
  <2>1. PICK S \in SUBSET Claimable :
          /\ lock' = [e \in Event |-> IF e \in S THEN r ELSE lock[e]]
          /\ batch' = [batch EXCEPT ![r] = S]
    BY <1>2 DEF Drain
  <2>2. /\ tx[r] = "none" /\ batch[r] = {} /\ done[r] = {}
        /\ tx' = [tx EXCEPT ![r] = "open"]
        /\ UNCHANGED <<row, done, sent, faults>>
    BY <1>2 DEF Drain, OutboxTypeOK
  <2>3. CASE x \in S
    <3>1. row[x] # "published" /\ ~Owned(x)
      BY <2>1, <2>3, OutboxAssumption DEF Claimable, Owned, Locked
    <3>2. Pending(x)' = Pending(x) \union {r} /\ r \notin Pending(x)
      BY <2>1, <2>2, <2>3 DEF Pending, OutboxTypeOK
    <3>3. /\ IsFiniteSet(Pending(x)')
          /\ Cardinality(Pending(x)') = Cardinality(Pending(x)) + 1
      BY <1>0, <3>2, FS_AddElement
    <3>4. Owned(x)'
      BY <2>1, <2>2, <2>3 DEF Owned, OutboxTypeOK
    <3> QED
      BY <1>0, <2>2, <3>1, <3>3, <3>4 DEF Paid, Publications
  <2>4. CASE x \notin S
    <3>1. Pending(x)' = Pending(x)
      BY <2>1, <2>2, <2>4 DEF Pending, OutboxTypeOK
    <3>2. Owned(x) => Owned(x)'
      BY <2>1, <2>2 DEF Owned, OutboxTypeOK
    <3> QED
      BY <1>0, <2>2, <3>1, <3>2 DEF Paid, Publications
  <2> QED
    BY <2>3, <2>4
<1>3. ASSUME NEW r \in Replica, NEW e \in Event, Publish(r, e)
      PROVE  Paid(x)'
  <2>1. Reaches(r, e)
    BY <1>3 DEF Publish
  <2>2. Owned(x) => Owned(x)'
    BY <1>3 DEF Publish, Reaches, Owned, OutboxTypeOK
  <2>3. sent'[x] = IF x = e THEN sent[x] + 1 ELSE sent[x]
    BY <1>3 DEF Publish, OutboxTypeOK
  <2> QED
    BY <1>0, <1>3, <2>1, <2>2, <2>3, ReachesSpends DEF Publish, Paid, Publications
<1>4. ASSUME NEW r \in Replica, NEW e \in Event, PublishThrows(r, e)
      PROVE  Paid(x)'
  <2>1. Reaches(r, e)
    BY <1>4 DEF PublishThrows
  <2>2. sent'[x] \in Nat /\ sent'[x] <= (IF x = e THEN sent[x] + 1 ELSE sent[x])
    BY <1>0, <1>4 DEF PublishThrows, OutboxTypeOK
  <2> QED
    BY <1>0, <1>4, <2>1, <2>2, ReachesSpends DEF PublishThrows, Fault, Paid, Publications
<1>5. ASSUME NEW r \in Replica, MarkPublished(r)
      PROVE  Paid(x)'
  <2>1. Pending(x)' = Pending(x)
    BY <1>5 DEF MarkPublished, Pending
  <2>2. Owned(x) /\ row'[x] # "published" => Owned(x)'
    BY <1>5 DEF MarkPublished, Stop, Owned, OutboxTypeOK
  <2>3. row'[x] # "published" => row[x] # "published"
    BY <1>5 DEF MarkPublished, OutboxTypeOK
  <2> QED
    BY <1>0, <1>5, <2>1, <2>2, <2>3 DEF MarkPublished, Paid, Publications
<1>6. ASSUME NEW r \in Replica, MarkRefused(r)
      PROVE  Paid(x)'
  <2>1. Pending(x)' = Pending(x)
    BY <1>6 DEF MarkRefused, Pending
  <2>2. Owned(x) => Owned(x)'
    BY <1>6 DEF MarkRefused, Stop, Owned, OutboxTypeOK
  <2> QED
    BY <1>0, <1>6, <2>1, <2>2 DEF MarkRefused, Paid, Publications
<1>7. ASSUME NEW r \in Replica, Expire(r)
      PROVE  Paid(x)'
  <2>1. Pending(x)' = Pending(x)
    BY <1>7 DEF Expire, Pending
  <2> QED
    BY <1>0, <1>7, <2>1 DEF Expire, Fault, Paid, Publications
<1>8. ASSUME NEW r \in Replica, Crash(r)
      PROVE  Paid(x)'
  <2>1. Pending(x)' \subseteq Pending(x)
    BY <1>8 DEF Crash, Pending, OutboxTypeOK
  <2>2. /\ IsFiniteSet(Pending(x)') /\ Cardinality(Pending(x)') \in Nat
        /\ Cardinality(Pending(x)') <= Cardinality(Pending(x))
    BY <1>0, <2>1, FS_Subset, FS_CardinalityType
  <2> QED
    BY <1>0, <1>8, <2>2 DEF Crash, Fault, Paid, Publications
<1>9. CASE UNCHANGED outboxVars
  <2>1. Pending(x)' = Pending(x) /\ Owned(x)' = Owned(x)
    BY <1>9 DEF outboxVars, Pending, Owned
  <2> QED
    BY <1>0, <1>9, <2>1 DEF outboxVars, Paid, Publications
<1> QED
  BY <1>1, <1>2, <1>3, <1>4, <1>5, <1>6, <1>7, <1>8, <1>9 DEF OutboxNext, DrainStep

(* However many replicas drain the table, a row is published again only after a failure *)
(* of its own: a publish or a transaction that failed, or a replica that died.          *)
THEOREM RepeatsCharged == OutboxSpec => []RepeatsCostFailures
<1>1. OutboxInit => Charged
  <2> SUFFICES ASSUME OutboxInit, NEW x \in Event
               PROVE  Paid(x)
    BY DEF Charged
  <2>1. Pending(x) = {} /\ sent[x] = 0 /\ faults = 0
    BY DEF OutboxInit, Pending
  <2> QED
    BY <2>1, FS_EmptySet DEF Paid, Publications
<1>2. OutboxTypeOK /\ Charged => RepeatsCostFailures
  <2> SUFFICES ASSUME OutboxTypeOK, Charged, NEW x \in Event
               PROVE  sent[x] <= 1 + faults
    BY DEF RepeatsCostFailures
  <2>1. Cardinality(Pending(x)) \in Nat /\ sent[x] + Cardinality(Pending(x)) <= 1 + faults
    BY FS_CardinalityType DEF Charged, Paid, Publications
  <2> QED
    BY <2>1, OutboxAssumption DEF OutboxTypeOK
<1> QED
  BY <1>1, <1>2, ChargedStep, LockedAlways, TypeCorrect, PTL DEF OutboxSpec
-------------------------------------------------------------------------------
(* OrderMail from here on.  Its steps that are not the outbox's leave the outbox alone. *)

(* What a publication adds to the queue is never negative. *)
LEMMA SentGrows ==
  ASSUME OutboxTypeOK, [OutboxNext]_outboxVars, NEW e \in Event
  PROVE  sent[e] \in Nat /\ sent'[e] \in Nat /\ sent[e] <= sent'[e]
<1>1. sent[e] \in Nat /\ sent'[e] \in Nat
  BY TypeStep DEF OutboxTypeOK
<1> QED
  BY <1>1 DEF OutboxNext, DrainStep, Append, Drain, Publish, PublishThrows, MarkPublished,
              MarkRefused, Expire, Crash, outboxVars, OutboxTypeOK

LEMMA MailKeepsOutbox == [MailNext]_allVars => [OutboxNext]_outboxVars
BY DEF MailNext, OutboxStep, Subscribe, ConnectionLost, CrashWorker, RestartWorker, Consume,
       Deliver, Enqueue, Ack, EnqueueFails, Process, Start, Send, Complete, Stall, SendFails, Forget,
       allVars, outboxVars

(* The mail's part of the system never disturbs the outbox, so that all that holds of Outbox *)
(* holds of its rows here.                                                                   *)
THEOREM MailRefinesOutbox == MailSpec => OutboxSpec
<1>1. MailInit => OutboxInit
  BY DEF MailInit
<1> QED
  BY <1>1, MailKeepsOutbox, PTL DEF MailSpec, OutboxSpec

LEMMA UnackedCounts ==
  ASSUME NEW e
  PROVE  /\ Unacked(e) \in Nat
         /\ (\E h \in Handler : of[h] = e /\ ~stale[h]) <=> Unacked(e) > 0
<1> DEFINE H == {h \in Handler : of[h] = e /\ ~stale[h]}
<1>1. IsFiniteSet(H)
  BY OrderMailAssumption, FS_Subset
<1>2. Cardinality(H) \in Nat /\ (Cardinality(H) = 0 <=> H = {})
  BY <1>1, FS_CardinalityType, FS_EmptySet
<1> QED
  BY <1>2 DEF Unacked
-------------------------------------------------------------------------------
(* A consumer that is down has no handler at work, and a job cannot use up more attempts *)
(* than it has, plus the one BullMQ grants a job that stalled.                            *)
Tallied(e) ==
  /\ job[e] = "none" => tries[e] = 0 /\ stalls[e] = 0
  /\ job[e] = "waiting" => tries[e] < Attempts + stalls[e]
  /\ job[e] \in {"active", "sent", "orphan"} => tries[e] <= Attempts + stalls[e]

MailShape ==
  /\ MailTypeOK
  /\ sub = "down" => \A h \in Handler : Idle(h)
  /\ \A e \in Event : Tallied(e)

LEMMA MailShapeStep == OutboxTypeOK /\ MailShape /\ [MailNext]_allVars => MailShape'
<1> SUFFICES ASSUME OutboxTypeOK, MailShape, [MailNext]_allVars
             PROVE  MailShape'
  OBVIOUS
<1> USE OrderMailAssumption DEF MailShape, MailTypeOK, Tallied, Idle, handlerVars, jobVars, Mishap
<1>1. CASE OutboxStep
  <2>1. ready' \in [Event -> Nat]
    BY <1>1, SentGrows DEF OutboxStep
  <2> QED
    BY <1>1, <2>1 DEF OutboxStep
<1>2. CASE Subscribe
  BY <1>2 DEF Subscribe
<1>3. ASSUME Redeliver
      PROVE  ready' \in [Event -> Nat]
  BY <1>3, UnackedCounts DEF Redeliver
<1>4. CASE ConnectionLost
  BY <1>3, <1>4 DEF ConnectionLost
<1>5. CASE CrashWorker
  BY <1>3, <1>5 DEF CrashWorker
<1>6. CASE RestartWorker
  BY <1>6 DEF RestartWorker
<1>7. ASSUME NEW h \in Handler, NEW e \in Event, Deliver(h, e)
      PROVE  MailShape'
  BY <1>7 DEF Deliver
<1>8. ASSUME NEW h \in Handler, Enqueue(h)
      PROVE  MailShape'
  BY <1>8 DEF Enqueue
<1>9. ASSUME NEW h \in Handler, Ack(h)
      PROVE  MailShape'
  BY <1>9 DEF Ack, EndOf
<1>10. ASSUME NEW h \in Handler, EnqueueFails(h)
       PROVE  MailShape'
  BY <1>10 DEF EnqueueFails, EndOf
<1>11. ASSUME NEW e \in Event, Start(e)
       PROVE  MailShape'
  BY <1>11 DEF Start
<1>12. ASSUME NEW e \in Event, Send(e) \/ Complete(e)
       PROVE  MailShape'
  BY <1>12 DEF Send, Complete
<1>13. ASSUME NEW e \in Event, Stall(e)
       PROVE  MailShape'
  BY <1>13 DEF Stall
<1>14. ASSUME NEW e \in Event, SendFails(e)
       PROVE  MailShape'
  BY <1>14 DEF SendFails, Retry
<1>15. ASSUME NEW e \in Event, Forget(e)
       PROVE  MailShape'
  BY <1>15 DEF Forget
<1>16. CASE UNCHANGED allVars
  BY <1>16 DEF allVars, mailVars
<1> QED
  BY <1>1, <1>2, <1>4, <1>5, <1>6, <1>7, <1>8, <1>9, <1>10, <1>11, <1>12, <1>13, <1>14, <1>15, <1>16
     DEF MailNext, Consume, Process

LEMMA MailShapeAlways == MailSpec => [](OutboxTypeOK /\ MailShape)
<1>1. MailInit => MailShape
  BY OrderMailAssumption DEF MailInit, MailShape, MailTypeOK, Tallied, Idle
<1> QED
  BY <1>1, MailShapeStep, MailRefinesOutbox, TypeCorrect, PTL DEF MailSpec

(* The consumer, its messages and its jobs keep their shape, and no job runs more often than *)
(* its attempts and one stall allow.                                                         *)
THEOREM MailTypeCorrect == MailSpec => []MailTypeOK
<1>1. MailShape => MailTypeOK
  BY DEF MailShape
<1> QED
  BY <1>1, MailShapeAlways, PTL
-------------------------------------------------------------------------------
(* The mail of e was sent, or a job or the failed set has it, or had it until it expired. *)
HasJob(e) ==
  mails[e] > 0 \/ job[e] \in {"waiting", "active", "orphan", "failed"} \/ e \in expired

(* A message of e waits in the queue, or a handler would give it back. *)
Queued(e) == ready[e] > 0 \/ \E h \in Handler : of[h] = e /\ ~stale[h]

(* A handler acks only what has a job; what the broker accepted has one or is still queued. *)
Kept ==
  /\ \A e \in Event : sent[e] > 0 => Queued(e) \/ HasJob(e)
  /\ \A h \in Handler : at[h] = "enqueued" => HasJob(of[h])
  /\ \A e \in Event : job[e] \in {"sent", "completed"} => mails[e] > 0

LEMMA KeptStep == OutboxTypeOK /\ MailShape /\ Kept /\ [MailNext]_allVars => Kept'
<1> SUFFICES ASSUME OutboxTypeOK, MailShape, Kept, [MailNext]_allVars
             PROVE  Kept'
  OBVIOUS
<1> USE OrderMailAssumption
    DEF MailShape, MailTypeOK, Kept, HasJob, Queued, Idle, handlerVars, jobVars, outboxVars
<1>1. CASE OutboxStep
  <2>1. \A e \in Event : sent[e] \in Nat /\ sent'[e] \in Nat /\ sent[e] <= sent'[e]
    BY <1>1, SentGrows DEF OutboxStep
  <2> QED
    BY <1>1, <2>1 DEF OutboxStep
<1>2. CASE Subscribe
  BY <1>2 DEF Subscribe
<1>3. ASSUME Redeliver, NEW e \in Event, Queued(e)
      PROVE  ready'[e] > 0
  BY <1>3, UnackedCounts DEF Redeliver
<1>4. CASE ConnectionLost
  BY <1>3, <1>4 DEF ConnectionLost
<1>5. CASE CrashWorker
  BY <1>3, <1>5 DEF CrashWorker
<1>6. CASE RestartWorker
  BY <1>6 DEF RestartWorker
<1>7. ASSUME NEW h \in Handler, NEW e \in Event, Deliver(h, e)
      PROVE  Kept'
  BY <1>7 DEF Deliver
<1>8. ASSUME NEW h \in Handler, Enqueue(h)
      PROVE  Kept'
  BY <1>8 DEF Enqueue
<1>9. ASSUME NEW h \in Handler, Ack(h)
      PROVE  Kept'
  BY <1>9 DEF Ack, EndOf
<1>10. ASSUME NEW h \in Handler, EnqueueFails(h)
       PROVE  Kept'
  BY <1>10 DEF EnqueueFails, EndOf
<1>11. ASSUME NEW e \in Event, Start(e) \/ Send(e) \/ Complete(e) \/ Stall(e)
       PROVE  Kept'
  BY <1>11 DEF Start, Send, Complete, Stall
<1>12. ASSUME NEW e \in Event, SendFails(e)
       PROVE  Kept'
  BY <1>12 DEF SendFails, Retry
<1>13. ASSUME NEW e \in Event, Forget(e)
       PROVE  Kept'
  BY <1>13 DEF Forget
<1>14. CASE UNCHANGED allVars
  BY <1>14 DEF allVars, mailVars
<1> QED
  BY <1>1, <1>2, <1>4, <1>5, <1>6, <1>7, <1>8, <1>9, <1>10, <1>11, <1>12, <1>13, <1>14
     DEF MailNext, Consume, Process

(* Once the broker has accepted an order.confirmed its mail was sent, or a message, a handler *)
(* or a job will see to it, or the failed set shows it until it expires: for any number of    *)
(* orders, replicas, handlers and failures.                                                   *)
THEOREM MailsAreKept == MailSpec => []NoMailIsDropped
<1>1. MailInit => Kept
  BY DEF MailInit, OutboxInit, Kept
<1>2. Kept => NoMailIsDropped
  BY UnackedCounts DEF Kept, Queued, HasJob, NoMailIsDropped
<1> QED
  BY <1>1, <1>2, KeptStep, MailShapeAlways, PTL DEF MailSpec
-------------------------------------------------------------------------------
(* The next mail of e that no further failure has to be blamed for: the one its job will send, *)
(* or a job still to be added.                                                                 *)
Coming(e) ==
  IF job[e] \in {"none", "waiting", "active"} \/ (job[e] = "orphan" /\ stalls[e] = 0) THEN 1 ELSE 0

(* And one more, when a lost connection or a crash that is already counted lets a restart  *)
(* interrupt the job, or the one that a handler is about to add.                            *)
Spare(e) ==
  IF \/ sub = "deaf" /\ \E h \in Handler : at[h] = "parsed" /\ of[h] = e
     \/ sub # "up" /\ job[e] \in {"waiting", "active", "sent"} /\ stalls[e] = 0
  THEN 1 ELSE 0

Budget(e) == mails[e] + Coming(e) + Spare(e) <= 1 + mishaps

Afforded == \A e \in Event : Budget(e)

LEMMA AffordedStep == OutboxTypeOK /\ MailShape /\ Afforded /\ [MailNext]_allVars => Afforded'
<1> SUFFICES ASSUME OutboxTypeOK, MailShape, NEW x \in Event, Budget(x), [MailNext]_allVars
             PROVE  Budget(x)'
  BY DEF Afforded
<1> USE OrderMailAssumption
    DEF MailShape, MailTypeOK, Tallied, Budget, Coming, Spare, Idle, handlerVars, jobVars, Mishap
<1>1. CASE OutboxStep
  BY <1>1 DEF OutboxStep
<1>2. CASE Subscribe
  BY <1>2 DEF Subscribe
<1>3. CASE ConnectionLost
  BY <1>3 DEF ConnectionLost
<1>4. CASE CrashWorker
  BY <1>4 DEF CrashWorker
<1>5. CASE RestartWorker
  BY <1>5 DEF RestartWorker
<1>6. ASSUME NEW h \in Handler, NEW e \in Event, Deliver(h, e)
      PROVE  Budget(x)'
  BY <1>6 DEF Deliver
<1>7. ASSUME NEW h \in Handler, Enqueue(h)
      PROVE  Budget(x)'
  BY <1>7 DEF Enqueue
<1>8. ASSUME NEW h \in Handler, Ack(h)
      PROVE  Budget(x)'
  BY <1>8 DEF Ack, EndOf
<1>9. ASSUME NEW h \in Handler, EnqueueFails(h)
      PROVE  Budget(x)'
  BY <1>9 DEF EnqueueFails, EndOf
<1>10. ASSUME NEW e \in Event, Start(e) \/ Send(e) \/ Complete(e) \/ Stall(e)
       PROVE  Budget(x)'
  BY <1>10 DEF Start, Send, Complete, Stall
<1>11. ASSUME NEW e \in Event, SendFails(e)
       PROVE  Budget(x)'
  BY <1>11 DEF SendFails, Retry
<1>12. ASSUME NEW e \in Event, Forget(e)
       PROVE  Budget(x)'
  BY <1>12 DEF Forget
<1>13. CASE UNCHANGED allVars
  BY <1>13 DEF allVars, mailVars
<1> QED
  BY <1>1, <1>2, <1>3, <1>4, <1>5, <1>6, <1>7, <1>8, <1>9, <1>10, <1>11, <1>12, <1>13
     DEF MailNext, Consume, Process

(* An order gets one mail, however often its event is published and delivered; every other   *)
(* mail is paid for by a failure of the worker, or a message that came after Redis had        *)
(* forgotten the job.                                                                         *)
THEOREM MailsArePaid == MailSpec => []MailsCostMishaps
<1>1. MailInit => Afforded
  BY DEF MailInit, Afforded, Budget, Coming, Spare
<1>2. MailShape /\ Afforded => MailsCostMishaps
  BY DEF MailShape, MailTypeOK, Afforded, Budget, Coming, Spare, MailsCostMishaps
<1> QED
  BY <1>1, <1>2, AffordedStep, MailShapeAlways, PTL DEF MailSpec
===============================================================================
