------------------------------- MODULE OrderMail -------------------------------
(***************************************************************************)
(* The mail of a confirmed order: its order.confirmed row goes through the  *)
(* Outbox to the broker, the email worker hands each message to a BullMQ    *)
(* queue in Redis, and the worker of that queue renders the mail and sends  *)
(* it over SMTP.  An order has one order.confirmed row, so that a row also  *)
(* stands for its order.                                                   *)
(*                                                                         *)
(* Each stage may repeat what it did: the outbox publishes again, the       *)
(* broker delivers again, BullMQ runs a job again.  Only the second is      *)
(* deduplicated, by jobId = orderId, for as long as Redis keeps the job.    *)
(***************************************************************************)
EXTENDS Outbox

CONSTANTS
  Handler,       \* messages the consumer works on at once: prefetch 8
  Attempts,      \* attempts of emailDefaultJobOptions
  MaxMishaps     \* bound: failures on the way from the broker to SMTP, and expired jobs

ASSUME OrderMailAssumption ==
  /\ IsFiniteSet(Handler)
  /\ Attempts \in Nat \ {0} /\ MaxMishaps \in Nat
  /\ 0 \notin Event

VARIABLES
  sub,      \* the consumer: not started, subscribed, or deaf until a restart
  ready,    \* ready[e]: messages of e in the queue order-confirmed
  at, of,   \* at[h], of[h]: where handler h is, and its order
  stale,    \* stale[h]: the delivery of h belongs to a channel that is closed
  job,      \* job[e]: the BullMQ job whose id is the order's
  tries,    \* tries[e]: attemptsMade
  stalls,   \* stalls[e]: times the job was found without a live worker
  expired,  \* orders whose failed job Redis has forgotten
  mails,    \* mails[e]: times SMTP has accepted the mail of e
  mishaps   \* failures, and expired jobs, so far

handlerVars == <<at, of, stale>>
jobVars == <<job, tries, stalls, expired>>
mailVars == <<sub, ready, handlerVars, jobVars, mails, mishaps>>
allVars == <<outboxVars, mailVars>>

Mishap == mishaps < MaxMishaps /\ mishaps' = mishaps + 1

Idle(h) == at[h] = "idle"

MailInit ==
  /\ OutboxInit
  /\ sub = "down"
  /\ ready = [e \in Event |-> 0]
  /\ at = [h \in Handler |-> "idle"]
  /\ of = [h \in Handler |-> 0]
  /\ stale = [h \in Handler |-> FALSE]
  /\ job = [e \in Event |-> "none"]
  /\ tries = [e \in Event |-> 0]
  /\ stalls = [e \in Event |-> 0]
  /\ expired = {}
  /\ mails = [e \in Event |-> 0]
  /\ mishaps = 0

(* A step of the order service; what the broker accepts is in the queue. *)
OutboxStep ==
  /\ OutboxNext
  /\ ready' = [e \in Event |-> ready[e] + (sent'[e] - sent[e])]
  /\ UNCHANGED <<sub, handlerVars, jobVars, mails, mishaps>>
--------------------------------------------------------------------------------
(* OrderConfirmedConsumer. *)

(* onModuleInit logs an error and lets it be: the broker is away, or closes the channel     *)
(* because assertQueue names other arguments than definitions.json gave the queue.          *)
Subscribe ==
  /\ sub = "down"
  /\ sub' \in {"up", "deaf"}
  /\ UNCHANGED <<ready, handlerVars, jobVars, mails, mishaps, outboxVars>>

Unacked(e) == Cardinality({h \in Handler : of[h] = e /\ ~stale[h]})

(* What was not acked is in the queue again. *)
Redeliver == ready' = [e \in Event |-> ready[e] + Unacked(e)]

(* The connection closes.  Handlers run on; nothing subscribes again. *)
ConnectionLost ==
  /\ sub = "up" /\ Mishap
  /\ sub' = "deaf"
  /\ Redeliver
  /\ stale' = [h \in Handler |-> ~Idle(h)]
  /\ UNCHANGED <<at, of, jobVars, mails, outboxVars>>

EndOf(h) ==
  /\ at' = [at EXCEPT ![h] = "idle"]
  /\ of' = [of EXCEPT ![h] = 0]
  /\ stale' = [stale EXCEPT ![h] = FALSE]

Deliver(h, e) ==
  /\ sub = "up" /\ Idle(h)
  /\ ready[e] > 0
  /\ ready' = [ready EXCEPT ![e] = @ - 1]
  /\ at' = [at EXCEPT ![h] = "parsed"]
  /\ of' = [of EXCEPT ![h] = e]
  /\ UNCHANGED <<sub, stale, jobVars, mails, mishaps, outboxVars>>

(* Mutant: add without a jobId. *)
EnqueueAnew(h) ==
  /\ at[h] = "parsed"
  /\ at' = [at EXCEPT ![h] = "enqueued"]
  /\ job' = [job EXCEPT ![of[h]] = "waiting"]
  /\ tries' = [tries EXCEPT ![of[h]] = 0]
  /\ UNCHANGED <<sub, ready, of, stale, stalls, expired, mails, mishaps, outboxVars>>

(* queue.add: nothing happens when a job of that id exists, be it finished or failed. *)
Enqueue(h) ==
  /\ at[h] = "parsed"
  /\ at' = [at EXCEPT ![h] = "enqueued"]
  /\ job' = [job EXCEPT ![of[h]] = IF @ = "none" THEN "waiting" ELSE @]
  /\ UNCHANGED <<sub, ready, of, stale, tries, stalls, expired, mails, mishaps, outboxVars>>

(* Mutant: a message that could not be handed over is dropped. *)
EnqueueFailsDropped(h) ==
  /\ at[h] = "parsed" /\ Mishap
  /\ EndOf(h)
  /\ UNCHANGED <<sub, ready, jobVars, mails, outboxVars>>

(* Redis throws, although it may have added the job: nack with requeue. *)
EnqueueFails(h) ==
  /\ at[h] = "parsed" /\ Mishap
  /\ \/ UNCHANGED job
     \/ job' = [job EXCEPT ![of[h]] = IF @ = "none" THEN "waiting" ELSE @]
  /\ ready' = [ready EXCEPT ![of[h]] = IF stale[h] THEN @ ELSE @ + 1]
  /\ EndOf(h)
  /\ UNCHANGED <<sub, tries, stalls, expired, mails, outboxVars>>

(* An ack on a closed channel throws, and acknowledges nothing. *)
Ack(h) ==
  /\ at[h] = "enqueued"
  /\ EndOf(h)
  /\ UNCHANGED <<sub, ready, jobVars, mails, mishaps, outboxVars>>

(* Consumer and BullMQ worker are one process; an active job stays so until it is found *)
(* stalled.                                                                             *)
CrashWorker ==
  /\ \/ sub # "down" /\ Mishap
     \/ \E h \in Handler : at[h] = "enqueued" /\ stale[h] /\ UNCHANGED mishaps
  /\ sub' = "down"
  /\ Redeliver
  /\ at' = [h \in Handler |-> "idle"]
  /\ of' = [h \in Handler |-> 0]
  /\ stale' = [h \in Handler |-> FALSE]
  /\ job' = [e \in Event |-> IF job[e] \in {"active", "sent"} THEN "orphan" ELSE job[e]]
  /\ UNCHANGED <<tries, stalls, expired, mails, outboxVars>>

(* Somebody restarts the worker that no longer listens. *)
RestartWorker ==
  /\ sub = "deaf" /\ \A h \in Handler : Idle(h)
  /\ sub' = "down"
  /\ job' = [e \in Event |-> IF job[e] \in {"active", "sent"} THEN "orphan" ELSE job[e]]
  /\ UNCHANGED <<ready, handlerVars, tries, stalls, expired, mails, mishaps, outboxVars>>
--------------------------------------------------------------------------------
(* The BullMQ worker and processOrderConfirmationJob. *)

Start(e) ==
  /\ sub # "down"
  /\ job[e] = "waiting"
  /\ job' = [job EXCEPT ![e] = "active"]
  /\ tries' = [tries EXCEPT ![e] = @ + 1]
  /\ UNCHANGED <<sub, ready, handlerVars, stalls, expired, mails, mishaps, outboxVars>>

(* render and sendMail *)
Send(e) ==
  /\ job[e] = "active"
  /\ job' = [job EXCEPT ![e] = "sent"]
  /\ mails' = [mails EXCEPT ![e] = @ + 1]
  /\ UNCHANGED <<sub, ready, handlerVars, tries, stalls, expired, mishaps, outboxVars>>

Retry(e) == IF tries[e] < Attempts THEN "waiting" ELSE "failed"

(* Mutant: the last attempt that throws completes the job. *)
SendFailsQuietly(e) ==
  /\ job[e] = "active" /\ Mishap
  /\ job' = [job EXCEPT ![e] = IF tries[e] < Attempts THEN "waiting" ELSE "completed"]
  /\ UNCHANGED <<sub, ready, handlerVars, tries, stalls, expired, mails, outboxVars>>

(* sendMail throws; SMTP may have accepted the mail all the same. *)
SendFails(e) ==
  /\ job[e] = "active" /\ Mishap
  /\ \E accepted \in {0, 1} : mails' = [mails EXCEPT ![e] = @ + accepted]
  /\ job' = [job EXCEPT ![e] = Retry(e)]
  /\ UNCHANGED <<sub, ready, handlerVars, tries, stalls, expired, outboxVars>>

Complete(e) ==
  /\ job[e] = "sent"
  /\ job' = [job EXCEPT ![e] = "completed"]
  /\ UNCHANGED <<sub, ready, handlerVars, tries, stalls, expired, mails, mishaps, outboxVars>>

(* The lock of the job has run out: BullMQ lets it run once more, and fails it the second time. *)
Stall(e) ==
  /\ sub # "down"
  /\ job[e] = "orphan"
  /\ job' = [job EXCEPT ![e] = IF stalls[e] = 0 THEN "waiting" ELSE "failed"]
  /\ stalls' = [stalls EXCEPT ![e] = 1]
  /\ UNCHANGED <<sub, ready, handlerVars, tries, expired, mails, mishaps, outboxVars>>

(* removeOnComplete and removeOnFail: the job is forgotten, and its id with it. *)
Forget(e) ==
  /\ job[e] \in {"completed", "failed"} /\ Mishap
  /\ job' = [job EXCEPT ![e] = "none"]
  /\ tries' = [tries EXCEPT ![e] = 0]
  /\ stalls' = [stalls EXCEPT ![e] = 0]
  /\ expired' = IF job[e] = "failed" THEN expired \union {e} ELSE expired
  /\ UNCHANGED <<sub, ready, handlerVars, mails, outboxVars>>

Consume(h) == (\E e \in Event : Deliver(h, e)) \/ Enqueue(h) \/ Ack(h)
Process(e) == Start(e) \/ Send(e) \/ Complete(e) \/ Stall(e)

MailNext ==
  \/ OutboxStep
  \/ Subscribe \/ ConnectionLost \/ CrashWorker \/ RestartWorker
  \/ \E h \in Handler : Consume(h) \/ EnqueueFails(h)
  \/ \E e \in Event : Process(e) \/ SendFails(e) \/ Forget(e)

MailSpec == MailInit /\ [][MailNext]_allVars

(* The poller ticks, a process that died is started again, and what it began runs on; nothing *)
(* makes anybody restart one that is deaf.                                                   *)
MailFairness ==
  /\ \A r \in Replica : WF_allVars(OutboxStep /\ DrainStep(r))
  /\ WF_allVars(Subscribe)
  /\ \A h \in Handler : WF_allVars(Consume(h))
  /\ \A e \in Event : WF_allVars(Process(e))

FairMailSpec == MailSpec /\ MailFairness
--------------------------------------------------------------------------------
(* Type correctness: a delivery of a closed channel is never that of a subscribed consumer, *)
(* and a job that ran has an attempt.                                                        *)
MailTypeOK ==
  /\ sub \in {"down", "up", "deaf"}
  /\ ready \in [Event -> Nat]
  /\ at \in [Handler -> {"idle", "parsed", "enqueued"}]
  /\ of \in [Handler -> Event \union {0}] /\ \A h \in Handler : Idle(h) <=> of[h] = 0
  /\ stale \in [Handler -> BOOLEAN] /\ \A h \in Handler : stale[h] => ~Idle(h) /\ sub = "deaf"
  /\ job \in [Event -> {"none", "waiting", "active", "sent", "orphan", "completed", "failed"}]
  /\ tries \in [Event -> 0..Attempts + 1] /\ stalls \in [Event -> 0..1]
  /\ \A e \in Event : job[e] \in {"active", "sent", "orphan", "completed"} => tries[e] > 0
  /\ mails \in [Event -> Nat] /\ expired \subseteq Event /\ mishaps \in 0..MaxMishaps

(* Nothing is lost between the stages: once the broker has accepted an order.confirmed its    *)
(* mail was sent, or a message, a handler or a job will see to it, or the failed set of       *)
(* BullMQ shows it until it expires; a handler acks only what Redis has, and a job that ends  *)
(* without a mail ends in the failed set.                                                     *)
NoMailIsDropped ==
  \A e \in Event :
    sent[e] > 0 /\ mails[e] = 0 =>
      \/ ready[e] > 0 \/ Unacked(e) > 0
      \/ job[e] \in {"waiting", "active", "orphan", "failed"}
      \/ e \in expired

(* An order gets one mail, however often the outbox publishes its event on whichever replica  *)
(* and the broker delivers it, handled at once or one after the other; a second mail takes a  *)
(* failure of the worker itself, or a message that comes after Redis has forgotten the job.   *)
MailsCostMishaps == \A e \in Event : mails[e] <= 1 + mishaps

(* A confirmed order is mailed, or its job is (or was, for two weeks) where an operator       *)
(* looks for it, unless the consumer no longer listens.                                       *)
MailedUnlessDeaf ==
  \A e \in Event :
    row[e] = "unpublished" ~> (mails[e] > 0 \/ job[e] = "failed" \/ e \in expired \/ sub = "deaf")
================================================================================
