----------------------------- MODULE LooseLifecycle -----------------------------
(***************************************************************************)
(* The life of an order when the advisory lock around its read and its     *)
(* save may be lost.  It is OrderLifecycle for every order whose locks     *)
(* have all lasted.  Of the others a save may overwrite what was committed *)
(* since its read, and this is what remains: the row stays, nothing waits  *)
(* for its payment again, and only a paid order is confirmed.              *)
(***************************************************************************)
EXTENDS OrderLifecycle

VARIABLE expired  \* orders of which a lock has expired under a handler at work

looseVars == <<lifecycleVars, expired>>

(* What a handler can save, whatever it has read. *)
Result == {"CONFIRMED", "SHIPPED", "DELIVERED", "CANCELLED"}

LooseInit == Init /\ expired = {}

Expire(o) ==
  /\ expired' = expired \union {o}
  /\ UNCHANGED lifecycleVars

Overwrite(o, to) ==
  /\ o \in expired
  /\ status[o] # "NONE" /\ to \in Result
  /\ to = "CONFIRMED" => o \in paid
  /\ status' = [status EXCEPT ![o] = to]
  /\ UNCHANGED <<paid, expired>>

LooseNext ==
  \/ Next /\ UNCHANGED expired
  \/ \E o \in Order : Expire(o) \/ \E to \in Result : Overwrite(o, to)

LooseSpec == LooseInit /\ [][LooseNext]_looseVars
================================================================================
