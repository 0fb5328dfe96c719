------------------------------- MODULE MCRowLocks -------------------------------
(* Small instances of Inventory and Outbox for TLC, in one run: the two places in which the   *)
(* services lock rows of PostgreSQL.  They share no row, so a behaviour moves one of them and  *)
(* leaves the other as it began.                                                              *)
EXTENDS Inventory, Outbox, TLC

CONSTANTS o1, o2, c1, c2, c3, r1, r2

VARIABLE table

MCOrder == {o1, o2}
MCSku == {1, 2}
MCStock == (1 :> 2) @@ (2 :> 2)
(* Both orders want both skus, and the units of sku 1 do not do for both. *)
MCLines == (o1 :> ((1 :> 1) @@ (2 :> 1))) @@ (o2 :> ((1 :> 2) @@ (2 :> 1)))

(* An overlap of releases for the order that takes what the other one needs. *)
MCMaxOverlaps == (o1 :> 0) @@ (o2 :> 1)

LocksInit == table \in {"inventory", "outbox"} /\ Init /\ OutboxInit

AllPublished == \A e \in Event : row[e] = "published"

(* Published rows are the end of an outbox; calls never end for the inventory. *)
LocksNext ==
  /\ UNCHANGED table
  /\ \/ table = "inventory" /\ Next /\ UNCHANGED outboxVars
     \/ table = "outbox" /\ OutboxNext /\ UNCHANGED vars
     \/ table = "outbox" /\ AllPublished /\ UNCHANGED <<vars, outboxVars>>

LocksSpec ==
  /\ LocksInit /\ [][LocksNext]_<<table, vars, outboxVars>>
  /\ table = "inventory" => Fairness
  /\ table = "outbox" => OutboxFairness
================================================================================
