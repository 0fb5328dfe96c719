-------------------------------- MODULE Inventory --------------------------------
(***************************************************************************)
(* The catalog service's stock tables under concurrent reserve and release *)
(* calls: PrismaInventoryRepository.reserveWithLock and releaseForOrder,   *)
(* statement by statement, in READ COMMITTED PostgreSQL transactions.      *)
(*                                                                         *)
(* Only committed values are variables.  A transaction's own updates are   *)
(* increments of rows it keeps locked until it commits, so nobody can see  *)
(* or miss them before: they are applied at the commit, and a rollback     *)
(* only gives the locks back.                                              *)
(***************************************************************************)
EXTENDS Integers, FiniteSets, Functions

CONSTANTS
  Order, Sku, Stock, Lines,  \* as in ReservationLedger
  Call,                      \* concurrent HTTP calls of the inventory controller
  NoCall, NoOrder, NoSku,
  MaxOverlaps                \* bound: releases of an order begun while another of it runs

ASSUME InventoryAssumption ==
  /\ Sku \subseteq Nat               \* sku ids are compared to sort them
  /\ Stock \in [Sku -> Nat]
  /\ Lines \in [Order -> [Sku -> Nat]]
  /\ \A o \in Order : \E s \in Sku : Lines[o][s] > 0
  /\ NoCall \notin Call /\ NoOrder \notin Order /\ NoSku \notin Sku
  /\ IsFiniteSet(Call)
  /\ MaxOverlaps \in [Order -> Nat]

VARIABLES
  available,     \* inventory.available, per sku
  reserved,      \* inventory.reserved, per sku
  reservations,  \* orders with rows in the reservations table
  rowLock,       \* the transaction holding the FOR UPDATE or UPDATE lock of a row
  op,            \* op[c]: what call c does
  order,         \* order[c]: the orderId it was called with
  pc,            \* pc[c]: where its transaction is
  nextRow,       \* nextRow[c]: the inventory row it locks next
  overlaps,      \* history: overlaps[o], releases of o begun while another of it was running
  twice          \* history: twice[o], releases of o that committed without a row of it left

tableVars == <<available, reserved, reservations, twice>>
callVars == <<op, order, pc, nextRow>>
vars == <<tableVars, rowLock, callVars, overlaps>>

Ledger == INSTANCE LooseLedger WITH free <- available, held <- reservations

Skus(o) == {s \in Sku : Lines[o][s] > 0}

Busy(c) == pc[c] # "idle"

(* The order service does not keep the releases of an order apart: a call that timed out may *)
(* still run when the message that made it is delivered again, or when the cron sweeps.        *)
Running(o) == {c \in Call : Busy(c) /\ op[c] = "release" /\ order[c] = o}

(* Mutant: the SELECT without its ORDER BY. *)
CandidatesUnsorted(kind, rows) == rows

(* Reserve locks rows ORDER BY sku_id; release updates them in whatever order findMany returned. *)
Candidates(kind, rows) ==
  IF kind = "reserve" THEN {s \in rows : \A t \in rows : s <= t} ELSE rows

(* Mutant: the loop accepts the order when one of its lines is covered. *)
EnoughForSome(o) == \E s \in Skus(o) : available[s] >= Lines[o][s]

Enough(o) == \A s \in Skus(o) : available[s] >= Lines[o][s]

Init ==
  /\ available = Stock
  /\ reserved = [s \in Sku |-> 0]
  /\ reservations = {}
  /\ rowLock = [s \in Sku |-> NoCall]
  /\ op = [c \in Call |-> "none"]
  /\ order = [c \in Call |-> NoOrder]
  /\ pc = [c \in Call |-> "idle"]
  /\ nextRow = [c \in Call |-> NoSku]
  /\ overlaps = [o \in Order |-> 0]
  /\ twice = [o \in Order |-> 0]

(* The transaction of c ends: its locks go, and the call slot is free again. *)
End(c) ==
  /\ rowLock' = [s \in Sku |-> IF rowLock[s] = c THEN NoCall ELSE rowLock[s]]
  /\ op' = [op EXCEPT ![c] = "none"]
  /\ order' = [order EXCEPT ![c] = NoOrder]
  /\ pc' = [pc EXCEPT ![c] = "idle"]
  /\ nextRow' = [nextRow EXCEPT ![c] = NoSku]
  /\ UNCHANGED overlaps

Begin(c, kind, o) ==
  /\ ~Busy(c)
  /\ op' = [op EXCEPT ![c] = kind]
  /\ order' = [order EXCEPT ![c] = o]
  /\ pc' = [pc EXCEPT ![c] = "lookup"]
  /\ UNCHANGED <<tableVars, rowLock, nextRow>>

BeginReserve(c, o) == Begin(c, "reserve", o) /\ UNCHANGED overlaps

BeginRelease(c, o) ==
  /\ Begin(c, "release", o)
  /\ IF Running(o) = {}
     THEN UNCHANGED overlaps
     ELSE /\ overlaps[o] < MaxOverlaps[o]
          /\ overlaps' = [overlaps EXCEPT ![o] = @ + 1]

(* findMany({ orderId }) answers the call at once: a retried reserve finds its *)
(* earlier rows, a release finds none.                                         *)
AnswerFromRows(c) ==
  /\ pc[c] = "lookup"
  /\ (op[c] = "reserve") <=> (order[c] \in reservations)
  /\ End(c)
  /\ UNCHANGED tableVars

(* Otherwise the call goes on to lock its inventory rows. *)
StartLocking(c) ==
  /\ pc[c] = "lookup"
  /\ (op[c] = "reserve") <=> (order[c] \notin reservations)
  /\ \E s \in Candidates(op[c], Skus(order[c])) : nextRow' = [nextRow EXCEPT ![c] = s]
  /\ pc' = [pc EXCEPT ![c] = "lock"]
  /\ UNCHANGED <<tableVars, rowLock, op, order, overlaps>>

(* Mutant: statements on this.prisma instead of tx, which wait for the own transaction. *)
UnlockedOutsideTx(c) == Skus(order[c])

Unlocked(c) == {s \in Skus(order[c]) : rowLock[s] # c}

(* Mutant: the SELECT without FOR UPDATE. *)
GrantableAlways(c) == TRUE

Grantable(c) == rowLock[nextRow[c]] = NoCall

AfterLocks(c) == IF op[c] = "reserve" THEN "check" ELSE "write"

LockRow(c) ==
  /\ pc[c] = "lock"
  /\ Grantable(c)
  /\ rowLock' = [rowLock EXCEPT ![nextRow[c]] = c]
  /\ LET rest == Unlocked(c) \ {nextRow[c]}
     IN IF rest = {}
        THEN /\ pc' = [pc EXCEPT ![c] = AfterLocks(c)]
             /\ nextRow' = [nextRow EXCEPT ![c] = NoSku]
        ELSE /\ \E s \in Candidates(op[c], rest) : nextRow' = [nextRow EXCEPT ![c] = s]
             /\ UNCHANGED pc
  /\ UNCHANGED <<tableVars, op, order, overlaps>>

Move(o, sign) ==
  /\ available' = [s \in Sku |-> available[s] - sign * Lines[o][s]]
  /\ reserved' = [s \in Sku |-> reserved[s] + sign * Lines[o][s]]

(* The rows the locking SELECT returned cover every line. *)
CheckStock(c) ==
  /\ pc[c] = "check"
  /\ Enough(order[c])
  /\ pc' = [pc EXCEPT ![c] = "write"]
  /\ UNCHANGED <<tableVars, rowLock, op, order, nextRow, overlaps>>

(* INSUFFICIENT_STOCK: some line is short, nothing is written. *)
RefuseReserve(c) ==
  /\ pc[c] = "check"
  /\ ~Enough(order[c])
  /\ End(c)
  /\ UNCHANGED tableVars

(* Mutant: no UNIQUE (orderId, skuId) on reservations. *)
DuplicateAllowed(c) == FALSE

Duplicate(c) == order[c] \in reservations

(* Decrement and increment every row, insert the reservation, commit. *)
CommitReserve(c) ==
  /\ pc[c] = "write" /\ op[c] = "reserve"
  /\ ~Duplicate(c)
  /\ Move(order[c], 1)
  /\ reservations' = reservations \union {order[c]}
  /\ End(c)
  /\ UNCHANGED twice

(* createMany meets UNIQUE (orderId, skuId): a concurrent retry was first, this one rolls back. *)
DuplicateReserve(c) ==
  /\ pc[c] = "write" /\ op[c] = "reserve"
  /\ Duplicate(c)
  /\ End(c)
  /\ UNCHANGED tableVars

(* The increments use the rows read at the lookup, which took no lock; deleteMany deletes what *)
(* is left of them, and that may be nothing.                                                  *)
CommitRelease(c) ==
  /\ pc[c] = "write" /\ op[c] = "release"
  /\ Move(order[c], -1)
  /\ reservations' = reservations \ {order[c]}
  /\ twice' = [twice EXCEPT ![order[c]] = IF order[c] \in reservations THEN @ ELSE @ + 1]
  /\ End(c)

(* Calls that wait for each other in a circle. *)
Deadlocked(S) ==
  /\ S # {}
  /\ \A c \in S : pc[c] = "lock" /\ rowLock[nextRow[c]] \in S \ {c}

(* PostgreSQL's deadlock detector aborts one of them. *)
AbortVictim(c) ==
  /\ \E S \in SUBSET Call : c \in S /\ Deadlocked(S)
  /\ End(c)
  /\ UNCHANGED tableVars

(* The transaction is rolled back: a crash, a lost connection, a transaction timeout. *)
Rollback(c) ==
  /\ Busy(c)
  /\ End(c)
  /\ UNCHANGED tableVars

Step(c) ==
  \/ AnswerFromRows(c) \/ StartLocking(c) \/ LockRow(c)
  \/ CheckStock(c) \/ RefuseReserve(c)
  \/ CommitReserve(c) \/ DuplicateReserve(c) \/ CommitRelease(c)
  \/ AbortVictim(c)

Next ==
  \E c \in Call :
    \/ \E o \in Order : BeginReserve(c, o) \/ BeginRelease(c, o)
    \/ Step(c)
    \/ Rollback(c)

Spec == Init /\ [][Next]_vars

(* The database gives every statement its turn, and a row lock's waiters are served in turn. *)
Fairness == \A c \in Call : WF_vars(Step(c)) /\ SF_vars(LockRow(c))

FairSpec == Spec /\ Fairness
--------------------------------------------------------------------------------
TypeOK ==
  /\ available \in [Sku -> Int]
  /\ reserved \in [Sku -> Int]
  /\ reservations \in SUBSET Order
  /\ rowLock \in [Sku -> Call \union {NoCall}]
  /\ op \in [Call -> {"none", "reserve", "release"}]
  /\ order \in [Call -> Order \union {NoOrder}]
  /\ pc \in [Call -> {"idle", "lookup", "lock", "check", "write"}]
  /\ nextRow \in [Call -> Sku \union {NoSku}]
  /\ overlaps \in [Order -> Nat] /\ twice \in [Order -> Nat]
  /\ \A c \in Call :
       /\ Busy(c) <=> op[c] # "none"
       /\ Busy(c) <=> order[c] \in Order
       /\ pc[c] = "lock" <=> nextRow[c] \in Sku
       /\ pc[c] = "check" => op[c] = "reserve"

(* No oversell: two checkouts that both read enough stock never both take it, *)
(* so available never goes below zero (reserveWithLock checks under the lock).  *)
NoOversell == \A s \in Sku : available[s] >= 0

(* A reserve that waits for a row held by another waiting reserve waits for a   *)
(* lower row than that one does: the waits of reserves climb the sorted sku ids *)
(* and cannot close a circle, the reason given for ORDER BY sku_id FOR UPDATE.  *)
ReservesWaitUphill ==
  \A c, d \in Call :
    (/\ op[c] = "reserve" /\ op[d] = "reserve" /\ c # d
     /\ pc[c] = "lock" /\ pc[d] = "lock"
     /\ rowLock[nextRow[c]] = d) => nextRow[c] < nextRow[d]

(* The units of s in the rows that each order has in the reservations table. *)
HeldOf(s) == [o \in Order |-> Lines[o][s]]

(* The units of s that releases of each order gave back a second time. *)
AgainOf(s) == [o \in Order |-> twice[o] * Lines[o][s]]

GivenAgain == {o \in Order : twice[o] > 0}

(* The comment over the inventory table: `reserved` = sum of active reservations.  It is what *)
(* an operator reads off the table, and retries, deadlock victims and doubled releases would   *)
(* break it silently while available + reserved still adds up.  It is off by what overlapping   *)
(* releases have given back again, once at most for each overlap, and by nothing else.          *)
ReservedIsSumOfReservations ==
  /\ \A o \in Order : twice[o] <= overlaps[o]
  /\ \A s \in Sku :
       reserved[s] = SumFunctionOnSet(HeldOf(s), reservations)
                     - SumFunctionOnSet(AgainOf(s), GivenAgain)

(* Every commit is an atomic all-or-nothing Reserve or Release of one order, as the ledger     *)
(* promises it to the order service, or gives the units of an order back again for two releases *)
(* of it that overlapped; nothing else shows.                                                   *)
ImplementsLedger == Ledger!LooseSpec

(* Every call ends: nobody waits for a row lock for ever, whatever the circles *)
(* of waiting that a release, which locks in no particular order, can close.   *)
CallsEnd == \A c \in Call : Busy(c) ~> ~Busy(c)
================================================================================
