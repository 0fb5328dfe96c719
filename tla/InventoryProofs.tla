---------------------------- MODULE InventoryProofs ----------------------------
(***************************************************************************)
(* Theorems about Inventory, for any number of skus, orders and calls.     *)
(*                                                                         *)
(* The row locks are the argument.  A transaction that has all its locks   *)
(* shares no row with any other that has (HoldsAll), so what it read of    *)
(* its rows is still true when it commits (Covered): that is NoOversell.   *)
(* A reserve holds exactly the rows below the next one it asks for         *)
(* (Climbs): that is ReservesWaitUphill.  Releases read without a lock, so *)
(* a release may commit when the rows it read are gone; then two of its    *)
(* order overlapped, and no overlap is used twice (Charged): a commit      *)
(* brings or takes just the rows of one order, or is paid for.  That is    *)
(* ReservedIsSumOfReservations and the refinement of LooseLedger.          *)
(***************************************************************************)
EXTENDS Inventory, Sums, TLAPS

(* A lock belongs to a transaction past its lookup, on a row of its order. *)
LocksOwned ==
  \A s \in Sku, c \in Call :
    rowLock[s] = c => pc[c] \in {"lock", "check", "write"} /\ s \in Skus(order[c])

(* The locking is over when every row of the order is locked. *)
HoldsAll ==
  \A c \in Call :
    pc[c] \in {"check", "write"} => \A s \in Skus(order[c]) : rowLock[s] = c

(* A call asks for a row of its order that it does not hold yet. *)
AsksForMore ==
  \A c \in Call :
    pc[c] = "lock" => nextRow[c] \in Skus(order[c]) /\ rowLock[nextRow[c]] # c

(* A reserve holds the rows below the one it asks for, and no other. *)
Climbs ==
  \A c \in Call :
    pc[c] = "lock" /\ op[c] = "reserve" =>
      \A s \in Skus(order[c]) : rowLock[s] = c <=> s < nextRow[c]

(* What a reserve checked under its locks still holds. *)
Covered ==
  \A c \in Call : pc[c] = "write" /\ op[c] = "reserve" => Enough(order[c])

LockInv ==
  /\ TypeOK
  /\ LocksOwned
  /\ HoldsAll
  /\ AsksForMore
  /\ Climbs
  /\ Covered

(* A release that is past its lookup, although its order has no rows (any more). *)
Stale(o) == {c \in Running(o) : pc[c] \in {"lock", "write"} /\ o \notin reservations}

(* Every release of an order but one began while another was running.  What such a pair may *)
(* give back again is still unspent, and one more is when somebody has just given back.     *)
ChargedFor(o) ==
  /\ twice[o] <= overlaps[o]
  /\ twice[o] + Cardinality(Running(o)) <= overlaps[o] + 1
  /\ Stale(o) # {} => twice[o] + Cardinality(Running(o)) <= overlaps[o]

Charged == \A o \in Order : ChargedFor(o)
--------------------------------------------------------------------------------
(* The rows of an order, and what the others ask of a row outside it: nothing. *)
LEMMA RowsOfOrder ==
  ASSUME NEW o \in Order
  PROVE  /\ Skus(o) \subseteq Sku
         /\ Skus(o) # {}
         /\ \A s \in Sku : Lines[o][s] \in Nat
         /\ \A s \in Sku \ Skus(o) : Lines[o][s] = 0
BY InventoryAssumption DEF Skus

(* The type invariant is inductive: whatever order calls and their statements come in. *)
THEOREM TypeCorrect == Spec => []TypeOK
<1>1. Init => TypeOK
  BY InventoryAssumption DEF Init, TypeOK, Busy
<1>2. TypeOK /\ [Next]_vars => TypeOK'
  <2> SUFFICES ASSUME TypeOK, [Next]_vars PROVE TypeOK'
    OBVIOUS
  <2> USE InventoryAssumption DEF tableVars, callVars
  <2>1. ASSUME NEW c \in Call, NEW kind \in {"reserve", "release"}, NEW o \in Order,
               Begin(c, kind, o), overlaps' \in [Order -> Nat]
        PROVE  TypeOK'
    BY <2>1 DEF TypeOK, Begin, Busy
  <2>1a. ASSUME NEW c \in Call, NEW o \in Order, BeginReserve(c, o) \/ BeginRelease(c, o)
         PROVE  TypeOK'
    <3>1. overlaps' \in [Order -> Nat]
      BY <2>1a DEF TypeOK, BeginReserve, BeginRelease
    <3> QED
      BY <2>1, <2>1a, <3>1 DEF BeginReserve, BeginRelease
  <2>2. ASSUME NEW c \in Call, End(c), UNCHANGED tableVars
        PROVE  TypeOK'
    BY <2>2 DEF TypeOK, End, Busy
  <2>3. ASSUME NEW c \in Call, StartLocking(c) PROVE TypeOK'
    BY <2>3 DEF TypeOK, StartLocking, Candidates, Skus, Busy
  <2>4. ASSUME NEW c \in Call, LockRow(c) PROVE TypeOK'
    <3>1. pc[c] = "lock" /\ order[c] \in Order /\ nextRow[c] \in Sku /\ op[c] # "none"
      BY <2>4 DEF TypeOK, LockRow, Busy
    <3>2. /\ rowLock' \in [Sku -> Call \union {NoCall}]
          /\ UNCHANGED <<tableVars, op, order, overlaps>>
      BY <2>4, <3>1 DEF TypeOK, LockRow
    <3>3. CASE Unlocked(c) \ {nextRow[c]} = {}
      <4>1. /\ pc' = [pc EXCEPT ![c] = IF op[c] = "reserve" THEN "check" ELSE "write"]
            /\ nextRow' = [nextRow EXCEPT ![c] = NoSku]
        BY <2>4, <3>3 DEF LockRow, AfterLocks
      <4> QED
        BY <3>1, <3>2, <4>1 DEF TypeOK, Busy
    <3>4. CASE Unlocked(c) \ {nextRow[c]} # {}
      <4>1. PICK s \in Candidates(op[c], Unlocked(c) \ {nextRow[c]}) :
              nextRow' = [nextRow EXCEPT ![c] = s]
        BY <2>4, <3>4 DEF LockRow
      <4>2. s \in Sku /\ pc' = pc
        BY <2>4, <3>4, <4>1 DEF LockRow, Candidates, Unlocked, Skus
      <4> QED
        BY <3>1, <3>2, <4>1, <4>2 DEF TypeOK, Busy
    <3> QED
      BY <3>3, <3>4
  <2>5. ASSUME NEW c \in Call, CheckStock(c) PROVE TypeOK'
    BY <2>5 DEF TypeOK, CheckStock, Busy
  <2>6. ASSUME NEW c \in Call, CommitReserve(c) \/ CommitRelease(c) PROVE TypeOK'
    <3>1. order[c] \in Order /\ End(c)
      BY <2>6 DEF TypeOK, CommitReserve, CommitRelease, Busy
    <3>2. /\ available' \in [Sku -> Int]
          /\ reserved' \in [Sku -> Int]
          /\ reservations' \in SUBSET Order
      BY <2>6, <3>1, RowsOfOrder DEF TypeOK, CommitReserve, CommitRelease, Move
    <3>3. twice' \in [Order -> Nat]
      BY <2>6, <3>1 DEF TypeOK, CommitReserve, CommitRelease
    <3> QED
      BY <3>1, <3>2, <3>3 DEF TypeOK, End, Busy
  <2>7. CASE UNCHANGED vars
    BY <2>7 DEF TypeOK, vars, Busy
  <2> QED
    BY <2>1a, <2>2, <2>3, <2>4, <2>5, <2>6, <2>7
    DEF Next, Step, AnswerFromRows, RefuseReserve, DuplicateReserve, AbortVictim, Rollback
<1> QED
  BY <1>1, <1>2, PTL DEF Spec
--------------------------------------------------------------------------------
(* Ending a transaction gives its locks back and leaves every other call as it is. *)
LEMMA EndKeepsLocks ==
  ASSUME LockInv, NEW c \in Call, End(c), TypeOK',
         \A d \in Call \ {c} :
           pc[d] = "write" /\ op[d] = "reserve" => Enough(order[d])'
  PROVE  LockInv'
<1> USE InventoryAssumption
<1>1. /\ \A d \in Call \ {c} : /\ pc'[d] = pc[d] /\ op'[d] = op[d]
                               /\ order'[d] = order[d] /\ nextRow'[d] = nextRow[d]
      /\ pc'[c] = "idle"
  BY DEF End, LockInv, TypeOK
<1>2. \A s \in Sku : rowLock'[s] = IF rowLock[s] = c THEN NoCall ELSE rowLock[s]
  BY DEF End
<1>3. \A d \in Call \ {c}, s \in Sku : rowLock'[s] = d <=> rowLock[s] = d
  BY <1>2
<1>4. ASSUME NEW o PROVE Skus(o) \subseteq Sku
  BY DEF Skus
<1>5. LocksOwned'
  BY <1>1, <1>2, <1>3 DEF LockInv, LocksOwned, Skus
<1>6. HoldsAll'
  BY <1>1, <1>3 DEF LockInv, HoldsAll, Skus
<1>7. AsksForMore'
  <2> SUFFICES ASSUME NEW d \in Call, pc'[d] = "lock"
               PROVE  nextRow'[d] \in Skus(order'[d]) /\ rowLock'[nextRow'[d]] # d
    BY DEF AsksForMore, Skus
  <2>1. d # c /\ pc[d] = "lock" /\ order'[d] = order[d] /\ nextRow'[d] = nextRow[d]
    BY <1>1
  <2>2. nextRow[d] \in Skus(order[d]) /\ rowLock[nextRow[d]] # d
    BY <2>1 DEF LockInv, AsksForMore
  <2>3. rowLock'[nextRow[d]] # d
    BY <2>1, <2>2, <1>3, <1>4
  <2> QED
    BY <2>1, <2>2, <2>3
<1>8. Climbs'
  <2> SUFFICES ASSUME NEW d \in Call, pc'[d] = "lock", op'[d] = "reserve",
                      NEW s \in Skus(order'[d])
               PROVE  rowLock'[s] = d <=> s < nextRow'[d]
    BY DEF Climbs, Skus
  <2>1. /\ d # c /\ pc[d] = "lock" /\ op[d] = "reserve"
        /\ order'[d] = order[d] /\ nextRow'[d] = nextRow[d]
    BY <1>1
  <2>2. rowLock[s] = d <=> s < nextRow[d]
    BY <2>1 DEF LockInv, Climbs
  <2>3. s \in Sku
    BY <1>4
  <2> QED
    BY <2>1, <2>2, <2>3, <1>3
<1>9. Covered'
  BY <1>1 DEF LockInv, Covered, Enough, Skus
<1> QED
  BY <1>5, <1>6, <1>7, <1>8, <1>9 DEF LockInv

(* The invariant of the locks, whether or not releases of an order overlap. *)
THEOREM LocksCorrect == Spec => []LockInv
<1>1. Init => LockInv
  <2> SUFFICES ASSUME Init PROVE LockInv
    OBVIOUS
  <2>1. TypeOK
    BY InventoryAssumption DEF Init, TypeOK, Busy
  <2> QED
    BY <2>1, InventoryAssumption
    DEF Init, LockInv, LocksOwned, HoldsAll, AsksForMore, Climbs, Covered
<1>2. LockInv /\ TypeOK' /\ [Next]_vars => LockInv'
  <2> SUFFICES ASSUME LockInv, TypeOK', [Next]_vars PROVE LockInv'
    OBVIOUS
  <2> USE InventoryAssumption DEF tableVars, callVars
  <2>0. TypeOK
    BY DEF LockInv
  <2>1. ASSUME NEW c \in Call, NEW kind \in {"reserve", "release"}, NEW o \in Order,
               Begin(c, kind, o)
        PROVE  LockInv'
    <3>1. /\ UNCHANGED <<available, rowLock, nextRow>>
          /\ pc[c] = "idle" /\ pc'[c] = "lookup"
          /\ \A d \in Call \ {c} : pc'[d] = pc[d] /\ op'[d] = op[d] /\ order'[d] = order[d]
      BY <2>0, <2>1 DEF TypeOK, Begin, Busy
    <3>2. \A s \in Sku : rowLock[s] # c
      BY <3>1 DEF LockInv, LocksOwned
    <3>3. LocksOwned' /\ HoldsAll'
      BY <3>1, <3>2 DEF LockInv, LocksOwned, HoldsAll, Skus
    <3>4. AsksForMore' /\ Climbs'
      BY <3>1 DEF LockInv, AsksForMore, Climbs, Skus
    <3>5. Covered'
      BY <3>1 DEF LockInv, Covered, Enough, Skus
    <3> QED
      BY <3>3, <3>4, <3>5 DEF LockInv
  <2>2. ASSUME NEW c \in Call, End(c), UNCHANGED tableVars
        PROVE  LockInv'
    <3>1. ASSUME NEW d \in Call \ {c}, pc[d] = "write", op[d] = "reserve"
          PROVE  Enough(order[d])'
      <4>1. order'[d] = order[d] /\ Enough(order[d])
        BY <2>0, <2>2, <3>1 DEF End, TypeOK, LockInv, Covered
      <4> QED
        BY <2>2, <4>1 DEF Enough, Skus
    <3> QED
      BY <2>2, <3>1, EndKeepsLocks
  <2>3. ASSUME NEW c \in Call, StartLocking(c) PROVE LockInv'
    <3>1. /\ UNCHANGED <<available, rowLock, op, order>>
          /\ pc[c] = "lookup" /\ pc'[c] = "lock"
          /\ \A d \in Call \ {c} : pc'[d] = pc[d] /\ nextRow'[d] = nextRow[d]
      BY <2>0, <2>3 DEF TypeOK, StartLocking
    <3>2. \A s \in Sku : rowLock[s] # c
      BY <3>1 DEF LockInv, LocksOwned
    <3>3. /\ nextRow'[c] \in Skus(order[c])
          /\ op[c] = "reserve" => \A s \in Skus(order[c]) : nextRow'[c] <= s
      BY <2>0, <2>3 DEF TypeOK, StartLocking, Candidates
    <3>4. Skus(order[c]) \subseteq Sku /\ Sku \subseteq Nat
      BY DEF Skus
    <3>5. LocksOwned' /\ HoldsAll'
      BY <3>1, <3>2 DEF LockInv, LocksOwned, HoldsAll, Skus
    <3>6. AsksForMore'
      BY <3>1, <3>2, <3>3, <3>4 DEF LockInv, AsksForMore, Skus
    <3>7. Climbs'
      <4> SUFFICES ASSUME NEW d \in Call, pc'[d] = "lock", op[d] = "reserve",
                          NEW s \in Skus(order[d])
                   PROVE  rowLock[s] = d <=> s < nextRow'[d]
        BY <3>1 DEF Climbs, Skus
      <4>1. CASE d = c
        <5>1. s \in Skus(order[c]) /\ op[c] = "reserve"
          BY <4>1
        <5>2. nextRow'[c] <= s /\ nextRow'[c] \in Nat /\ s \in Nat /\ s \in Sku
          BY <5>1, <3>3, <3>4
        <5>3. rowLock[s] # c /\ ~(s < nextRow'[c])
          BY <5>2, <3>2
        <5> QED
          BY <4>1, <5>3
      <4>2. CASE d # c
        BY <4>2, <3>1 DEF LockInv, Climbs
      <4> QED
        BY <4>1, <4>2
    <3>8. Covered'
      BY <3>1 DEF LockInv, Covered, Enough, Skus
    <3> QED
      BY <3>5, <3>6, <3>7, <3>8 DEF LockInv
  <2>4. ASSUME NEW c \in Call, LockRow(c) PROVE LockInv'
    <3> DEFINE n == nextRow[c]
               rest == Unlocked(c) \ {n}
    <3>1. /\ UNCHANGED <<available, op, order>>
          /\ pc[c] = "lock" /\ rowLock[n] = NoCall
          /\ rowLock' = [rowLock EXCEPT ![n] = c]
          /\ \A d \in Call \ {c} : pc'[d] = pc[d] /\ nextRow'[d] = nextRow[d]
      BY <2>0, <2>4 DEF TypeOK, LockRow, Grantable
    <3>2. n \in Skus(order[c]) /\ order[c] \in Order /\ Skus(order[c]) \subseteq Sku
      BY <3>1, <2>0 DEF LockInv, AsksForMore, TypeOK, Busy, Skus
    <3>3. \A s \in Sku : rowLock'[s] = IF s = n THEN c ELSE rowLock[s]
      BY <3>1, <3>2, <2>0 DEF TypeOK
    <3>4. /\ rest = {s \in Skus(order[c]) : rowLock'[s] # c}
          /\ rest \subseteq Sku
      BY <3>2, <3>3 DEF Unlocked
    <3>5. \/ rest = {} /\ pc'[c] \in {"check", "write"} /\ (op[c] = "reserve" => pc'[c] = "check")
          \/ rest # {} /\ pc'[c] = "lock" /\ nextRow'[c] \in Candidates(op[c], rest)
      <4>1. CASE rest = {}
        BY <4>1, <2>0, <2>4 DEF TypeOK, LockRow, AfterLocks
      <4>2. CASE rest # {}
        <5>1. PICK s \in Candidates(op[c], rest) : nextRow' = [nextRow EXCEPT ![c] = s]
          BY <4>2, <2>4 DEF LockRow
        <5>2. pc' = pc
          BY <4>2, <2>4 DEF LockRow
        <5> QED
          BY <4>2, <5>1, <5>2, <3>1, <2>0 DEF TypeOK
      <4> QED
        BY <4>1, <4>2
    <3>6. \A d \in Call \ {c}, s \in Sku : rowLock'[s] = d <=> rowLock[s] = d /\ s # n
      BY <3>3
    <3>7. \A d \in Call : rowLock[n] # d
      BY <3>1
    <3>8. \A d \in Call \ {c}, s \in Sku : rowLock'[s] = d <=> rowLock[s] = d
      BY <3>6, <3>7
    <3>9. LocksOwned'
      <4> SUFFICES ASSUME NEW s \in Sku, NEW d \in Call, rowLock'[s] = d
                   PROVE  pc'[d] \in {"lock", "check", "write"} /\ s \in Skus(order[d])
        BY <3>1 DEF LocksOwned, Skus
      <4>1. CASE d = c
        <5>1. s = n \/ rowLock[s] = c
          BY <4>1, <3>3
        <5> QED
          BY <5>1, <4>1, <3>2, <3>5 DEF LockInv, LocksOwned
      <4>2. CASE d # c
        <5>1. rowLock[s] = d /\ pc'[d] = pc[d]
          BY <4>2, <3>1, <3>8
        <5> QED
          BY <5>1 DEF LockInv, LocksOwned
      <4> QED
        BY <4>1, <4>2
    <3>10. HoldsAll'
      <4> SUFFICES ASSUME NEW d \in Call, pc'[d] \in {"check", "write"},
                          NEW s \in Skus(order[d])
                   PROVE  rowLock'[s] = d
        BY <3>1 DEF HoldsAll, Skus
      <4>1. CASE d = c
        BY <4>1, <3>4, <3>5
      <4>2. CASE d # c
        BY <4>2, <3>1, <3>8 DEF LockInv, HoldsAll, Skus
      <4> QED
        BY <4>1, <4>2
    <3>11. AsksForMore'
      <4> SUFFICES ASSUME NEW d \in Call, pc'[d] = "lock"
                   PROVE  nextRow'[d] \in Skus(order[d]) /\ rowLock'[nextRow'[d]] # d
        BY <3>1 DEF AsksForMore, Skus
      <4>1. CASE d = c
        BY <4>1, <3>4, <3>5 DEF Candidates
      <4>2. CASE d # c
        BY <4>2, <3>1, <3>8 DEF LockInv, AsksForMore, Skus
      <4> QED
        BY <4>1, <4>2
    <3>12. Climbs'
      <4> SUFFICES ASSUME NEW d \in Call, pc'[d] = "lock", op[d] = "reserve",
                          NEW s \in Skus(order[d])
                   PROVE  rowLock'[s] = d <=> s < nextRow'[d]
        BY <3>1 DEF Climbs, Skus
      <4>1. CASE d = c
        <5>1. /\ nextRow'[c] \in rest
              /\ \A t \in rest : nextRow'[c] <= t
          BY <4>1, <3>5 DEF Candidates
        <5>2. /\ n \in Nat /\ s \in Nat /\ nextRow'[c] \in Nat
              /\ \A t \in Skus(order[c]) : t \in Nat
          BY <5>1, <4>1, <3>2, <3>4
        <5>3. \A t \in Skus(order[c]) : rowLock[t] = c <=> t < n
          BY <4>1, <3>1 DEF LockInv, Climbs
        <5>4. n < nextRow'[c]
          <6>1. nextRow'[c] # n /\ rowLock[nextRow'[c]] # c /\ nextRow'[c] \in Skus(order[c])
            BY <5>1 DEF Unlocked
          <6>2. ~(nextRow'[c] < n)
            BY <6>1, <5>3
          <6> QED
            BY <6>1, <6>2, <5>2
        <5>5. CASE s \in rest
          BY <5>5, <5>1, <5>2, <4>1, <3>4
        <5>6. CASE s \notin rest
          <6>1. s = n \/ s < n
            BY <5>6, <5>3, <4>1 DEF Unlocked
          <6> QED
            BY <6>1, <5>2, <5>4, <5>6, <4>1, <3>4
        <5> QED
          BY <5>5, <5>6
      <4>2. CASE d # c
        BY <4>2, <3>1, <3>8 DEF LockInv, Climbs, Skus
      <4> QED
        BY <4>1, <4>2
    <3>13. Covered'
      BY <3>1, <3>5 DEF LockInv, Covered, Enough, Skus
    <3> QED
      BY <3>9, <3>10, <3>11, <3>12, <3>13 DEF LockInv
  <2>5. ASSUME NEW c \in Call, CheckStock(c) PROVE LockInv'
    <3>1. /\ UNCHANGED <<available, rowLock, op, order, nextRow>>
          /\ pc[c] = "check" /\ pc'[c] = "write" /\ Enough(order[c])
          /\ \A d \in Call \ {c} : pc'[d] = pc[d]
      BY <2>0, <2>5 DEF TypeOK, CheckStock
    <3>2. LocksOwned' /\ HoldsAll'
      BY <3>1 DEF LockInv, LocksOwned, HoldsAll, Skus
    <3>3. AsksForMore' /\ Climbs'
      BY <3>1 DEF LockInv, AsksForMore, Climbs, Skus
    <3>4. Covered'
      BY <3>1 DEF LockInv, Covered, Enough, Skus
    <3> QED
      BY <3>2, <3>3, <3>4 DEF LockInv
  <2>6. ASSUME NEW c \in Call, CommitReserve(c) \/ CommitRelease(c) PROVE LockInv'
    <3>1. /\ End(c) /\ pc[c] = "write" /\ order[c] \in Order
          /\ Move(order[c], 1) \/ Move(order[c], -1)
      BY <2>0, <2>6 DEF TypeOK, CommitReserve, CommitRelease, Busy
    <3>2. ASSUME NEW d \in Call \ {c}, pc[d] = "write", op[d] = "reserve"
          PROVE  Enough(order[d])'
      <4>1. /\ order'[d] = order[d] /\ Enough(order[d])
            /\ \A s \in Skus(order[d]) : rowLock[s] = d
        BY <3>1, <3>2, <2>0 DEF End, TypeOK, LockInv, Covered, HoldsAll
      <4>2. \A s \in Skus(order[d]) : s \in Sku /\ s \notin Skus(order[c])
        <5>1. \A s \in Skus(order[c]) : rowLock[s] = c
          BY <3>1, <2>0 DEF HoldsAll, LockInv
        <5>2. Skus(order[d]) \subseteq Sku
          BY DEF Skus
        <5> QED
          BY <3>2, <4>1, <5>1, <5>2
      <4>3. \A s \in Skus(order[d]) : available'[s] = available[s]
        <5> SUFFICES ASSUME NEW s \in Skus(order[d]) PROVE available'[s] = available[s]
          OBVIOUS
        <5>1. s \in Sku /\ s \notin Skus(order[c]) /\ order[c] \in Order
          BY <3>1, <4>2
        <5>2. Lines[order[c]][s] = 0
          BY <5>1, RowsOfOrder
        <5>3. available[s] \in Int
          BY <5>1, <2>0 DEF TypeOK
        <5>4. \/ available'[s] = available[s] - 1 * Lines[order[c]][s]
              \/ available'[s] = available[s] - (-1) * Lines[order[c]][s]
          BY <5>1, <3>1 DEF Move
        <5> QED
          BY <5>2, <5>3, <5>4
      <4> QED
        BY <4>1, <4>3 DEF Enough, Skus
    <3> QED
      BY <3>1, <3>2, EndKeepsLocks
  <2>7. CASE UNCHANGED vars
    <3>1. UNCHANGED <<available, rowLock, op, order, pc, nextRow>>
      BY <2>7 DEF vars
    <3>2. LocksOwned' /\ HoldsAll'
      BY <3>1 DEF LockInv, LocksOwned, HoldsAll, Skus
    <3>3. AsksForMore' /\ Climbs'
      BY <3>1 DEF LockInv, AsksForMore, Climbs, Skus
    <3>4. Covered'
      BY <3>1 DEF LockInv, Covered, Enough, Skus
    <3> QED
      BY <2>0, <3>2, <3>3, <3>4 DEF LockInv
  <2> QED
    BY <2>1, <2>2, <2>3, <2>4, <2>5, <2>6, <2>7
    DEF Next, Step, BeginReserve, BeginRelease, AnswerFromRows, RefuseReserve, DuplicateReserve,
        AbortVictim, Rollback
<1> QED
  BY <1>1, <1>2, TypeCorrect, PTL DEF Spec

(* The waits of reserves climb the sku ids: no circle of reserves alone can close. *)
THEOREM ReservesNeverCircle == Spec => []ReservesWaitUphill
<1>1. LockInv => ReservesWaitUphill
  <2> SUFFICES ASSUME LockInv, NEW c \in Call, NEW d \in Call,
                      op[d] = "reserve", pc[c] = "lock", pc[d] = "lock",
                      rowLock[nextRow[c]] = d
               PROVE  nextRow[c] < nextRow[d]
    BY DEF ReservesWaitUphill
  <2>1. nextRow[c] \in Sku
    BY DEF LockInv, TypeOK
  <2>2. nextRow[c] \in Skus(order[d])
    BY <2>1 DEF LockInv, LocksOwned
  <2> QED
    BY <2>2 DEF LockInv, Climbs
<1> QED
  BY <1>1, LocksCorrect, PTL
--------------------------------------------------------------------------------
(* No interleaving of checkouts takes stock below zero: what a reserve read under its *)
(* locks covers its lines when it commits.  Releases only add, even when doubled.      *)
THEOREM NeverOversold == Spec => []NoOversell
<1>1. Init => NoOversell
  BY InventoryAssumption DEF Init, NoOversell
<1>2. LockInv /\ NoOversell /\ [Next]_vars => NoOversell'
  <2> SUFFICES ASSUME LockInv, NoOversell, [Next]_vars PROVE NoOversell'
    OBVIOUS
  <2> USE InventoryAssumption DEF tableVars, callVars
  <2>0. TypeOK
    BY DEF LockInv
  <2>1. ASSUME UNCHANGED available PROVE NoOversell'
    BY <2>1 DEF NoOversell
  <2>2. ASSUME NEW c \in Call, CommitReserve(c) PROVE NoOversell'
    <3>1. /\ order[c] \in Order /\ Enough(order[c])
          /\ Move(order[c], 1)
      BY <2>0, <2>2 DEF CommitReserve, TypeOK, Busy, LockInv, Covered
    <3> SUFFICES ASSUME NEW s \in Sku PROVE available'[s] >= 0
      BY DEF NoOversell
    <3>2. /\ available'[s] = available[s] - Lines[order[c]][s]
          /\ available[s] \in Int /\ available[s] >= 0
          /\ Lines[order[c]][s] \in Nat
      BY <3>1, <2>0, RowsOfOrder DEF Move, TypeOK, NoOversell
    <3>3. available[s] >= Lines[order[c]][s]
      <4>1. CASE s \in Skus(order[c])
        BY <4>1, <3>1 DEF Enough
      <4>2. CASE s \notin Skus(order[c])
        BY <4>2, <3>1, <3>2, RowsOfOrder
      <4> QED
        BY <4>1, <4>2
    <3> QED
      BY <3>2, <3>3
  <2>3. ASSUME NEW c \in Call, CommitRelease(c) PROVE NoOversell'
    <3>1. order[c] \in Order /\ Move(order[c], -1)
      BY <2>0, <2>3 DEF CommitRelease, TypeOK, Busy
    <3> SUFFICES ASSUME NEW s \in Sku PROVE available'[s] >= 0
      BY DEF NoOversell
    <3> QED
      BY <3>1, <2>0, RowsOfOrder DEF Move, TypeOK, NoOversell
  <2> QED
    BY <2>1, <2>2, <2>3
    DEF Next, Step, BeginReserve, BeginRelease, Begin, AnswerFromRows, StartLocking, LockRow,
        CheckStock, RefuseReserve, DuplicateReserve, AbortVictim, Rollback, vars
<1> QED
  BY <1>1, <1>2, LocksCorrect, PTL DEF Spec

LEMMA RunningIsFinite ==
  ASSUME NEW o \in Order
  PROVE  /\ IsFiniteSet(Running(o)) /\ Cardinality(Running(o)) \in Nat
         /\ Stale(o) \subseteq Running(o)
<1>1. IsFiniteSet(Call) /\ Running(o) \subseteq Call
  BY InventoryAssumption DEF Running
<1> QED
  BY <1>1, FS_Subset, FS_CardinalityType DEF Stale

(* An order that no release joins, and of which none gives back again, stays charged. *)
LEMMA FewerStayCharged ==
  ASSUME TypeOK, NEW o \in Order, ChargedFor(o),
         Running(o)' \subseteq Running(o), Stale(o)' \subseteq Stale(o),
         twice'[o] = twice[o], overlaps'[o] = overlaps[o]
  PROVE  ChargedFor(o)'
<1> DEFINE R == Running(o)
           T == Running(o)'
<1>1. IsFiniteSet(R) /\ Cardinality(R) \in Nat
  BY RunningIsFinite
<1>2. IsFiniteSet(T) /\ Cardinality(T) <= Cardinality(R) /\ Cardinality(T) \in Nat
  BY <1>1, FS_Subset, FS_CardinalityType
<1>3. twice[o] \in Nat /\ overlaps[o] \in Nat
  BY DEF TypeOK
<1> QED
  BY <1>1, <1>2, <1>3 DEF ChargedFor

(* The end of a transaction takes its call from the releases that run. *)
LEMMA EndLeaves ==
  ASSUME TypeOK, NEW c \in Call, End(c), NEW o \in Order
  PROVE  Running(o)' = Running(o) \ {c}
BY DEF TypeOK, End, Running, Busy

LEMMA EndStaysCharged ==
  ASSUME TypeOK, NEW c \in Call, End(c), NEW o \in Order, ChargedFor(o),
         o \in reservations => o \in reservations', twice'[o] = twice[o]
  PROVE  ChargedFor(o)'
<1>1. Running(o)' = Running(o) \ {c}
  BY EndLeaves
<1>2. \A d \in Call \ {c} : pc'[d] = pc[d]
  BY DEF End, TypeOK
<1>3. Stale(o)' \subseteq Stale(o)
  BY <1>1, <1>2 DEF Stale, Running
<1>4. overlaps'[o] = overlaps[o]
  BY DEF End
<1> QED
  BY <1>1, <1>3, <1>4, FewerStayCharged

(* No release gives back what another has given back, unless the two overlapped: any calls of *)
(* the order service, retried, late or swept, pay for what they break (releaseForOrder).      *)
THEOREM AgainIsCharged == Spec => []Charged
<1>1. Init => Charged
  <2> SUFFICES ASSUME Init, NEW o \in Order PROVE ChargedFor(o)
    BY DEF Charged
  <2>1. Running(o) = {} /\ Stale(o) = {} /\ twice[o] = 0 /\ overlaps[o] = 0
    BY DEF Init, Running, Stale, Busy
  <2> QED
    BY <2>1, FS_EmptySet DEF ChargedFor
<1>2. TypeOK /\ Charged /\ [Next]_vars => Charged'
  <2> SUFFICES ASSUME TypeOK, Charged, [Next]_vars, NEW o \in Order PROVE ChargedFor(o)'
    BY DEF Charged
  <2> USE InventoryAssumption DEF tableVars, callVars
  <2>0. ChargedFor(o) /\ twice[o] \in Nat /\ overlaps[o] \in Nat
    BY DEF Charged, TypeOK
  <2>1. ASSUME NEW c \in Call, NEW p \in Order, BeginReserve(c, p) PROVE ChargedFor(o)'
    <3>1. Running(o)' \subseteq Running(o) /\ Stale(o)' \subseteq Stale(o)
      BY <2>1 DEF BeginReserve, Begin, TypeOK, Running, Stale, Busy
    <3> QED
      BY <2>0, <2>1, <3>1, FewerStayCharged DEF BeginReserve, Begin
  <2>2. ASSUME NEW c \in Call, NEW p \in Order, BeginRelease(c, p) PROVE ChargedFor(o)'
    <3>1. /\ Begin(c, "release", p)
          /\ twice' = twice /\ overlaps' \in [Order -> Nat]
          /\ p # o => overlaps'[o] = overlaps[o]
          /\ overlaps'[p] = IF Running(p) = {} THEN overlaps[p] ELSE overlaps[p] + 1
      <4>1. Begin(c, "release", p) /\ twice' = twice /\ overlaps \in [Order -> Nat]
        BY <2>2 DEF BeginRelease, Begin, TypeOK
      <4>2. CASE Running(p) = {}
        BY <2>2, <4>1, <4>2 DEF BeginRelease
      <4>3. CASE Running(p) # {}
        BY <2>2, <4>1, <4>3 DEF BeginRelease
      <4> QED
        BY <4>1, <4>2, <4>3
    <3>2. Stale(o)' \subseteq Stale(o)
      BY <3>1 DEF Begin, TypeOK, Running, Stale, Busy
    <3>3. CASE p # o
      <4>1. Running(o)' \subseteq Running(o)
        BY <3>1, <3>3 DEF Begin, TypeOK, Running, Busy
      <4> QED
        BY <2>0, <3>1, <3>2, <3>3, <4>1, FewerStayCharged
    <3>4. CASE p = o
      <4> DEFINE R == Running(o)
                 T == Running(o)'
      <4>1. T = R \union {c} /\ c \notin R
        BY <3>1, <3>4 DEF Begin, TypeOK, Running, Busy
      <4>2. IsFiniteSet(R) /\ Cardinality(R) \in Nat /\ Stale(o) \subseteq R
        BY RunningIsFinite
      <4>3. Cardinality(T) = Cardinality(R) + 1
        <5> HIDE DEF R, T
        <5> QED
          BY <4>1, <4>2, FS_AddElement
      <4>4. R = {} => Cardinality(R) = 0
        BY FS_EmptySet
      <4> QED
        BY <2>0, <3>1, <3>2, <3>4, <4>2, <4>3, <4>4 DEF ChargedFor
    <3> QED
      BY <3>3, <3>4
  <2>3. ASSUME NEW c \in Call, End(c), UNCHANGED tableVars PROVE ChargedFor(o)'
    BY <2>0, <2>3, EndStaysCharged
  <2>4. ASSUME NEW c \in Call, StartLocking(c) \/ LockRow(c) \/ CheckStock(c)
        PROVE  ChargedFor(o)'
    <3>1. UNCHANGED <<twice, overlaps, op, order, reservations>>
      BY <2>4 DEF StartLocking, LockRow, CheckStock
    <3>2. /\ \A d \in Call \ {c} : pc'[d] = pc[d]
          /\ pc[c] # "idle" /\ pc'[c] # "idle"
          /\ \/ pc[c] = "lookup" /\ (op[c] = "reserve" <=> order[c] \notin reservations)
             \/ pc[c] = "lock"
             \/ op[c] = "reserve"
      BY <2>4 DEF StartLocking, LockRow, CheckStock, AfterLocks, TypeOK
    <3>3. Running(o)' = Running(o)
      BY <3>1, <3>2 DEF Running, Busy
    <3>4. Stale(o)' \subseteq Stale(o)
      BY <3>1, <3>2, <3>3 DEF Stale, Running
    <3> QED
      BY <2>0, <3>1, <3>3, <3>4, FewerStayCharged
  <2>5. ASSUME NEW c \in Call, CommitReserve(c) PROVE ChargedFor(o)'
    BY <2>0, <2>5, EndStaysCharged DEF CommitReserve
  <2>6. ASSUME NEW c \in Call, CommitRelease(c) PROVE ChargedFor(o)'
    <3>1. /\ End(c) /\ order[c] \in Order
          /\ c \in Running(order[c]) /\ pc[c] = "write"
          /\ reservations' = reservations \ {order[c]}
          /\ twice' = [twice EXCEPT ![order[c]] = IF order[c] \in reservations THEN @ ELSE @ + 1]
      BY <2>6 DEF CommitRelease, TypeOK, Running, Busy
    <3>2. CASE order[c] # o
      <4>1. twice'[o] = twice[o] /\ (o \in reservations => o \in reservations')
        BY <3>1, <3>2 DEF TypeOK
      <4> QED
        BY <2>0, <3>1, <4>1, EndStaysCharged
    <3>3. CASE order[c] = o
      <4> DEFINE R == Running(o)
                 T == Running(o)'
      <4>1. T = R \ {c} /\ c \in R
        BY <3>1, <3>3, EndLeaves
      <4>2. IsFiniteSet(R) /\ Cardinality(R) \in Nat
        BY RunningIsFinite
      <4>3. Cardinality(T) = Cardinality(R) - 1 /\ Cardinality(T) \in Nat
        BY <4>1, <4>2, FS_RemoveElement, FS_CardinalityType
      <4>4. /\ overlaps'[o] = overlaps[o]
            /\ twice'[o] = IF o \in reservations THEN twice[o] ELSE twice[o] + 1
        BY <3>1, <3>3 DEF End, TypeOK
      <4>5. o \notin reservations => Stale(o) # {}
        BY <3>1, <3>3 DEF Stale
      <4> QED
        BY <2>0, <4>2, <4>3, <4>4, <4>5 DEF ChargedFor
    <3> QED
      BY <3>2, <3>3
  <2>7. CASE UNCHANGED vars
    <3>1. Running(o)' = Running(o) /\ Stale(o)' = Stale(o)
      BY <2>7 DEF vars, Running, Stale, Busy
    <3> QED
      BY <2>0, <2>7, <3>1, FewerStayCharged DEF vars
  <2> QED
    BY <2>1, <2>2, <2>3, <2>4, <2>5, <2>6, <2>7
    DEF Next, Step, AnswerFromRows, RefuseReserve, DuplicateReserve, AbortVictim, Rollback
<1> QED
  BY <1>1, <1>2, TypeCorrect, PTL DEF Spec

(* The column `reserved` is the sum of the reservations, less what overlapping releases gave   *)
(* back again, in every state and for every sku: a commit moves the units of one order, and     *)
(* that order comes into the table, leaves it, or has been out of it already.                    *)
THEOREM ReservedIsSum == Spec => []ReservedIsSumOfReservations
<1> DEFINE Accounted ==
             \A s \in Sku : reserved[s] = SumFunctionOnSet(HeldOf(s), reservations)
                                          - SumFunctionOnSet(AgainOf(s), GivenAgain)
           Inv == Accounted /\ IsFiniteSet(reservations) /\ IsFiniteSet(GivenAgain)
<1>1. Init => Inv
  <2> SUFFICES ASSUME Init PROVE Inv
    OBVIOUS
  <2>1. reservations = {} /\ GivenAgain = {} /\ IsFiniteSet({})
    BY FS_EmptySet DEF Init, GivenAgain
  <2>2. \A s \in Sku : /\ SumFunctionOnSet(HeldOf(s), {}) = 0
                       /\ SumFunctionOnSet(AgainOf(s), {}) = 0
    BY SumOfNone
  <2>3. \A s \in Sku : reserved[s] = 0
    BY DEF Init
  <2> QED
    BY <2>1, <2>2, <2>3
<1>2. TypeOK /\ Inv /\ [Next]_vars => Inv'
  <2> SUFFICES ASSUME TypeOK, Inv, [Next]_vars PROVE Inv'
    OBVIOUS
  <2> USE DEF tableVars, callVars
  <2>1. /\ IsFiniteSet(reservations) /\ reservations \subseteq Order
        /\ IsFiniteSet(GivenAgain) /\ GivenAgain \subseteq Order
        /\ \A s \in Sku :
             /\ reserved[s] = SumFunctionOnSet(HeldOf(s), reservations)
                              - SumFunctionOnSet(AgainOf(s), GivenAgain)
             /\ reserved[s] \in Int
    BY DEF TypeOK, GivenAgain
  <2>2. \A s \in Sku : \A o \in Order :
          /\ HeldOf(s)[o] = Lines[o][s] /\ HeldOf(s)[o] \in Int /\ Lines[o][s] \in Nat
          /\ AgainOf(s)[o] = twice[o] * Lines[o][s] /\ AgainOf(s)[o] \in Int
    BY RowsOfOrder DEF HeldOf, AgainOf, TypeOK
  <2>3. \A s \in Sku : HeldOf(s)' = HeldOf(s)
    BY DEF HeldOf
  <2>4. \A s \in Sku : /\ SumFunctionOnSet(HeldOf(s), reservations) \in Int
                       /\ SumFunctionOnSet(AgainOf(s), GivenAgain) \in Int
    BY <2>1, <2>2, SumType
  <2>5. ASSUME twice' = twice
        PROVE  GivenAgain' = GivenAgain /\ \A s \in Sku : AgainOf(s)' = AgainOf(s)
    BY <2>5 DEF GivenAgain, AgainOf
  <2>6. ASSUME UNCHANGED <<reserved, reservations, twice>> PROVE Inv'
    BY <2>1, <2>3, <2>5, <2>6
  <2>7. ASSUME NEW c \in Call, CommitReserve(c) PROVE Inv'
    <3> DEFINE o == order[c]
    <3>1. /\ o \in Order /\ o \notin reservations
          /\ reservations' = reservations \union {o}
          /\ reserved' = [s \in Sku |-> reserved[s] + 1 * Lines[o][s]]
          /\ twice' = twice
      BY <2>7 DEF CommitReserve, Duplicate, Move, TypeOK, Busy
    <3> HIDE DEF o
    <3>2. IsFiniteSet(reservations')
      BY <2>1, <3>1, FS_AddElement
    <3>3. ASSUME NEW s \in Sku
          PROVE  reserved'[s] = SumFunctionOnSet(HeldOf(s), reservations')
                                - SumFunctionOnSet(AgainOf(s), GivenAgain)
      <4>1. \A p \in reservations \union {o} : HeldOf(s)[p] \in Int
        BY <2>1, <2>2, <3>1
      <4>2. SumFunctionOnSet(HeldOf(s), reservations \union {o})
              = HeldOf(s)[o] + SumFunctionOnSet(HeldOf(s), reservations)
        BY <2>1, <3>1, <4>1, SumWith
      <4>3. reserved'[s] = reserved[s] + 1 * Lines[o][s] /\ Lines[o][s] \in Int
        BY <2>2, <3>1
      <4> QED
        BY <2>1, <2>2, <2>4, <3>1, <4>2, <4>3
    <3> QED
      BY <2>1, <2>3, <2>5, <3>1, <3>2, <3>3
  <2>8. ASSUME NEW c \in Call, CommitRelease(c), order[c] \in reservations PROVE Inv'
    <3> DEFINE o == order[c]
    <3>1. /\ o \in Order /\ o \in reservations
          /\ reservations' = reservations \ {o}
          /\ reserved' = [s \in Sku |-> reserved[s] + (-1) * Lines[o][s]]
          /\ twice' = twice
      BY <2>8 DEF CommitRelease, Move, TypeOK, Busy
    <3> HIDE DEF o
    <3>2. IsFiniteSet(reservations')
      BY <2>1, <3>1, FS_Subset
    <3>3. ASSUME NEW s \in Sku
          PROVE  reserved'[s] = SumFunctionOnSet(HeldOf(s), reservations')
                                - SumFunctionOnSet(AgainOf(s), GivenAgain)
      <4>1. \A p \in reservations : HeldOf(s)[p] \in Int
        BY <2>1, <2>2
      <4>2. SumFunctionOnSet(HeldOf(s), reservations)
              = HeldOf(s)[o] + SumFunctionOnSet(HeldOf(s), reservations \ {o})
        BY <2>1, <3>1, <4>1, SumWithout
      <4>3. SumFunctionOnSet(HeldOf(s), reservations \ {o}) \in Int
        <5>1. IsFiniteSet(reservations \ {o}) /\ \A p \in reservations \ {o} : HeldOf(s)[p] \in Int
          BY <3>1, <3>2, <4>1
        <5> QED
          BY <5>1, SumType
      <4>4. reserved'[s] = reserved[s] + (-1) * Lines[o][s] /\ Lines[o][s] \in Int
        BY <2>2, <3>1
      <4> QED
        BY <2>1, <2>2, <2>4, <3>1, <4>2, <4>3, <4>4
    <3> QED
      BY <2>1, <2>3, <2>5, <3>1, <3>2, <3>3
  <2>9. ASSUME NEW c \in Call, CommitRelease(c), order[c] \notin reservations PROVE Inv'
    <3> DEFINE o == order[c]
    <3>1. /\ o \in Order
          /\ reservations' = reservations
          /\ reserved' = [s \in Sku |-> reserved[s] + (-1) * Lines[o][s]]
          /\ twice' = [twice EXCEPT ![o] = @ + 1]
          /\ twice \in [Order -> Nat]
      BY <2>9 DEF CommitRelease, Move, TypeOK, Busy
    <3> HIDE DEF o
    <3>2. GivenAgain' = GivenAgain \union {o}
      BY <3>1 DEF GivenAgain
    <3>3. ASSUME NEW s \in Sku
          PROVE  /\ IsFiniteSet(GivenAgain \union {o})
                 /\ reserved'[s] = SumFunctionOnSet(HeldOf(s), reservations)
                                   - SumFunctionOnSet(AgainOf(s)', GivenAgain \union {o})
      <4> DEFINE f == AgainOf(s)
                 g == AgainOf(s)'
      <4>1. /\ Lines[o][s] \in Nat /\ f[o] \in Int /\ f[o] = twice[o] * Lines[o][s]
            /\ twice[o] \in Nat
        BY <2>2, <3>1
      <4>2. g[o] = (twice[o] + 1) * Lines[o][s]
        BY <3>1 DEF AgainOf
      <4>3. g[o] = f[o] + Lines[o][s] /\ g[o] \in Int
        BY <4>1, <4>2
      <4>4. \A p \in Order \ {o} : g[p] = f[p]
        BY <3>1 DEF AgainOf
      <4>5. o \notin GivenAgain => f[o] = 0
        BY <3>1, <4>1 DEF GivenAgain
      <4>6. \A p \in Order : f[p] \in Int
        BY <2>2
      <4> HIDE DEF f, g
      <4>7. /\ \A p \in GivenAgain \union {o} : f[p] \in Int /\ g[p] \in Int
            /\ \A p \in GivenAgain \ {o} : f[p] = g[p]
        BY <2>1, <3>1, <4>3, <4>4, <4>6
      <4>8. /\ IsFiniteSet(GivenAgain \union {o})
            /\ SumFunctionOnSet(g, GivenAgain \union {o})
                 = SumFunctionOnSet(f, GivenAgain) + (g[o] - f[o])
        <5>1. IsFiniteSet(GivenAgain)
          BY <2>1
        <5> QED
          BY <4>5, <4>7, <5>1, SumGrows
      <4>9. reserved'[s] = reserved[s] + (-1) * Lines[o][s]
        BY <3>1
      <4>10. /\ reserved[s] = SumFunctionOnSet(HeldOf(s), reservations)
                              - SumFunctionOnSet(f, GivenAgain)
             /\ SumFunctionOnSet(HeldOf(s), reservations) \in Int
             /\ SumFunctionOnSet(f, GivenAgain) \in Int
        BY <2>1, <2>4 DEF f
      <4>11. reserved'[s] = SumFunctionOnSet(HeldOf(s), reservations)
                            - SumFunctionOnSet(g, GivenAgain \union {o})
        BY <4>1, <4>3, <4>8, <4>9, <4>10
      <4> QED
        BY <4>8, <4>11 DEF g
    <3>4. IsFiniteSet(GivenAgain')
      <4>1. PICK s \in Sku : Lines[o][s] > 0
        BY <3>1, InventoryAssumption
      <4> QED
        BY <3>2, <3>3
    <3> QED
      BY <2>1, <2>3, <3>1, <3>2, <3>3, <3>4
  <2> QED
    BY <2>6, <2>7, <2>8, <2>9
    DEF Next, Step, BeginReserve, BeginRelease, Begin, AnswerFromRows, StartLocking, LockRow,
        CheckStock, RefuseReserve, DuplicateReserve, AbortVictim, Rollback, End, vars
<1>3. Charged /\ Inv => ReservedIsSumOfReservations
  BY DEF Charged, ChargedFor, ReservedIsSumOfReservations
<1> QED
  BY <1>1, <1>2, <1>3, TypeCorrect, AgainIsCharged, PTL DEF Spec

(* To the order service the catalog is LooseLedger: a commit is one atomic Reserve or Release *)
(* of a whole order, or the second give-back of two releases that overlapped, and every other   *)
(* step but the beginning of such an overlap is invisible.                                      *)
THEOREM InventoryImplementsLedger == Spec => ImplementsLedger
<1>1. Init => Ledger!LooseInit
  BY DEF Init, Ledger!LooseInit, Ledger!Init
<1>2. LockInv /\ NoOversell /\ Charged /\ [Next]_vars => [Ledger!LooseNext]_(Ledger!looseVars)
  <2> SUFFICES ASSUME LockInv, NoOversell, Charged, [Next]_vars
               PROVE  \/ Ledger!LooseNext
                      \/ UNCHANGED <<available, reservations, overlaps, twice>>
    BY DEF Ledger!looseVars, Ledger!ledgerVars
  <2> USE InventoryAssumption DEF tableVars, callVars
  <2>0. TypeOK
    BY DEF LockInv
  <2>1. ASSUME NEW c \in Call, CommitReserve(c) PROVE Ledger!LooseNext
    <3>1. /\ order[c] \in Order /\ Enough(order[c])
          /\ order[c] \notin reservations
          /\ reservations' = reservations \union {order[c]}
          /\ Move(order[c], 1)
          /\ UNCHANGED <<overlaps, twice>>
      BY <2>0, <2>1 DEF CommitReserve, Duplicate, TypeOK, Busy, LockInv, Covered, End
    <3>2. available' = [s \in Sku |-> available[s] - Lines[order[c]][s]]
      BY <3>1, <2>0, RowsOfOrder DEF Move, TypeOK
    <3>3. Ledger!Covers(order[c])
      <4> SUFFICES ASSUME NEW s \in Sku PROVE Lines[order[c]][s] <= available[s]
        BY DEF Ledger!Covers
      <4>1. CASE s \in Skus(order[c])
        BY <4>1, <3>1, <2>0, RowsOfOrder DEF Enough, TypeOK
      <4>2. CASE s \notin Skus(order[c])
        BY <4>2, <3>1, <2>0, RowsOfOrder DEF NoOversell, TypeOK
      <4> QED
        BY <4>1, <4>2
    <3>4. Ledger!Reserve(order[c])
      BY <3>1, <3>2, <3>3 DEF Ledger!Reserve
    <3> QED
      BY <3>1, <3>4 DEF Ledger!LooseNext, Ledger!Next
  <2>2. ASSUME NEW c \in Call, CommitRelease(c) PROVE Ledger!LooseNext
    <3>1. /\ order[c] \in Order /\ c \in Running(order[c]) /\ pc[c] = "write"
          /\ reservations' = reservations \ {order[c]}
          /\ twice' = [twice EXCEPT ![order[c]] = IF order[c] \in reservations THEN @ ELSE @ + 1]
          /\ Move(order[c], -1)
          /\ overlaps' = overlaps
      BY <2>0, <2>2 DEF CommitRelease, TypeOK, Busy, Running, End
    <3>2. available' = [s \in Sku |-> available[s] + Lines[order[c]][s]]
      BY <3>1, <2>0, RowsOfOrder DEF Move, TypeOK
    <3>3. CASE order[c] \in reservations
      <4>1. twice' = twice
        BY <3>1, <3>3, <2>0 DEF TypeOK
      <4>2. Ledger!Release(order[c])
        BY <3>1, <3>2, <3>3 DEF Ledger!Release
      <4> QED
        BY <3>1, <4>1, <4>2 DEF Ledger!LooseNext, Ledger!Next
    <3>4. CASE order[c] \notin reservations
      <4>1. c \in Stale(order[c])
        BY <3>1, <3>4 DEF Stale
      <4>2. twice[order[c]] + Cardinality(Running(order[c])) <= overlaps[order[c]]
        BY <3>1, <4>1 DEF Charged, ChargedFor
      <4>3. Cardinality(Running(order[c])) \in Nat /\ Cardinality(Running(order[c])) # 0
        BY <3>1, RunningIsFinite, FS_EmptySet
      <4>4. twice[order[c]] \in Nat /\ overlaps[order[c]] \in Nat
        BY <3>1, <2>0 DEF TypeOK
      <4>5. twice[order[c]] < overlaps[order[c]]
        BY <4>2, <4>3, <4>4
      <4>6. reservations' = reservations /\ twice' = [twice EXCEPT ![order[c]] = @ + 1]
        BY <3>1, <3>4
      <4>7. Ledger!GiveBackAgain(order[c])
        BY <3>1, <3>2, <3>4, <4>5, <4>6 DEF Ledger!GiveBackAgain
      <4> QED
        BY <3>1, <4>7 DEF Ledger!LooseNext
    <3> QED
      BY <3>3, <3>4
  <2>3. ASSUME NEW c \in Call, NEW o \in Order, BeginRelease(c, o)
        PROVE  \/ Ledger!LooseNext
               \/ UNCHANGED <<available, reservations, overlaps, twice>>
    <3>1. UNCHANGED <<available, reservations, twice>>
      BY <2>3 DEF BeginRelease, Begin
    <3>2. overlaps' = overlaps \/ overlaps' = [overlaps EXCEPT ![o] = @ + 1]
      BY <2>3 DEF BeginRelease
    <3> QED
      BY <3>1, <3>2 DEF Ledger!LooseNext, Ledger!Overlap, Ledger!ledgerVars
  <2> QED
    BY <2>1, <2>2, <2>3
    DEF Next, Step, BeginReserve, Begin, AnswerFromRows, StartLocking, LockRow,
        CheckStock, RefuseReserve, DuplicateReserve, AbortVictim, Rollback, End, vars
<1> QED
  BY <1>1, <1>2, LocksCorrect, NeverOversold, AgainIsCharged, PTL
  DEF Spec, ImplementsLedger, Ledger!LooseSpec
================================================================================
