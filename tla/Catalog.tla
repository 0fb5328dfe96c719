-------------------------------- MODULE Catalog --------------------------------
(***************************************************************************)
(* Products of the catalog service: rows in Postgres, and the cache-aside   *)
(* CachedProductRepository in front of them.  Admin edits read a product    *)
(* through the cache, change the copy and write all of it back; nothing     *)
(* compares the rows with what was read.  Every change commits with a       *)
(* product.indexed event for the search service.                           *)
(***************************************************************************)
EXTENDS Integers, FiniteSets

CONSTANTS
  Product, Sku,   \* ids; those not used yet stand for the UUIDs to come
  Currency, Default,
  Seed,           \* Seed[p]: the product the seed command created, or Absent
  Request,        \* HTTP requests in flight at once
  Calls,          \* what clients ask: the whole of Call, or the part a run is about
  MaxCalls,       \* bound: requests of clients
  MaxFaults       \* bound: crashes, and commands to Redis that fail

ASSUME CatalogAssumption ==
  /\ Default \in Currency
  /\ Seed \in [Product -> [active : BOOLEAN, prices : [Sku -> SUBSET Currency]]]
  /\ MaxCalls \in Nat /\ MaxFaults \in Nat

VARIABLES
  row,      \* row[p]: the product with its SKUs and prices
  stocked,  \* stocked[p]: SKUs of p that have an inventory row
  made,     \* made[p]: SKU ids given out for p
  cache,    \* cache[p]: the value at catalog:product:id:p
  events,   \* events[p]: product.indexed events not handled yet
  pc, call, \* pc[r], call[r]: where request r is, and what it asks
  seen,     \* seen[r]: the product r works on
  old,      \* old[r]: the SKU rows the transaction of r found
  asked,    \* asked[p]: the product the accepted edits amount to, one after the other
  raced,    \* products that a change and another request used at once
  calls, faults

rowVars == <<row, stocked, events, asked>>
requestVars == <<pc, call, seen, old>>
vars == <<rowVars, made, cache, requestVars, raced, calls, faults>>

(* A product: whether it is active, and the currencies each SKU has a price in; *)
(* a SKU without a price is no SKU of it, a product has at least one.           *)
Absent == [active |-> FALSE, prices |-> [s \in Sku |-> {}]]
Skus(x) == {s \in Sku : x.prices[s] # {}}
WithSku(x, s, prices) == [x EXCEPT !.prices[s] = prices]

(* ProductInvariant of Product.create. *)
Valid(x) == \A s \in Skus(x) : Default \in x.prices[s]

Prices == (SUBSET Currency) \ {{}}

(* A body of PUT /products/:id gives a new isActive, or none.  POST .../skus and PUT *)
(* .../skus are one use case: a new SKU has the id just made, and initialStock matters for it alone.                  *)
Call ==
  [op : {"create"}, product : Product, active : BOOLEAN, sku : Sku, prices : Prices]
  \union [op : {"update"}, product : Product, active : {{}, {TRUE}, {FALSE}}]
  \union [op : {"sku"}, product : Product, sku : Sku, new : {TRUE}, stock : BOOLEAN, prices : Prices]
  \union [op : {"sku"}, product : Product, sku : Sku, new : {FALSE}, stock : {FALSE}, prices : Prices]
  \union [op : {"delete"}, product : Product]
  \union [op : {"get"}, product : Product]
NoCall == [op |-> "none"]

ASSUME CallsAssumption == Calls \subseteq Call

NoEvents == [UPSERT |-> 0, DELETE |-> 0]

(* SeedCatalogUseCase creates its products as CreateProductUseCase does: valid, with a SKU. *)
ASSUME SeedAssumption ==
  \A p \in Product : Valid(Seed[p]) /\ (Skus(Seed[p]) = {} => Seed[p] = Absent)

Init ==
  /\ row = Seed
  /\ stocked = [p \in Product |-> Skus(Seed[p])]
  /\ made = [p \in Product |-> Skus(Seed[p])]
  /\ cache = [p \in Product |-> Absent]
  /\ events = [p \in Product |-> IF Seed[p] = Absent THEN NoEvents ELSE [NoEvents EXCEPT !.UPSERT = 1]]
  /\ pc = [r \in Request |-> "idle"]
  /\ call = [r \in Request |-> NoCall]
  /\ seen = [r \in Request |-> Absent]
  /\ old = [r \in Request |-> {}]
  /\ asked = Seed
  /\ raced = {}
  /\ calls = 0
  /\ faults = 0

AtRest == {"idle", "done", "error"}
InFlight(r) == pc[r] \notin AtRest
Goto(r, at) == pc' = [pc EXCEPT ![r] = at]
Fault == faults < MaxFaults /\ faults' = faults + 1

(* The answer: that of a GET stays for who asked, a change is over. *)
Finish(r, at) ==
  LET got == call[r].op = "get" IN
    /\ Goto(r, IF got THEN at ELSE "idle")
    /\ call' = [call EXCEPT ![r] = IF got THEN @ ELSE NoCall]
    /\ seen' = [seen EXCEPT ![r] = IF got /\ at = "done" THEN @ ELSE Absent]
    /\ old' = [old EXCEPT ![r] = {}]

Changes(c) == c.op # "get"
Collides(c) ==
  \E q \in Request :
    InFlight(q) /\ call[q].product = c.product /\ (Changes(c) \/ Changes(call[q]))

(* randomUUID for the product of a create, and for the SKU of a create or of a new SKU. *)
NewIds(c) ==
  /\ c.op = "create" => made[c.product] = {}
  /\ c.op = "sku" => (c.sku \notin made[c.product]) = c.new
  /\ made' = IF c.op \in {"create", "sku"} THEN [made EXCEPT ![c.product] = @ \union {c.sku}] ELSE made

(* The route calls the use case.  A create begins without reading the product; one that is *)
(* not valid is refused and changes nothing.                                               *)
Receive(r, c) ==
  /\ pc[r] = "idle"
  /\ NewIds(c)
  /\ LET new == [WithSku(Absent, c.sku, c.prices) EXCEPT !.active = c.active]
     IN IF c.op = "create"
        THEN Valid(new) /\ seen' = [seen EXCEPT ![r] = new] /\ Goto(r, "saving")
        ELSE UNCHANGED seen /\ Goto(r, "lookup")
  /\ call' = [call EXCEPT ![r] = c]
  /\ raced' = IF Collides(c) THEN raced \union {c.product} ELSE raced
  /\ UNCHANGED <<rowVars, cache, old, faults>>

Send(r, c) ==
  /\ calls < MaxCalls /\ calls' = calls + 1
  /\ Receive(r, c)

Close(r) ==
  /\ pc[r] \in {"done", "error"}
  /\ Goto(r, "idle")
  /\ call' = [call EXCEPT ![r] = NoCall]
  /\ seen' = [seen EXCEPT ![r] = Absent]
  /\ old' = [old EXCEPT ![r] = {}]
  /\ UNCHANGED <<rowVars, made, cache, raced, calls, faults>>
--------------------------------------------------------------------------------
(* CachedProductRepository.findById. *)

(* What the use case makes of the product it found. *)
Edited(c, x) ==
  CASE c.op = "update" -> [x EXCEPT !.active = IF c.active = {} THEN @ ELSE TRUE \in c.active]
    [] c.op = "sku"    -> IF c.new \/ c.sku \in Skus(x) THEN WithSku(x, c.sku, c.prices) ELSE x
    [] OTHER           -> x

Found(r, x) ==
  LET y == Edited(call[r], x)
      edits == call[r].op # "get" /\ Valid(y)
  IN
    /\ Goto(r, IF edits THEN "saving" ELSE IF call[r].op = "get" THEN "done" ELSE "idle")
    /\ seen' = [seen EXCEPT ![r] = IF edits \/ call[r].op = "get" THEN y ELSE Absent]
    /\ call' = [call EXCEPT ![r] = IF edits \/ call[r].op = "get" THEN @ ELSE NoCall]

(* readCache: a failure is a miss. *)
Lookup(r) ==
  /\ pc[r] = "lookup"
  /\ IF cache[call[r].product] # Absent
     THEN Found(r, cache[call[r].product])
     ELSE Goto(r, "miss") /\ UNCHANGED <<call, seen>>
  /\ UNCHANGED <<rowVars, made, cache, old, raced, calls, faults>>

LookupFails(r) ==
  /\ pc[r] = "lookup" /\ Fault
  /\ Goto(r, "miss")
  /\ UNCHANGED <<rowVars, made, cache, call, seen, old, raced, calls>>

(* The inner findById. *)
Load(r) ==
  /\ pc[r] = "miss"
  /\ IF row[call[r].product] = Absent
     THEN Finish(r, "done")
     ELSE /\ seen' = [seen EXCEPT ![r] = row[call[r].product]]
          /\ Goto(r, "loaded")
          /\ UNCHANGED <<call, old>>
  /\ UNCHANGED <<rowVars, made, cache, raced, calls, faults>>

(* writeCache, whose failure is swallowed. *)
Fill(r) ==
  /\ pc[r] = "loaded"
  /\ \/ cache' = [cache EXCEPT ![call[r].product] = seen[r]] /\ UNCHANGED faults
     \/ Fault /\ UNCHANGED cache
  /\ Found(r, seen[r])
  /\ UNCHANGED <<rowVars, made, old, raced, calls>>

(* The TTL of the key. *)
Expire(p) ==
  /\ cache[p] # Absent
  /\ cache' = [cache EXCEPT ![p] = Absent]
  /\ UNCHANGED <<rowVars, made, requestVars, raced, calls, faults>>
--------------------------------------------------------------------------------
(* The transactions of PrismaProductRepository. *)

(* The findUnique of save, which takes no lock. *)
FindExisting(r) ==
  /\ pc[r] = "saving" /\ call[r].op \in {"create", "sku"}
  /\ old' = [old EXCEPT ![r] = Skus(row[call[r].product])]
  /\ Goto(r, "writing")
  /\ UNCHANGED <<rowVars, made, cache, call, seen, raced, calls, faults>>

(* save leaves the SKU rows that came after its findUnique. *)
Overwritten(r, x) ==
  [active |-> seen[r].active,
   prices |-> [s \in Sku |-> IF s \in Skus(seen[r]) THEN seen[r].prices[s]
                             ELSE IF s \in old[r] THEN {} ELSE x.prices[s]]]

(* Mutant: saveMetadata clears the SKUs it was not given. *)
WrittenBlindly(r, x) ==
  IF call[r].op = "delete" THEN Absent
  ELSE IF call[r].op = "update" THEN seen[r]
  ELSE [seen[r] EXCEPT !.prices = [s \in Sku |-> IF s = call[r].sku THEN @[s] ELSE {}]]

(* What the transaction of r makes of the row x. *)
Written(r, x) ==
  CASE call[r].op = "delete" -> Absent
    [] call[r].op = "update" -> [x EXCEPT !.active = seen[r].active]
    [] OTHER                 -> Overwritten(r, x)

Action(c) == IF c.op = "delete" THEN "DELETE" ELSE "UPSERT"

(* What one accepted edit asks of the product x. *)
Apply(r, x) ==
  CASE call[r].op = "create" -> seen[r]
    [] call[r].op = "delete" -> Absent
    [] OTHER                 -> Edited(call[r], x)

(* A row that is gone, or that is there although save found none, makes the transaction throw. *)
Writes(r) ==
  IF call[r].op \in {"create", "sku"} THEN pc[r] = "writing" ELSE pc[r] = "saving"
Throws(r) ==
  (row[call[r].product] # Absent) = (call[r].op \in {"create", "sku"} /\ old[r] = {})

Commit(r) ==
  LET p == call[r].product IN
    /\ InFlight(r) /\ Writes(r) /\ ~Throws(r)
    /\ row' = [row EXCEPT ![p] = Written(r, @)]
    /\ stocked' = [stocked EXCEPT ![p] = @ \intersect Skus(row'[p])]
    /\ events' = [events EXCEPT ![p][Action(call[r])] = @ + 1]
    /\ asked' = [asked EXCEPT ![p] = Apply(r, @)]
    /\ Goto(r, "committed")
    /\ seen' = [seen EXCEPT ![r] = Absent]
    /\ old' = [old EXCEPT ![r] = {}]
    /\ UNCHANGED <<made, cache, call, raced, calls, faults>>

CommitThrows(r) ==
  /\ InFlight(r) /\ Writes(r) /\ Throws(r)
  /\ Finish(r, "error")
  /\ UNCHANGED <<rowVars, made, cache, raced, calls, faults>>

AddsStock(c) == c.op = "create" \/ (c.op = "sku" /\ c.new /\ c.stock)

AfterCommit(r) ==
  IF AddsStock(call[r])
  THEN Goto(r, "stocking") /\ UNCHANGED <<call, seen, old>> ELSE Finish(r, "done")

(* Mutant: only save and delete evict. *)
EvictNotMetadata(r) ==
  /\ pc[r] = "committed"
  /\ AfterCommit(r)
  /\ \/ call[r].op # "update" /\ cache' = [cache EXCEPT ![call[r].product] = Absent] /\ UNCHANGED faults
     \/ call[r].op = "update" /\ UNCHANGED <<cache, faults>>
     \/ Fault /\ UNCHANGED cache
  /\ UNCHANGED <<rowVars, made, raced, calls>>

(* evict after the commit; its failure is swallowed. *)
Evict(r) ==
  /\ pc[r] = "committed"
  /\ AfterCommit(r)
  /\ \/ cache' = [cache EXCEPT ![call[r].product] = Absent] /\ UNCHANGED faults
     \/ Fault /\ UNCHANGED cache
  /\ UNCHANGED <<rowVars, made, raced, calls>>

(* upsertMany of the inventory, in a transaction of its own; it needs the SKU row. *)
AddStock(r) ==
  LET p == call[r].product IN
    /\ pc[r] = "stocking"
    /\ stocked' = IF call[r].sku \in Skus(row[p])
                  THEN [stocked EXCEPT ![p] = @ \union {call[r].sku}] ELSE stocked
    /\ Finish(r, "done")
    /\ UNCHANGED <<row, events, asked, made, cache, raced, calls, faults>>

(* The database or the process fails between two commands. *)
RequestFails(r) ==
  /\ InFlight(r) /\ Fault
  /\ Finish(r, "error")
  /\ UNCHANGED <<rowVars, made, cache, raced, calls>>

Serve(r) ==
  \/ Lookup(r) \/ Load(r) \/ Fill(r)
  \/ FindExisting(r) \/ Commit(r) \/ CommitThrows(r) \/ Evict(r) \/ AddStock(r)

CatalogStep ==
  \/ \E r \in Request : Serve(r) \/ LookupFails(r) \/ RequestFails(r)
  \/ \E p \in Product : Expire(p)

Next ==
  \/ \E r \in Request : (\E c \in Calls : Send(r, c)) \/ Close(r)
  \/ CatalogStep

Spec == Init /\ [][Next]_vars
--------------------------------------------------------------------------------
ProductValue == [active : BOOLEAN, prices : [Sku -> SUBSET Currency]]

(* Type correctness: every SKU of a row has a price in the default currency, only a SKU row *)
(* has stock, and a row is not empty.                                                       *)
TypeOK ==
  /\ row \in [Product -> ProductValue] /\ cache \in [Product -> ProductValue]
  /\ asked \in [Product -> ProductValue]
  /\ \A p \in Product :
       /\ Valid(row[p]) /\ (Skus(row[p]) = {} => row[p] = Absent)
       /\ stocked[p] \subseteq Skus(row[p]) /\ Skus(row[p]) \subseteq made[p]
  /\ made \in [Product -> SUBSET Sku]
  /\ events \in [Product -> [{"UPSERT", "DELETE"} -> Nat]]
  /\ pc \in [Request -> AtRest \union
               {"lookup", "miss", "loaded", "saving", "writing", "committed", "stocking"}]
  /\ call \in [Request -> Call \union {NoCall}]
  /\ seen \in [Request -> ProductValue] /\ old \in [Request -> SUBSET Sku]
  /\ raced \subseteq Product
  /\ calls \in 0..MaxCalls /\ faults \in 0..MaxFaults

(* Reading through the cache and writing the whole product back loses no edit, revives no     *)
(* deleted product and drops no SKU, as long as Redis answers and nothing else used the       *)
(* product while it was changed.  Even a GET may not overlap: it can fill the cache with what *)
(* the change has just replaced, and the next edit starts from there.                         *)
EditsAreKept == faults = 0 => \A p \in Product \ raced : row[p] = asked[p]
================================================================================
