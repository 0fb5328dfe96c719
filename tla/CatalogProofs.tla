----------------------------- MODULE CatalogProofs -----------------------------
(***************************************************************************)
(* Proofs about Catalog and Additions, for any products, requests and       *)
(* faults, and about SearchIndex, for any number of handlers and reindexes. *)
(*                                                                         *)
(* Every product a row, the cache or a request holds is a valid one with    *)
(* ids that have been given out (Good).  As long as Redis answers, and no   *)
(* request met a change of the product, the cache shows the row but for a   *)
(* change about to evict, and a request that will write has made its edit   *)
(* of the row as it still is (Kept).                                        *)
(*                                                                         *)
(* Whatever overlaps and fails, a SKU whose own addition met nobody is in   *)
(* every copy of its product that can still be written (Everywhere), so no *)
(* save drops its stock.                                                   *)
(*                                                                         *)
(* The alias names one index as long as no reindex meets another or a boot  *)
(* (Lone), and it never vanishes even if they do: the names it stands for   *)
(* and those that reindexes claim are more than the reindexes that claim    *)
(* them (Spare), so that one more can be deleted.                           *)
(*                                                                         *)
(* The index follows the catalog because a change of a row always leaves an *)
(* event: when nothing is left to tell (Quiet), what a handler has learnt   *)
(* (Followed) and what a reindex has gathered (Built) is still the truth.   *)
(***************************************************************************)
EXTENDS SearchIndex, Additions, FiniteSetTheorems, WellFoundedInduction, TLAPS

(* A product of the catalog: valid, with one SKU at least, and only SKUs that have an id. *)
Good(x, ids) ==
  /\ x \in ProductValue /\ Valid(x)
  /\ Skus(x) = {} => x = Absent
  /\ Skus(x) \subseteq ids

Flight == {"lookup", "miss", "loaded", "saving", "writing", "committed", "stocking"}
Holding == {"loaded", "saving", "writing"}

(* What the rows, the cache and the counters are. *)
RowsOK ==
  /\ row \in [Product -> ProductValue] /\ cache \in [Product -> ProductValue]
  /\ asked \in [Product -> ProductValue]
  /\ stocked \in [Product -> SUBSET Sku] /\ made \in [Product -> SUBSET Sku]
  /\ events \in [Product -> [{"UPSERT", "DELETE"} -> Nat]]
  /\ raced \subseteq Product
  /\ calls \in 0..MaxCalls /\ faults \in 0..MaxFaults
  /\ \A p \in Product : /\ Good(row[p], made[p]) /\ Good(cache[p], made[p])
                        /\ stocked[p] \subseteq Skus(row[p])

(* A request, its call, and the product it holds. *)
RequestOK(a, c, x, o) ==
  /\ a \in AtRest \union Flight
  /\ c \in Call \union {NoCall} /\ x \in ProductValue /\ o \in SUBSET Sku
  /\ a \in Flight => c \in Call
  /\ a \in {"saving", "writing", "committed", "stocking"} => c.op # "get"
  /\ a \in {"writing", "stocking"} => c.op \in {"create", "sku"}
  /\ a \in {"lookup", "miss", "loaded"} => c.op # "create"

(* Its ids have been given out, and the product it holds is a good one. *)
HoldsGood(ids, a, c, x) ==
  /\ a \in Flight /\ c.op \in {"create", "sku"} => c.sku \in ids[c.product]
  /\ a \in Holding => Good(x, ids[c.product]) /\ Skus(x) # {}

RequestsOK ==
  /\ pc \in [Request -> AtRest \union Flight] /\ call \in [Request -> Call \union {NoCall}]
  /\ seen \in [Request -> ProductValue] /\ old \in [Request -> SUBSET Sku]
  /\ \A r \in Request : /\ RequestOK(pc[r], call[r], seen[r], old[r])
                        /\ HoldsGood(made, pc[r], call[r], seen[r])

CatalogShape == RowsOK /\ RequestsOK
--------------------------------------------------------------------------------
LEMMA CallFacts ==
  ASSUME NEW c \in Call
  PROVE  /\ c.op \in {"create", "update", "sku", "delete", "get"} /\ c.product \in Product
         /\ c.op \in {"create", "sku"} => c.sku \in Sku /\ c.prices \in Prices
<1>1. CASE c \in [op : {"create"}, product : Product, active : BOOLEAN, sku : Sku, prices : Prices]
  BY <1>1
<1>2. CASE c \in [op : {"update"}, product : Product, active : {{}, {TRUE}, {FALSE}}]
  BY <1>2
<1>3. CASE c \in [op : {"sku"}, product : Product, sku : Sku, new : {TRUE}, stock : BOOLEAN, prices : Prices]
  BY <1>3
<1>4. CASE c \in [op : {"sku"}, product : Product, sku : Sku, new : {FALSE}, stock : {FALSE}, prices : Prices]
  BY <1>4
<1>5. CASE c \in [op : {"delete"}, product : Product]
  BY <1>5
<1>6. CASE c \in [op : {"get"}, product : Product]
  BY <1>6
<1> QED
  BY <1>1, <1>2, <1>3, <1>4, <1>5, <1>6 DEF Call

LEMMA AbsentFacts ==
  /\ Absent \in ProductValue /\ Valid(Absent) /\ Skus(Absent) = {}
  /\ \A ids : Good(Absent, ids)
<1> DEFINE none == [s \in Sku |-> {}]
<1>1. none \in [Sku -> SUBSET Currency] /\ \A s \in Sku : none[s] = {}
  OBVIOUS
<1>2. Absent = [active |-> FALSE, prices |-> none]
  BY DEF Absent
<1> HIDE DEF none
<1>3. Absent \in ProductValue /\ Absent.prices = none
  BY <1>1, <1>2 DEF ProductValue
<1>4. Skus(Absent) = {}
  BY <1>1, <1>3 DEF Skus
<1> QED
  BY <1>3, <1>4 DEF Valid, Good

LEMMA WithSkuFacts ==
  ASSUME NEW x \in ProductValue, NEW s \in Sku, NEW cs \in Prices
  PROVE  /\ WithSku(x, s, cs) \in ProductValue
         /\ WithSku(x, s, cs).active = x.active
         /\ Skus(WithSku(x, s, cs)) = Skus(x) \union {s}
<1>1. x.prices \in [Sku -> SUBSET Currency] /\ x = [active |-> x.active, prices |-> x.prices]
      /\ x.active \in BOOLEAN
  BY DEF ProductValue
<1>2. cs \in SUBSET Currency /\ cs # {}
  BY DEF Prices
<1> DEFINE f == [x.prices EXCEPT ![s] = cs]
<1>3. f \in [Sku -> SUBSET Currency] /\ f[s] = cs /\ \A u \in Sku : u # s => f[u] = x.prices[u]
  BY <1>1, <1>2
<1>4. WithSku(x, s, cs) = [x EXCEPT !.prices = f]
  BY <1>1 DEF WithSku
<1> HIDE DEF f
<1> DEFINE y == [x EXCEPT !.prices = f]
<1>5. y.active = x.active /\ y.prices = f /\ y \in ProductValue
  BY <1>1, <1>3 DEF ProductValue
<1> HIDE DEF y
<1>6. WithSku(x, s, cs) = y
  BY <1>4 DEF y
<1>7. \A u \in Sku : u \in Skus(y) <=> u \in Skus(x) \/ u = s
  BY <1>2, <1>3, <1>5 DEF Skus
<1>8. Skus(y) \subseteq Sku /\ Skus(x) \subseteq Sku
  BY DEF Skus
<1> QED
  BY <1>5, <1>6, <1>7, <1>8

(* An edit of a product is one of the same product, with the SKUs it had. *)
LEMMA EditedFacts ==
  ASSUME NEW c \in Call, NEW x \in ProductValue
  PROVE  /\ Edited(c, x) \in ProductValue
         /\ Skus(x) \subseteq Skus(Edited(c, x))
         /\ Skus(Edited(c, x)) \subseteq Skus(x) \union (IF c.op = "sku" THEN {c.sku} ELSE {})
         /\ c.op = "update" => Edited(c, x).prices = x.prices
         /\ c.op # "sku" => Skus(Edited(c, x)) = Skus(x)
<1>1. CASE c.op = "update"
  <2>1. x.active \in BOOLEAN /\ x.prices \in [Sku -> SUBSET Currency]
    BY DEF ProductValue
  <2> DEFINE b == TRUE \in c.active
             a == IF c.active = {} THEN x.active ELSE b
  <2>2. b \in BOOLEAN
    OBVIOUS
  <2>3. Edited(c, x) = [x EXCEPT !.active = a]
    BY <1>1 DEF Edited
  <2> HIDE DEF b
  <2>4. a \in BOOLEAN
    BY <2>1, <2>2
  <2> HIDE DEF a
  <2> DEFINE y == [x EXCEPT !.active = a]
  <2>5. y \in ProductValue /\ y.prices = x.prices
    BY <2>1, <2>4 DEF ProductValue
  <2> HIDE DEF y
  <2>6. Edited(c, x) = y
    BY <2>3 DEF y
  <2>7. Skus(y) = Skus(x)
    BY <2>5 DEF Skus
  <2> QED
    BY <1>1, <2>5, <2>6, <2>7
<1>2. CASE c.op = "sku"
  <2>1. Edited(c, x) = IF c.new \/ c.sku \in Skus(x) THEN WithSku(x, c.sku, c.prices) ELSE x
    BY <1>2 DEF Edited
  <2>2. c.sku \in Sku /\ c.prices \in Prices
    BY <1>2, CallFacts
  <2>3. CASE c.new \/ c.sku \in Skus(x)
    <3>1. Edited(c, x) = WithSku(x, c.sku, c.prices)
      BY <2>1, <2>3
    <3> QED
      BY <1>2, <2>2, <3>1, WithSkuFacts
  <2>4. CASE ~(c.new \/ c.sku \in Skus(x))
    BY <1>2, <2>1, <2>4
  <2> QED
    BY <2>3, <2>4
<1>3. CASE c.op \notin {"update", "sku"}
  BY <1>3 DEF Edited
<1> QED
  BY <1>1, <1>2, <1>3

LEMMA EditedIsGood ==
  ASSUME NEW c \in Call, NEW ids, NEW x, Good(x, ids), Skus(x) # {}, c.op = "sku" => c.sku \in ids,
         Valid(Edited(c, x))
  PROVE  Good(Edited(c, x), ids) /\ Skus(Edited(c, x)) # {}
BY EditedFacts DEF Good

LEMMA GoodGrows == ASSUME NEW x, NEW ids, NEW more, Good(x, ids), ids \subseteq more PROVE Good(x, more)
BY DEF Good

(* One request goes on. *)
LEMMA RequestGoesOn ==
  ASSUME RequestsOK, NEW r \in Request, NEW a, NEW c, NEW x, NEW o,
         RequestOK(a, c, x, o), HoldsGood(made', a, c, x),
         pc' = [pc EXCEPT ![r] = a], call' = [call EXCEPT ![r] = c],
         seen' = [seen EXCEPT ![r] = x], old' = [old EXCEPT ![r] = o],
         \A p \in Product : made[p] \subseteq made'[p]
  PROVE  RequestsOK'
<1>1. /\ pc' \in [Request -> AtRest \union Flight] /\ call' \in [Request -> Call \union {NoCall}]
      /\ seen' \in [Request -> ProductValue] /\ old' \in [Request -> SUBSET Sku]
  BY DEF RequestsOK, RequestOK
<1>2. ASSUME NEW q \in Request
      PROVE  RequestOK(pc'[q], call'[q], seen'[q], old'[q]) /\ HoldsGood(made', pc'[q], call'[q], seen'[q])
  <2>1. CASE q = r
    BY <2>1 DEF RequestsOK
  <2>2. CASE q # r
    <3>1. /\ pc'[q] = pc[q] /\ call'[q] = call[q] /\ seen'[q] = seen[q] /\ old'[q] = old[q]
          /\ RequestOK(pc[q], call[q], seen[q], old[q]) /\ HoldsGood(made, pc[q], call[q], seen[q])
      BY <2>2 DEF RequestsOK
    <3>2. pc[q] \in Flight => made[call[q].product] \subseteq made'[call[q].product]
      BY <3>1, CallFacts DEF RequestOK
    <3>3. HoldsGood(made', pc[q], call[q], seen[q])
      BY <3>1, <3>2, GoodGrows DEF HoldsGood, Flight, Holding
    <3> QED
      BY <3>1, <3>3
  <2> QED
    BY <2>1, <2>2
<1> QED
  BY <1>1, <1>2 DEF RequestsOK

(* A request at rest holds nothing that matters. *)
LEMMA AtRestIsFine ==
  ASSUME NEW a \in AtRest, NEW c \in Call \union {NoCall}, NEW x \in ProductValue, NEW ids
  PROVE  RequestOK(a, c, x, {}) /\ HoldsGood(ids, a, c, x)
BY DEF RequestOK, HoldsGood, AtRest, Flight, Holding

LEMMA FinishIsFine ==
  ASSUME RequestsOK, NEW r \in Request, NEW a \in {"done", "error"}, Finish(r, a), made' = made
  PROVE  RequestsOK'
<1> DEFINE reads == call[r].op = "get"
           a2 == IF reads THEN a ELSE "idle"
           c2 == IF reads THEN call[r] ELSE NoCall
           x2 == IF reads /\ a = "done" THEN seen[r] ELSE Absent
<1>1. /\ pc' = [pc EXCEPT ![r] = a2] /\ call' = [call EXCEPT ![r] = c2]
      /\ seen' = [seen EXCEPT ![r] = x2] /\ old' = [old EXCEPT ![r] = {}]
  BY DEF Finish, Goto
<1>2. a2 \in AtRest /\ c2 \in Call \union {NoCall} /\ x2 \in ProductValue
  BY AbsentFacts DEF AtRest, RequestsOK
<1> HIDE DEF a2, c2, x2
<1> QED
  BY <1>1, <1>2, AtRestIsFine, RequestGoesOn

(* The use case goes on with the product it found. *)
LEMMA FoundIsFine ==
  ASSUME RequestsOK, NEW r \in Request, pc[r] \in {"lookup", "loaded"},
         NEW x, Good(x, made[call[r].product]), Skus(x) # {},
         Found(r, x), old' = old, made' = made
  PROVE  RequestsOK'
<1> DEFINE y == Edited(call[r], x)
           edits == call[r].op # "get" /\ Valid(y)
           a2 == IF edits THEN "saving" ELSE IF call[r].op = "get" THEN "done" ELSE "idle"
           c2 == IF edits \/ call[r].op = "get" THEN call[r] ELSE NoCall
           x2 == IF edits \/ call[r].op = "get" THEN y ELSE Absent
<1>1. /\ pc' = [pc EXCEPT ![r] = a2] /\ call' = [call EXCEPT ![r] = c2] /\ seen' = [seen EXCEPT ![r] = x2]
  BY DEF Found, Goto
<1>2. old' = [old EXCEPT ![r] = old[r]] /\ old[r] \in SUBSET Sku
  BY DEF RequestsOK
<1>3. /\ call[r] \in Call /\ call[r].op # "create"
      /\ call[r].op \in {"create", "sku"} => call[r].sku \in made[call[r].product]
  BY DEF RequestsOK, RequestOK, HoldsGood, Flight
<1>4. x \in ProductValue /\ y \in ProductValue /\ x2 \in ProductValue
  BY <1>3, EditedFacts, AbsentFacts DEF Good
<1>5. edits => Good(y, made[call[r].product]) /\ Skus(y) # {}
  BY <1>3, EditedIsGood
<1> HIDE DEF y
<1>6. RequestOK(a2, c2, x2, old[r])
  BY <1>2, <1>3, <1>4 DEF RequestOK, AtRest, Flight
<1>7. HoldsGood(made', a2, c2, x2)
  BY <1>3, <1>5 DEF HoldsGood, Flight, Holding
<1> HIDE DEF edits, a2, c2, x2
<1> QED
  BY <1>1, <1>2, <1>6, <1>7, RequestGoesOn

LEMMA RowsStay ==
  ASSUME RowsOK, UNCHANGED <<row, stocked, asked, made, events, raced, calls>>,
         cache' = cache \/ \E p \in Product, x \in ProductValue :
                             Good(x, made[p]) /\ cache' = [cache EXCEPT ![p] = x],
         faults' = faults \/ Fault
  PROVE  RowsOK'
<1>1. faults' \in 0..MaxFaults
  BY CatalogAssumption DEF RowsOK, Fault
<1>2. cache' \in [Product -> ProductValue] /\ \A p \in Product : Good(cache'[p], made'[p])
  BY DEF RowsOK
<1> QED
  BY <1>1, <1>2 DEF RowsOK

(* The product of a request, and the row and the entry it has. *)
LEMMA ProductOfRequest ==
  ASSUME RowsOK, RequestsOK, NEW r \in Request, pc[r] \in Flight
  PROVE  /\ call[r] \in Call /\ call[r].product \in Product
         /\ Good(row[call[r].product], made[call[r].product])
         /\ Good(cache[call[r].product], made[call[r].product])
         /\ row[call[r].product] # Absent => Skus(row[call[r].product]) # {}
         /\ cache[call[r].product] # Absent => Skus(cache[call[r].product]) # {}
<1>1. call[r] \in Call
  BY DEF RequestsOK, RequestOK
<1> QED
  BY <1>1, CallFacts DEF RowsOK, Good

LEMMA LookupShape ==
  ASSUME CatalogShape, NEW r \in Request, Lookup(r) \/ LookupFails(r)
  PROVE  CatalogShape'
<1> USE DEF CatalogShape
<1>1. RowsOK'
  BY RowsStay DEF Lookup, LookupFails, rowVars
<1>2. pc[r] = "lookup" /\ pc[r] \in Flight /\ made' = made /\ old' = old
  BY DEF Lookup, LookupFails, Flight
<1>3. CASE pc' = [pc EXCEPT ![r] = "miss"] /\ UNCHANGED <<call, seen>>
  <2>1. /\ call' = [call EXCEPT ![r] = call[r]] /\ seen' = [seen EXCEPT ![r] = seen[r]]
        /\ old' = [old EXCEPT ![r] = old[r]] /\ pc' = [pc EXCEPT ![r] = "miss"]
    BY <1>2, <1>3 DEF RequestsOK
  <2>2. RequestOK("miss", call[r], seen[r], old[r]) /\ HoldsGood(made', "miss", call[r], seen[r])
    BY <1>2 DEF RequestsOK, RequestOK, HoldsGood, Flight, Holding
  <2> QED
    BY <1>1, <1>2, <2>1, <2>2, RequestGoesOn
<1>4. CASE cache[call[r].product] # Absent /\ Found(r, cache[call[r].product])
  BY <1>1, <1>2, <1>4, ProductOfRequest, FoundIsFine
<1> QED
  BY <1>3, <1>4 DEF Lookup, LookupFails, Goto

LEMMA LoadShape ==
  ASSUME CatalogShape, NEW r \in Request, Load(r)
  PROVE  CatalogShape'
<1> USE DEF CatalogShape
<1> DEFINE p == call[r].product
<1>1. RowsOK'
  BY RowsStay DEF Load, rowVars
<1>2. pc[r] = "miss" /\ pc[r] \in Flight /\ made' = made
  BY DEF Load, Flight
<1>3. CASE row[p] = Absent
  BY <1>1, <1>2, <1>3, FinishIsFine DEF Load
<1>4. CASE row[p] # Absent
  <2>1. /\ seen' = [seen EXCEPT ![r] = row[p]] /\ pc' = [pc EXCEPT ![r] = "loaded"]
        /\ call' = [call EXCEPT ![r] = call[r]] /\ old' = [old EXCEPT ![r] = old[r]]
    BY <1>4 DEF Load, Goto, RequestsOK
  <2>2. row[p] \in ProductValue /\ Good(row[p], made[p]) /\ Skus(row[p]) # {} /\ call[r] \in Call
    BY <1>2, <1>4, ProductOfRequest DEF Good
  <2>3. RequestOK("loaded", call[r], row[p], old[r]) /\ HoldsGood(made', "loaded", call[r], row[p])
    BY <1>2, <2>2 DEF RequestsOK, RequestOK, HoldsGood, Flight, Holding
  <2> QED
    BY <1>1, <1>2, <2>1, <2>3, RequestGoesOn
<1> QED
  BY <1>3, <1>4

LEMMA FillShape ==
  ASSUME CatalogShape, NEW r \in Request, Fill(r)
  PROVE  CatalogShape'
<1> USE DEF CatalogShape
<1>1. pc[r] = "loaded" /\ pc[r] \in Flight /\ made' = made /\ old' = old /\ Found(r, seen[r])
  BY DEF Fill, Flight
<1>2. /\ Good(seen[r], made[call[r].product]) /\ Skus(seen[r]) # {} /\ seen[r] \in ProductValue
      /\ call[r].product \in Product
  BY <1>1, ProductOfRequest DEF RequestsOK, HoldsGood, Holding
<1>3. RowsOK'
  BY <1>2, RowsStay DEF Fill, rowVars
<1> QED
  BY <1>1, <1>2, <1>3, FoundIsFine

LEMMA FindExistingShape ==
  ASSUME CatalogShape, NEW r \in Request, FindExisting(r)
  PROVE  CatalogShape'
<1> USE DEF CatalogShape
<1> DEFINE o == Skus(row[call[r].product])
<1>1. RowsOK'
  BY RowsStay DEF FindExisting, rowVars
<1>2. pc[r] = "saving" /\ pc[r] \in Flight /\ made' = made /\ call[r].op \in {"create", "sku"}
  BY DEF FindExisting, Flight
<1>3. /\ pc' = [pc EXCEPT ![r] = "writing"] /\ call' = [call EXCEPT ![r] = call[r]]
      /\ seen' = [seen EXCEPT ![r] = seen[r]] /\ old' = [old EXCEPT ![r] = o]
  BY DEF FindExisting, Goto, RequestsOK
<1>4. o \in SUBSET Sku
  BY DEF Skus
<1> HIDE DEF o
<1>5. RequestOK("writing", call[r], seen[r], o) /\ HoldsGood(made', "writing", call[r], seen[r])
  BY <1>2, <1>4 DEF RequestsOK, RequestOK, HoldsGood, Flight, Holding
<1> QED
  BY <1>1, <1>2, <1>3, <1>5, RequestGoesOn

(* What save writes: the product as the request holds it, and SKUs that came after findUnique. *)
LEMMA OverwrittenFacts ==
  ASSUME NEW r \in Request, NEW x \in ProductValue, NEW ids, Good(x, ids),
         Good(seen[r], ids), Skus(seen[r]) # {}
  PROVE  /\ Good(Overwritten(r, x), ids)
         /\ Skus(seen[r]) \subseteq Skus(Overwritten(r, x))
<1> DEFINE f == [s \in Sku |-> IF s \in Skus(seen[r]) THEN seen[r].prices[s]
                               ELSE IF s \in old[r] THEN {} ELSE x.prices[s]]
           y == [active |-> seen[r].active, prices |-> f]
<1>1. /\ seen[r].prices \in [Sku -> SUBSET Currency] /\ x.prices \in [Sku -> SUBSET Currency]
      /\ seen[r].active \in BOOLEAN
  BY DEF Good, ProductValue
<1>2. f \in [Sku -> SUBSET Currency] /\ \A s \in Sku : f[s] \in {seen[r].prices[s], x.prices[s], {}}
  BY <1>1
<1>3. \A s \in Skus(seen[r]) : f[s] = seen[r].prices[s]
  BY DEF Skus
<1> HIDE DEF f
<1>4. y \in ProductValue /\ y.prices = f
  BY <1>1, <1>2 DEF ProductValue
<1>5. Overwritten(r, x) = y
  BY DEF Overwritten, f
<1> HIDE DEF y
<1>6. Skus(seen[r]) \subseteq Skus(y)
  BY <1>3, <1>4 DEF Skus
<1>7. Valid(y)
  <2> SUFFICES ASSUME NEW s \in Skus(y) PROVE Default \in f[s]
    BY <1>4 DEF Valid
  <2>1. s \in Sku /\ f[s] # {}
    BY <1>4 DEF Skus
  <2>2. f[s] = seen[r].prices[s] => Default \in f[s]
    BY <2>1 DEF Good, Valid, Skus
  <2>3. f[s] = x.prices[s] => Default \in f[s]
    BY <2>1 DEF Good, Valid, Skus
  <2> QED
    BY <1>2, <2>1, <2>2, <2>3
<1>8. Skus(y) \subseteq ids
  BY <1>2, <1>4 DEF Skus, Good
<1> QED
  BY <1>4, <1>5, <1>6, <1>7, <1>8 DEF Good

(* What a transaction makes of the row. *)
LEMMA WrittenIsGood ==
  ASSUME CatalogShape, NEW r \in Request, pc[r] \in Flight, Writes(r), ~Throws(r)
  PROVE  LET p == call[r].product IN Good(Written(r, row[p]), made[p])
<1> DEFINE p == call[r].product
           x == row[p]
<1>1. /\ call[r] \in Call /\ p \in Product /\ Good(x, made[p]) /\ x \in ProductValue
      /\ x # Absent => Skus(x) # {}
  BY ProductOfRequest DEF CatalogShape, Good
<1>2. Good(seen[r], made[p]) /\ Skus(seen[r]) # {}
  BY DEF CatalogShape, RequestsOK, RequestOK, HoldsGood, Writes, Holding
<1>3. CASE call[r].op = "delete"
  BY <1>3, AbsentFacts DEF Written
<1>4. CASE call[r].op = "update"
  <2> DEFINE a == seen[r].active
             y == [x EXCEPT !.active = a]
  <2>1. a \in BOOLEAN /\ x.prices \in [Sku -> SUBSET Currency]
    BY <1>1, <1>2 DEF Good, ProductValue
  <2> HIDE DEF a
  <2>2. y \in ProductValue /\ y.prices = x.prices
    BY <1>1, <2>1 DEF ProductValue
  <2> HIDE DEF y
  <2>3. Skus(y) = Skus(x) /\ (Valid(x) => Valid(y))
    BY <2>2 DEF Skus, Valid
  <2>4. x # Absent
    BY <1>4 DEF Throws
  <2>5. Written(r, x) = y
    BY <1>4 DEF Written, y, a
  <2> QED
    BY <1>1, <2>2, <2>3, <2>4, <2>5 DEF Good
<1>5. CASE call[r].op \notin {"delete", "update"}
  <2>1. Written(r, x) = Overwritten(r, x)
    BY <1>5 DEF Written
  <2> QED
    BY <1>1, <1>2, <2>1, OverwrittenFacts
<1> QED
  BY <1>3, <1>4, <1>5

LEMMA CommitShape ==
  ASSUME CatalogShape, NEW r \in Request, Commit(r)
  PROVE  CatalogShape'
<1> USE DEF CatalogShape
<1> DEFINE p == call[r].product
           y == Written(r, row[p])
           z == Apply(r, asked[p])
           e == [events[p] EXCEPT ![Action(call[r])] = @ + 1]
<1>1. /\ pc[r] \in Flight /\ pc[r] \in {"saving", "writing"} /\ Writes(r) /\ ~Throws(r)
      /\ made' = made /\ call[r] \in Call /\ p \in Product
  <2>1. pc[r] \in {"saving", "writing"} /\ pc[r] \in Flight
    BY DEF Commit, Writes, Flight
  <2> QED
    BY <2>1, ProductOfRequest DEF Commit
<1>2. Good(y, made[p]) /\ y \in ProductValue
  BY <1>1, WrittenIsGood DEF Good
<1>3. z \in ProductValue
  BY <1>1, EditedFacts, AbsentFacts DEF Apply, RowsOK, RequestsOK
<1>4. e \in [{"UPSERT", "DELETE"} -> Nat]
  BY <1>1 DEF RowsOK, Action
<1>5. /\ row' = [row EXCEPT ![p] = y] /\ asked' = [asked EXCEPT ![p] = z]
      /\ events' = [events EXCEPT ![p] = e]
      /\ stocked' = [stocked EXCEPT ![p] = stocked[p] \intersect Skus(row'[p])]
      /\ UNCHANGED <<made, cache, raced, calls, faults>>
  BY DEF Commit
<1> HIDE DEF y, z, e
<1>6. /\ row' \in [Product -> ProductValue] /\ asked' \in [Product -> ProductValue]
      /\ events' \in [Product -> [{"UPSERT", "DELETE"} -> Nat]]
      /\ stocked' \in [Product -> SUBSET Sku]
  BY <1>1, <1>2, <1>3, <1>4, <1>5 DEF RowsOK
<1>7. \A q \in Product : Good(row'[q], made'[q]) /\ stocked'[q] \subseteq Skus(row'[q])
  BY <1>1, <1>2, <1>5 DEF RowsOK
<1>8. RowsOK'
  BY <1>5, <1>6, <1>7 DEF RowsOK
<1>9. /\ pc' = [pc EXCEPT ![r] = "committed"] /\ call' = [call EXCEPT ![r] = call[r]]
      /\ seen' = [seen EXCEPT ![r] = Absent] /\ old' = [old EXCEPT ![r] = {}]
  BY DEF Commit, Goto, RequestsOK
<1>10. RequestOK("committed", call[r], Absent, {}) /\ HoldsGood(made', "committed", call[r], Absent)
  BY <1>1, AbsentFacts DEF RequestsOK, RequestOK, HoldsGood, Flight, Holding
<1> QED
  BY <1>1, <1>8, <1>9, <1>10, RequestGoesOn

LEMMA EndsShape ==
  ASSUME CatalogShape, NEW r \in Request, CommitThrows(r) \/ RequestFails(r)
  PROVE  CatalogShape'
<1>1. RowsOK'
  BY RowsStay DEF CommitThrows, RequestFails, rowVars, CatalogShape
<1> QED
  BY <1>1, FinishIsFine DEF CommitThrows, RequestFails, CatalogShape

LEMMA EvictShape ==
  ASSUME CatalogShape, NEW r \in Request, Evict(r)
  PROVE  CatalogShape'
<1> USE DEF CatalogShape
<1>1. pc[r] = "committed" /\ pc[r] \in Flight /\ made' = made /\ call[r].product \in Product
  BY ProductOfRequest DEF Evict, Flight
<1>2. RowsOK'
  <2>1. \/ cache' = [cache EXCEPT ![call[r].product] = Absent] /\ UNCHANGED faults
        \/ Fault /\ UNCHANGED cache
    BY DEF Evict
  <2>2. UNCHANGED <<row, stocked, asked, made, events, raced, calls>>
    BY DEF Evict, rowVars
  <2> QED
    BY <1>1, <2>1, <2>2, AbsentFacts, RowsStay
<1>3. CASE AddsStock(call[r])
  <2>1. /\ pc' = [pc EXCEPT ![r] = "stocking"] /\ call' = [call EXCEPT ![r] = call[r]]
        /\ seen' = [seen EXCEPT ![r] = seen[r]] /\ old' = [old EXCEPT ![r] = old[r]]
    BY <1>3 DEF Evict, AfterCommit, Goto, RequestsOK
  <2>2. RequestOK("stocking", call[r], seen[r], old[r]) /\ HoldsGood(made', "stocking", call[r], seen[r])
    BY <1>1, <1>3 DEF AddsStock, RequestsOK, RequestOK, HoldsGood, Flight, Holding
  <2> QED
    BY <1>1, <1>2, <2>1, <2>2, RequestGoesOn
<1>4. CASE ~AddsStock(call[r])
  <2>1. Finish(r, "done")
    BY <1>4 DEF Evict, AfterCommit
  <2> QED
    BY <1>1, <1>2, <2>1, FinishIsFine
<1> QED
  BY <1>3, <1>4

LEMMA AddStockShape ==
  ASSUME CatalogShape, NEW r \in Request, AddStock(r)
  PROVE  CatalogShape'
<1> DEFINE p == call[r].product
<1>1. UNCHANGED <<row, events, asked, made, cache, raced, calls, faults>> /\ Finish(r, "done")
  BY DEF AddStock
<1>2. call[r].sku \in Skus(row[p]) => call[r].sku \in Sku
  BY DEF Skus
<1>3. stocked' = stocked \/ (call[r].sku \in Skus(row[p])
                             /\ stocked' = [stocked EXCEPT ![p] = @ \union {call[r].sku}])
  BY DEF AddStock
<1>4. /\ stocked' \in [Product -> SUBSET Sku]
      /\ \A q \in Product : stocked'[q] \subseteq Skus(row[q])
  <2>1. /\ stocked \in [Product -> SUBSET Sku]
        /\ \A q \in Product : stocked[q] \subseteq Skus(row[q])
    BY DEF RowsOK, CatalogShape
  <2>2. CASE stocked' = stocked
    BY <2>1, <2>2
  <2>3. CASE /\ call[r].sku \in Skus(row[p])
             /\ stocked' = [stocked EXCEPT ![p] = @ \union {call[r].sku}]
    BY <1>2, <2>1, <2>3
  <2> QED
    BY <1>3, <2>2, <2>3
<1>5. RowsOK'
  BY <1>1, <1>4 DEF RowsOK, CatalogShape
<1> QED
  BY <1>1, <1>5, FinishIsFine DEF CatalogShape

LEMMA CloseShape ==
  ASSUME CatalogShape, NEW r \in Request, Close(r)
  PROVE  CatalogShape'
<1>1. RowsOK' /\ made' = made
  BY RowsStay DEF Close, rowVars, CatalogShape
<1>2. /\ pc' = [pc EXCEPT ![r] = "idle"] /\ call' = [call EXCEPT ![r] = NoCall]
      /\ seen' = [seen EXCEPT ![r] = Absent] /\ old' = [old EXCEPT ![r] = {}]
  BY DEF Close, Goto
<1>3. RequestOK("idle", NoCall, Absent, {}) /\ HoldsGood(made', "idle", NoCall, Absent)
  BY AbsentFacts, AtRestIsFine DEF AtRest
<1> QED
  BY <1>1, <1>2, <1>3, RequestGoesOn DEF CatalogShape

LEMMA ExpireShape ==
  ASSUME CatalogShape, NEW p \in Product, Expire(p)
  PROVE  CatalogShape'
<1>1. cache' = [cache EXCEPT ![p] = Absent] /\ UNCHANGED <<row, stocked, asked, made, events, raced, calls, faults>>
  BY DEF Expire, rowVars
<1>2. RowsOK'
  BY <1>1, AbsentFacts, RowsStay DEF CatalogShape
<1>3. RequestsOK'
  BY DEF Expire, requestVars, RequestsOK, CatalogShape
<1> QED
  BY <1>2, <1>3 DEF CatalogShape

(* A create begins with the product it will insert. *)
LEMMA NewIsGood ==
  ASSUME NEW c \in Call, c.op = "create", NEW ids, c.sku \in ids
  PROVE  LET new == [WithSku(Absent, c.sku, c.prices) EXCEPT !.active = c.active]
         IN  /\ new \in ProductValue /\ Skus(new) = {c.sku}
             /\ Valid(new) => Good(new, ids)
<1> DEFINE w == WithSku(Absent, c.sku, c.prices)
           a == c.active
           y == [w EXCEPT !.active = a]
<1>1. a \in BOOLEAN
  BY DEF Call
<1>2. w \in ProductValue /\ Skus(w) = {c.sku}
  BY CallFacts, AbsentFacts, WithSkuFacts
<1>3. w.prices \in [Sku -> SUBSET Currency]
  BY <1>2 DEF ProductValue
<1> HIDE DEF a, w
<1>4. y \in ProductValue /\ y.prices = w.prices
  BY <1>1, <1>2, <1>3 DEF ProductValue
<1> HIDE DEF y
<1>5. Skus(y) = {c.sku}
  BY <1>2, <1>4 DEF Skus
<1>6. y = [WithSku(Absent, c.sku, c.prices) EXCEPT !.active = c.active]
  BY DEF y, w, a
<1> QED
  BY <1>4, <1>5, <1>6 DEF Good

LEMMA SendShape ==
  ASSUME CatalogShape, NEW r \in Request, NEW c \in Calls, Send(r, c)
  PROVE  CatalogShape'
<1> USE DEF CatalogShape
<1> DEFINE new == [WithSku(Absent, c.sku, c.prices) EXCEPT !.active = c.active]
           a == IF c.op = "create" THEN "saving" ELSE "lookup"
           x == IF c.op = "create" THEN new ELSE seen[r]
<1>1. c \in Call /\ c.product \in Product
  BY CallsAssumption, CallFacts
<1>2. Receive(r, c) /\ calls' \in 0..MaxCalls
  BY CatalogAssumption DEF Send, RowsOK
<1>3. made' \in [Product -> SUBSET Sku] /\ \A p \in Product : made[p] \subseteq made'[p]
  <2>1. c.op \in {"create", "sku"} => c.sku \in Sku
    BY <1>1, CallFacts
  <2> QED
    BY <1>1, <1>2, <2>1 DEF Receive, NewIds, RowsOK
<1>4. c.op \in {"create", "sku"} => c.sku \in made'[c.product]
  BY <1>1, <1>2 DEF Receive, NewIds, RowsOK
<1>5. raced' \subseteq Product
  BY <1>1, <1>2 DEF Receive, RowsOK
<1>6. RowsOK'
  <2>1. UNCHANGED <<row, stocked, events, asked, cache, faults>>
    BY <1>2 DEF Receive, rowVars
  <2> QED
    BY <1>2, <1>3, <1>5, <2>1, GoodGrows DEF RowsOK
<1>7. c.op = "create" => new \in ProductValue /\ Good(new, made'[c.product]) /\ Skus(new) # {}
  <2>1. c.op = "create" => Valid(new)
    BY <1>2 DEF Receive
  <2> HIDE DEF new
  <2> QED
    BY <1>1, <1>4, <2>1, NewIsGood DEF new
<1>8. /\ pc' = [pc EXCEPT ![r] = a] /\ call' = [call EXCEPT ![r] = c]
      /\ seen' = [seen EXCEPT ![r] = x] /\ old' = [old EXCEPT ![r] = old[r]]
  BY <1>2 DEF Receive, Goto, RequestsOK
<1> HIDE DEF new
<1>9. RequestOK(a, c, x, old[r]) /\ HoldsGood(made', a, c, x)
  BY <1>1, <1>4, <1>7 DEF RequestsOK, RequestOK, HoldsGood, Flight, Holding
<1> HIDE DEF a, x
<1> QED
  BY <1>1, <1>3, <1>6, <1>8, <1>9, RequestGoesOn

(* The steps of Catalog, one by one. *)
LEMMA StepsOfCatalog ==
  ASSUME [Next]_vars
  PROVE  \/ UNCHANGED vars
         \/ \E r \in Request, c \in Calls : Send(r, c)
         \/ \E r \in Request : \/ Close(r) \/ Lookup(r) \/ LookupFails(r) \/ Load(r) \/ Fill(r)
                               \/ FindExisting(r) \/ Commit(r) \/ CommitThrows(r) \/ Evict(r)
                               \/ AddStock(r) \/ RequestFails(r)
         \/ \E p \in Product : Expire(p)
BY DEF Next, CatalogStep, Serve

LEMMA ShapeStep == CatalogShape /\ [Next]_vars => CatalogShape'
<1> SUFFICES ASSUME CatalogShape, [Next]_vars PROVE CatalogShape'
  OBVIOUS
<1>1. CASE UNCHANGED vars
  BY <1>1 DEF CatalogShape, RowsOK, RequestsOK, vars, rowVars, requestVars
<1>2. ASSUME NEW r \in Request, NEW c \in Calls, Send(r, c) PROVE CatalogShape'
  BY <1>2, SendShape
<1>3. ASSUME NEW r \in Request, Close(r) PROVE CatalogShape'
  BY <1>3, CloseShape
<1>4. ASSUME NEW r \in Request, Lookup(r) \/ LookupFails(r) PROVE CatalogShape'
  BY <1>4, LookupShape
<1>5. ASSUME NEW r \in Request, Load(r) PROVE CatalogShape'
  BY <1>5, LoadShape
<1>6. ASSUME NEW r \in Request, Fill(r) PROVE CatalogShape'
  BY <1>6, FillShape
<1>7. ASSUME NEW r \in Request, FindExisting(r) PROVE CatalogShape'
  BY <1>7, FindExistingShape
<1>8. ASSUME NEW r \in Request, Commit(r) PROVE CatalogShape'
  BY <1>8, CommitShape
<1>9. ASSUME NEW r \in Request, CommitThrows(r) \/ RequestFails(r) PROVE CatalogShape'
  BY <1>9, EndsShape
<1>10. ASSUME NEW r \in Request, Evict(r) PROVE CatalogShape'
  BY <1>10, EvictShape
<1>11. ASSUME NEW r \in Request, AddStock(r) PROVE CatalogShape'
  BY <1>11, AddStockShape
<1>12. ASSUME NEW p \in Product, Expire(p) PROVE CatalogShape'
  BY <1>12, ExpireShape
<1> QED
  BY <1>1, <1>2, <1>3, <1>4, <1>5, <1>6, <1>7, <1>8, <1>9, <1>10, <1>11, <1>12, StepsOfCatalog

LEMMA ShapeInit == Init => CatalogShape
<1> SUFFICES ASSUME Init PROVE CatalogShape
  OBVIOUS
<1> USE DEF Init
<1>1. /\ row \in [Product -> ProductValue] /\ asked \in [Product -> ProductValue]
      /\ cache \in [Product -> ProductValue]
  BY CatalogAssumption, AbsentFacts DEF ProductValue
<1>2. \A p \in Product : Skus(Seed[p]) \in SUBSET Sku
  BY DEF Skus
<1>3. stocked \in [Product -> SUBSET Sku] /\ made \in [Product -> SUBSET Sku]
  BY <1>2
<1>4. events \in [Product -> [{"UPSERT", "DELETE"} -> Nat]]
  <2>1. NoEvents \in [{"UPSERT", "DELETE"} -> Nat]
    BY DEF NoEvents
  <2> QED
    BY <2>1
<1>5. raced \subseteq Product /\ calls \in 0..MaxCalls /\ faults \in 0..MaxFaults
  BY CatalogAssumption
<1>6. \A p \in Product : /\ Good(row[p], made[p]) /\ Good(cache[p], made[p])
                         /\ stocked[p] \subseteq Skus(row[p])
  BY <1>1, SeedAssumption, AbsentFacts DEF Good
<1>7. RequestsOK
  <2>1. RequestOK("idle", NoCall, Absent, {}) /\ HoldsGood(made, "idle", NoCall, Absent)
    BY AbsentFacts, AtRestIsFine DEF AtRest
  <2> QED
    BY <2>1, AbsentFacts DEF RequestsOK, AtRest
<1> QED
  BY <1>1, <1>3, <1>4, <1>5, <1>6, <1>7 DEF CatalogShape, RowsOK

(* For any seed, requests and faults: a row has a price in the default currency for each of  *)
(* its SKUs, or no SKU at all, and only its SKUs have stock: save, saveMetadata, upsertMany   *)
(* and the commands to Redis between them.                                                    *)
THEOREM CatalogTypeCorrect == Spec => []TypeOK
<1>1. CatalogShape => TypeOK
  BY DEF CatalogShape, RowsOK, RequestsOK, TypeOK, Good, Flight
<1>2. Spec => []CatalogShape
  BY ShapeInit, ShapeStep, PTL DEF Spec
<1> QED
  BY <1>1, <1>2, PTL
--------------------------------------------------------------------------------
(* The request runs, and it is about p. *)
On(r, p) == InFlight(r) /\ call[r].product = p

(* The product a request will write: the edit it was asked for, of the row as it is. *)
Intended(r) ==
  LET x == row[call[r].product] IN
    IF call[r].op = "create" THEN x = Absent ELSE x # Absent /\ seen[r] = Edited(call[r], x)

(* Whoever changes a product is alone with it. *)
Alone(p) == \A r, q \in Request : r # q /\ On(r, p) /\ On(q, p) => ~Changes(call[r])

(* The cache shows the row, but for a change about to evict. *)
Fresh(p) == cache[p] \in {Absent, row[p]} \/ \E r \in Request : On(r, p) /\ pc[r] = "committed"

(* Where a request on p is. *)
OnCourse(r) ==
  /\ pc[r] = "loaded" => seen[r] = row[call[r].product] /\ row[call[r].product] # Absent
  /\ pc[r] \in {"saving", "writing"} => Intended(r)
  /\ pc[r] = "writing" => old[r] = Skus(row[call[r].product])

(* What keeps the edits of p. *)
Kept(p) ==
  /\ row[p] = asked[p]
  /\ Alone(p) /\ Fresh(p)
  /\ \A r \in Request : On(r, p) => OnCourse(r)

EditsStay == faults = 0 => \A p \in Product \ raced : Kept(p)

(* Nobody but r moves. *)
OthersWait(r) ==
  \A q \in Request \ {r} :
    /\ pc'[q] = pc[q] /\ call'[q] = call[q] /\ seen'[q] = seen[q] /\ old'[q] = old[q]

(* Rows and entries of other products than p stay. *)
OnlyRow(p) ==
  \A q \in Product \ {p} :
    row'[q] = row[q] /\ asked'[q] = asked[q] /\ cache'[q] = cache[q] /\ stocked'[q] = stocked[q]

LEMMA ServeEffects ==
  ASSUME CatalogShape, NEW r \in Request, Serve(r)
  PROVE  /\ OthersWait(r) /\ OnlyRow(call[r].product)
         /\ call'[r] = call[r] \/ ~InFlight(r)'
         /\ InFlight(r) /\ made' = made /\ raced' = raced
<1> USE DEF CatalogShape, RowsOK, RequestsOK
<1> DEFINE Here == /\ OthersWait(r)
                   /\ call'[r] = call[r] \/ ~InFlight(r)'
<1>1. ASSUME NEW a \in {"done", "error"}, Finish(r, a) PROVE Here
  BY <1>1 DEF Finish, Goto, OthersWait, InFlight, AtRest
<1>2. ASSUME NEW x, Found(r, x), old' = old PROVE Here
  BY <1>2 DEF Found, Goto, OthersWait, InFlight, AtRest
<1>3. Here
  <2>1. CASE Lookup(r) \/ Load(r) \/ Fill(r)
    <3>1. CASE \E a \in {"done", "error"} : Finish(r, a)
      BY <1>1, <3>1
    <3>2. CASE old' = old /\ \E x : Found(r, x)
      BY <1>2, <3>2
    <3>3. CASE \E a \in {"miss", "loaded"} : Goto(r, a) /\ UNCHANGED <<call, old>>
                 /\ \A q \in Request \ {r} : seen'[q] = seen[q]
      BY <3>3 DEF Goto, OthersWait
    <3> QED
      BY <2>1, <3>1, <3>2, <3>3 DEF Lookup, Load, Fill
  <2>2. CASE FindExisting(r) \/ Commit(r)
    BY <2>2 DEF FindExisting, Commit, Goto, OthersWait
  <2>3. CASE CommitThrows(r) \/ AddStock(r)
    BY <1>1, <2>3 DEF CommitThrows, AddStock
  <2>4. CASE Evict(r)
    <3>1. CASE Finish(r, "done")
      BY <1>1, <3>1
    <3>2. CASE Goto(r, "stocking") /\ UNCHANGED <<call, seen, old>>
      BY <3>2 DEF Goto, OthersWait
    <3> QED
      BY <2>4, <3>1, <3>2 DEF Evict, AfterCommit
  <2> QED
    BY <2>1, <2>2, <2>3, <2>4 DEF Serve
<1>4. OnlyRow(call[r].product)
  BY DEF Serve, Lookup, Load, Fill, FindExisting, Commit, CommitThrows, Evict, AddStock, OnlyRow, rowVars
<1>5. InFlight(r) /\ made' = made /\ raced' = raced
  BY DEF Serve, Lookup, Load, Fill, FindExisting, Commit, CommitThrows, Evict, AddStock, InFlight, AtRest
<1> QED
  BY <1>3, <1>4, <1>5

(* What happens to another product leaves p alone. *)
LEMMA KeptElsewhere ==
  ASSUME NEW p \in Product, Kept(p), NEW r \in Request, ~On(r, p), ~On(r, p)', OthersWait(r),
         row'[p] = row[p], asked'[p] = asked[p], cache'[p] = cache[p]
  PROVE  Kept(p)'
<1>1. \A q \in Request : On(q, p)' => q # r /\ On(q, p)
  BY DEF On, InFlight, OthersWait
<1>2. \A q \in Request : On(q, p) => On(q, p)' /\ q # r
  BY DEF On, InFlight, OthersWait
<1>3. Alone(p)'
  BY <1>1 DEF Kept, Alone, OthersWait
<1>4. Fresh(p)'
  BY <1>2 DEF Kept, Fresh, OthersWait
<1>5. ASSUME NEW q \in Request, On(q, p)' PROVE OnCourse(q)'
  <2>1. q # r /\ On(q, p) /\ OnCourse(q) /\ call[q].product = p
    BY <1>1, <1>5 DEF Kept, On
  <2>2. pc'[q] = pc[q] /\ call'[q] = call[q] /\ seen'[q] = seen[q] /\ old'[q] = old[q]
    BY <2>1 DEF OthersWait
  <2> QED
    BY <2>1, <2>2 DEF OnCourse, Intended
<1> QED
  BY <1>3, <1>4, <1>5 DEF Kept

(* What a request does to its own product. *)
LEMMA KeptHere ==
  ASSUME NEW p \in Product, Kept(p), NEW r \in Request, On(r, p), OthersWait(r),
         call'[r] = call[r] \/ ~InFlight(r)', row'[p] = row[p] \/ Changes(call[r]),
         row'[p] = asked'[p], Fresh(p)', On(r, p)' => OnCourse(r)'
  PROVE  Kept(p)'
<1>1. \A q \in Request : On(q, p)' => On(q, p) /\ call'[q] = call[q]
  BY DEF On, InFlight, OthersWait
<1>2. Alone(p)'
  BY <1>1 DEF Kept, Alone
<1>3. ASSUME NEW q \in Request, q # r, On(q, p)' PROVE OnCourse(q)'
  <2>1. On(q, p) /\ OnCourse(q) /\ call[q].product = p /\ row'[p] = row[p]
    BY <1>1, <1>3 DEF Kept, On, Alone
  <2>2. pc'[q] = pc[q] /\ call'[q] = call[q] /\ seen'[q] = seen[q] /\ old'[q] = old[q]
    BY <1>3 DEF OthersWait
  <2> QED
    BY <2>1, <2>2 DEF OnCourse, Intended
<1> QED
  BY <1>2, <1>3 DEF Kept

LEMMA FreshFor ==
  ASSUME CatalogShape, NEW p \in Product, Kept(p), NEW r \in Request, On(r, p), pc[r] # "committed"
  PROVE  cache[p] \in {Absent, row[p]}
<1> SUFFICES ASSUME NEW q \in Request, On(q, p), pc[q] = "committed" PROVE FALSE
  BY DEF Kept, Fresh
<1>1. q # r /\ call[q].op # "get"
  BY DEF CatalogShape, RequestsOK, RequestOK
<1> QED
  BY <1>1 DEF Kept, Alone, Changes

(* The request found the row, in the cache or in the table. *)
LEMMA FoundIsIntended ==
  ASSUME CatalogShape, NEW r \in Request, pc[r] \in {"lookup", "loaded"},
         NEW x, x = row[call[r].product], x # Absent,
         Found(r, x), row' = row, old' = old
  PROVE  InFlight(r)' => OnCourse(r)'
<1>1. call[r] \in Call /\ call[r].op # "create"
  BY DEF CatalogShape, RequestsOK, RequestOK, Flight
<1>2. InFlight(r)' => /\ pc'[r] = "saving" /\ call'[r] = call[r] /\ seen'[r] = Edited(call[r], x)
  BY DEF Found, Goto, InFlight, AtRest, CatalogShape, RequestsOK
<1> QED
  BY <1>1, <1>2 DEF OnCourse, Intended

LEMMA KeptByReading ==
  ASSUME CatalogShape, NEW p \in Product, Kept(p), NEW r \in Request, On(r, p),
         Lookup(r) \/ Load(r) \/ Fill(r) \/ FindExisting(r), faults = 0, faults' = 0
  PROVE  Kept(p)'
<1>1. /\ OthersWait(r) /\ (call'[r] = call[r] \/ ~InFlight(r)') /\ call[r].product = p
      /\ row' = row /\ asked' = asked
  BY ServeEffects DEF Serve, On, Lookup, Load, Fill, FindExisting, rowVars
<1>2. row[p] = asked[p] /\ OnCourse(r)
  BY DEF Kept
<1>3. CASE Lookup(r)
  <2>1. pc[r] = "lookup" /\ cache' = cache /\ old' = old
    BY <1>3 DEF Lookup
  <2>2. cache[p] \in {Absent, row[p]}
    BY <2>1, FreshFor
  <2>3. InFlight(r)' => OnCourse(r)'
    <3>1. CASE cache[p] = Absent
      <4>1. pc'[r] = "miss"
        BY <1>1, <1>3, <3>1 DEF Lookup, Goto, CatalogShape, RequestsOK
      <4> QED
        BY <4>1 DEF OnCourse
    <3>2. CASE cache[p] # Absent
      <4>1. Found(r, cache[p]) /\ cache[p] = row[p]
        BY <1>1, <1>3, <2>2, <3>2 DEF Lookup
      <4> QED
        BY <1>1, <2>1, <3>2, <4>1, FoundIsIntended
    <3> QED
      BY <3>1, <3>2
  <2>4. Fresh(p)'
    BY <1>1, <2>1, <2>2 DEF Fresh
  <2> QED
    BY <1>1, <1>2, <2>3, <2>4, KeptHere DEF On
<1>4. CASE Load(r)
  <2>1. pc[r] = "miss" /\ cache' = cache
    BY <1>4 DEF Load
  <2>2. cache[p] \in {Absent, row[p]}
    BY <2>1, FreshFor
  <2>3. InFlight(r)' => OnCourse(r)'
    <3>1. CASE row[p] = Absent
      <4>1. ~InFlight(r)'
        BY <1>1, <1>4, <3>1 DEF Load, Finish, Goto, InFlight, AtRest, CatalogShape, RequestsOK
      <4> QED
        BY <4>1
    <3>2. CASE row[p] # Absent
      <4>1. pc'[r] = "loaded" /\ seen'[r] = row[p] /\ call'[r] = call[r]
        BY <1>1, <1>4, <3>2 DEF Load, Goto, CatalogShape, RequestsOK
      <4> QED
        BY <1>1, <3>2, <4>1 DEF OnCourse
    <3> QED
      BY <3>1, <3>2
  <2>4. Fresh(p)'
    BY <1>1, <2>1, <2>2 DEF Fresh
  <2> QED
    BY <1>1, <1>2, <2>3, <2>4, KeptHere DEF On
<1>5. CASE Fill(r)
  <2>1. pc[r] = "loaded" /\ old' = old /\ Found(r, seen[r])
    BY <1>5 DEF Fill
  <2>2. seen[r] = row[p] /\ row[p] # Absent
    BY <1>1, <1>2, <2>1 DEF OnCourse
  <2>3. cache' = [cache EXCEPT ![p] = row[p]]
    BY <1>1, <1>5, <2>2 DEF Fill, Fault
  <2>4. Fresh(p)'
    BY <1>1, <2>3 DEF Fresh, CatalogShape, RowsOK
  <2>5. InFlight(r)' => OnCourse(r)'
    BY <1>1, <2>1, <2>2, FoundIsIntended
  <2> QED
    BY <1>1, <1>2, <2>4, <2>5, KeptHere DEF On
<1>6. CASE FindExisting(r)
  <2>1. /\ pc[r] = "saving" /\ cache' = cache
        /\ pc'[r] = "writing" /\ call'[r] = call[r] /\ seen'[r] = seen[r] /\ old'[r] = Skus(row[p])
    BY <1>1, <1>6 DEF FindExisting, Goto, CatalogShape, RequestsOK
  <2>2. Fresh(p)'
    BY <1>1, <2>1, FreshFor DEF Fresh
  <2>3. OnCourse(r)'
    BY <1>1, <1>2, <2>1 DEF OnCourse, Intended
  <2> QED
    BY <1>1, <1>2, <2>2, <2>3, KeptHere
<1> QED
  BY <1>3, <1>4, <1>5, <1>6

(* With every SKU of the row among its own, save writes just the product it holds. *)
LEMMA OverwritesAll ==
  ASSUME NEW r \in Request, NEW x \in ProductValue, seen[r] \in ProductValue, Skus(x) \subseteq Skus(seen[r])
  PROVE  Overwritten(r, x) = seen[r]
<1> DEFINE y == seen[r]
           f == [s \in Sku |-> IF s \in Skus(y) THEN y.prices[s]
                               ELSE IF s \in old[r] THEN {} ELSE x.prices[s]]
<1>1. y = [active |-> y.active, prices |-> y.prices] /\ y.prices \in [Sku -> SUBSET Currency]
  BY DEF ProductValue
<1>2. \A s \in Sku : s \notin Skus(y) => y.prices[s] = {} /\ x.prices[s] = {}
  BY DEF Skus
<1>3. f = y.prices
  BY <1>1, <1>2
<1> QED
  BY <1>1, <1>3 DEF Overwritten

(* A transaction makes the edit it was asked for, and no SKU goes but with its product. *)
LEMMA CommitsTheEdit ==
  ASSUME CatalogShape, NEW r \in Request, pc[r] \in Flight, Writes(r), ~Throws(r), OnCourse(r)
  PROVE  LET x == row[call[r].product]
         IN  /\ Written(r, x) = Apply(r, x)
             /\ Written(r, x) = Absent \/ Skus(x) \subseteq Skus(Written(r, x))
<1> DEFINE x == row[call[r].product]
<1>1. /\ call[r] \in Call /\ x \in ProductValue /\ seen[r] \in ProductValue
      /\ pc[r] \in {"saving", "writing"} /\ call[r].op \in {"create", "update", "sku", "delete"}
  BY ProductOfRequest, CallFacts DEF CatalogShape, Good, RequestsOK, RequestOK, Writes
<1>2. Intended(r)
  BY <1>1 DEF OnCourse
<1>3. CASE call[r].op = "delete"
  BY <1>3 DEF Written, Apply
<1>4. CASE call[r].op = "update"
  <2> DEFINE a == IF call[r].active = {} THEN x.active ELSE TRUE \in call[r].active
             y == [x EXCEPT !.active = a]
  <2>1. seen[r] = y /\ Apply(r, x) = y
    BY <1>2, <1>4 DEF Intended, Edited, Apply
  <2>2. Written(r, x) = [x EXCEPT !.active = seen[r].active]
    BY <1>4 DEF Written
  <2> HIDE DEF a
  <2>3. y.active = a /\ Skus(y) = Skus(x)
    BY <1>1 DEF ProductValue, Skus
  <2> QED
    BY <2>1, <2>2, <2>3
<1>5. CASE call[r].op = "create"
  <2>1. x = Absent /\ Skus(x) = {}
    BY <1>2, <1>5, AbsentFacts DEF Intended
  <2>2. Overwritten(r, x) = seen[r]
    BY <1>1, <2>1, OverwritesAll
  <2> QED
    BY <1>5, <2>1, <2>2 DEF Written, Apply
<1>6. CASE call[r].op = "sku"
  <2>1. seen[r] = Edited(call[r], x)
    BY <1>2, <1>6 DEF Intended
  <2>2. Skus(x) \subseteq Skus(seen[r])
    BY <1>1, <2>1, EditedFacts
  <2>3. Overwritten(r, x) = seen[r]
    BY <1>1, <2>2, OverwritesAll
  <2> QED
    BY <1>6, <2>1, <2>2, <2>3 DEF Written, Apply
<1> QED
  BY <1>1, <1>3, <1>4, <1>5, <1>6

LEMMA KeptByWriting ==
  ASSUME CatalogShape, NEW p \in Product, Kept(p), NEW r \in Request, On(r, p),
         Commit(r) \/ CommitThrows(r) \/ Evict(r) \/ AddStock(r), faults = 0, faults' = 0
  PROVE  Kept(p)' /\ (stocked[p] \subseteq stocked'[p] \/ row'[p] = Absent)
<1>1. OthersWait(r) /\ (call'[r] = call[r] \/ ~InFlight(r)') /\ call[r].product = p
  BY ServeEffects DEF Serve, On
<1>2. row[p] = asked[p] /\ OnCourse(r)
  BY DEF Kept
<1>3. CASE Commit(r)
  <2> DEFINE y == Written(r, row[p])
             z == Apply(r, asked[p])
  <2>1. pc[r] \in {"saving", "writing"} /\ pc[r] \in Flight /\ Writes(r) /\ ~Throws(r) /\ Changes(call[r])
    <3>1. pc[r] \in {"saving", "writing"} /\ pc[r] \in Flight
      BY <1>3 DEF Commit, Writes, Flight
    <3> QED
      BY <1>3, <3>1 DEF Commit, Changes, CatalogShape, RequestsOK, RequestOK
  <2>2. y = z /\ (y = Absent \/ Skus(row[p]) \subseteq Skus(y))
    BY <1>1, <1>2, <2>1, CommitsTheEdit
  <2>3. /\ row' = [row EXCEPT ![p] = y] /\ asked' = [asked EXCEPT ![p] = z]
        /\ stocked' = [stocked EXCEPT ![p] = stocked[p] \intersect Skus(row'[p])]
        /\ pc' = [pc EXCEPT ![r] = "committed"] /\ call' = call
    BY <1>1, <1>3 DEF Commit, Goto
  <2> HIDE DEF y, z
  <2>4. row'[p] = y /\ asked'[p] = y /\ stocked'[p] = stocked[p] \intersect Skus(y) /\ pc'[r] = "committed"
    BY <2>2, <2>3 DEF CatalogShape, RowsOK, RequestsOK
  <2>5. Fresh(p)'
    <3>1. On(r, p)'
      BY <1>1, <2>3, <2>4 DEF On, InFlight, AtRest
    <3> QED
      BY <2>4, <3>1 DEF Fresh
  <2>6. OnCourse(r)'
    BY <2>4 DEF OnCourse
  <2>7. Kept(p)'
    BY <1>1, <2>1, <2>4, <2>5, <2>6, KeptHere
  <2> QED
    BY <2>2, <2>4, <2>7 DEF CatalogShape, RowsOK
<1>4. CASE CommitThrows(r)
  <2>1. ~InFlight(r)' /\ row' = row /\ asked' = asked /\ cache' = cache /\ stocked' = stocked
    BY <1>4 DEF CommitThrows, Finish, Goto, InFlight, AtRest, rowVars, CatalogShape, RequestsOK
  <2>2. pc[r] # "committed"
    BY <1>4 DEF CommitThrows, Writes
  <2>3. Fresh(p)'
    BY <2>1, <2>2, FreshFor DEF Fresh
  <2> QED
    BY <1>1, <1>2, <2>1, <2>3, KeptHere DEF On
<1>5. CASE Evict(r)
  <2>1. row' = row /\ asked' = asked /\ stocked' = stocked /\ cache' = [cache EXCEPT ![p] = Absent]
    BY <1>1, <1>5 DEF Evict, rowVars, Fault
  <2>2. Fresh(p)'
    BY <2>1 DEF Fresh, CatalogShape, RowsOK
  <2>3. InFlight(r)' => pc'[r] = "stocking"
    BY <1>5 DEF Evict, AfterCommit, Finish, Goto, InFlight, AtRest, CatalogShape, RequestsOK
  <2>4. On(r, p)' => OnCourse(r)'
    BY <2>3 DEF On, OnCourse
  <2> QED
    BY <1>1, <1>2, <2>1, <2>2, <2>4, KeptHere
<1>6. CASE AddStock(r)
  <2>1. ~InFlight(r)' /\ row' = row /\ asked' = asked /\ cache' = cache
    BY <1>6 DEF AddStock, Finish, Goto, InFlight, AtRest, CatalogShape, RequestsOK
  <2>2. stocked[p] \subseteq stocked'[p]
    BY <1>6 DEF AddStock, CatalogShape, RowsOK
  <2>3. pc[r] # "committed"
    BY <1>6 DEF AddStock
  <2>4. Fresh(p)'
    BY <2>1, <2>3, FreshFor DEF Fresh
  <2> QED
    BY <1>1, <1>2, <2>1, <2>2, <2>4, KeptHere DEF On
<1> QED
  BY <1>3, <1>4, <1>5, <1>6

(* A client asks for p, or for another product. *)
LEMMA KeptBySend ==
  ASSUME CatalogShape, NEW r \in Request, NEW c \in Calls, Send(r, c),
         NEW p \in Product \ raced', Kept(p)
  PROVE  Kept(p)' /\ stocked' = stocked
<1>1. Receive(r, c) /\ pc[r] = "idle" /\ ~On(r, p) /\ c \in Call
  BY CallsAssumption DEF Send, Receive, On, InFlight, AtRest
<1>2. /\ row' = row /\ asked' = asked /\ cache' = cache /\ stocked' = stocked
      /\ OthersWait(r)
  BY <1>1 DEF Receive, rowVars, Goto, OthersWait, CatalogShape, RequestsOK
<1>3. pc'[r] = (IF c.op = "create" THEN "saving" ELSE "lookup") /\ call'[r] = c
  BY <1>1 DEF Receive, Goto, CatalogShape, RequestsOK
<1>4. CASE c.product # p
  BY <1>1, <1>2, <1>3, <1>4, KeptElsewhere DEF On
<1>5. CASE c.product = p
  <2>1. ~Collides(c)
    BY <1>1, <1>5, CallFacts DEF Receive, CatalogShape, RowsOK
  <2>2. \A q \in Request : On(q, p) => ~Changes(c) /\ ~Changes(call[q])
    BY <1>5, <2>1 DEF Collides, On
  <2>3. \A q \in Request \ {r} : On(q, p)' <=> On(q, p)
    BY <1>2 DEF On, InFlight, OthersWait
  <2>4. Alone(p)'
    BY <1>2, <1>3, <2>2, <2>3 DEF Alone, Kept, OthersWait
  <2>5. Fresh(p)'
    BY <1>1, <1>2, <2>3 DEF Fresh, Kept, OthersWait, On, InFlight, AtRest
  <2>6. ASSUME NEW q \in Request, q # r, On(q, p)' PROVE OnCourse(q)'
    BY <1>2, <2>3, <2>6 DEF OthersWait, Kept, OnCourse, Intended
  <2>7. OnCourse(r)'
    <3>1. CASE c.op = "create"
      <4>1. made[p] = {}
        BY <1>1, <1>5, <3>1 DEF Receive, NewIds
      <4>2. row[p] = Absent
        BY <4>1 DEF CatalogShape, RowsOK, Good
      <4> QED
        BY <1>2, <1>3, <1>5, <3>1, <4>2 DEF OnCourse, Intended
    <3>2. CASE c.op # "create"
      BY <1>3, <3>2 DEF OnCourse
    <3> QED
      BY <3>1, <3>2
  <2> QED
    BY <1>2, <2>4, <2>5, <2>6, <2>7 DEF Kept
<1> QED
  BY <1>4, <1>5

LEMMA KeptByClose ==
  ASSUME CatalogShape, NEW r \in Request, Close(r), NEW p \in Product, Kept(p)
  PROVE  Kept(p)' /\ stocked' = stocked
<1>1. /\ ~On(r, p) /\ ~On(r, p)' /\ OthersWait(r)
      /\ row' = row /\ asked' = asked /\ cache' = cache /\ stocked' = stocked
  BY DEF Close, Goto, On, InFlight, AtRest, OthersWait, rowVars, CatalogShape, RequestsOK
<1> QED
  BY <1>1, KeptElsewhere

LEMMA KeptByServe ==
  ASSUME CatalogShape, NEW r \in Request, Serve(r), NEW p \in Product, Kept(p), faults = 0, faults' = 0
  PROVE  Kept(p)' /\ (stocked[p] \subseteq stocked'[p] \/ row'[p] = Absent)
<1>1. /\ OthersWait(r) /\ OnlyRow(call[r].product) /\ InFlight(r)
      /\ call'[r] = call[r] \/ ~InFlight(r)'
  BY ServeEffects
<1>2. CASE call[r].product # p
  BY <1>1, <1>2, KeptElsewhere DEF On, OnlyRow
<1>3. CASE call[r].product = p
  <2>1. On(r, p)
    BY <1>1, <1>3 DEF On
  <2>2. CASE Lookup(r) \/ Load(r) \/ Fill(r) \/ FindExisting(r)
    <3>1. stocked' = stocked
      BY <2>2 DEF Lookup, Load, Fill, FindExisting, rowVars
    <3> QED
      BY <2>1, <2>2, <3>1, KeptByReading
  <2>3. CASE Commit(r) \/ CommitThrows(r) \/ Evict(r) \/ AddStock(r)
    BY <2>1, <2>3, KeptByWriting
  <2> QED
    BY <2>2, <2>3 DEF Serve
<1> QED
  BY <1>2, <1>3

LEMMA KeptByExpire ==
  ASSUME CatalogShape, NEW q \in Product, Expire(q), NEW p \in Product, Kept(p)
  PROVE  Kept(p)' /\ stocked' = stocked
<1>1. /\ row' = row /\ asked' = asked /\ stocked' = stocked
      /\ pc' = pc /\ call' = call /\ seen' = seen /\ old' = old
      /\ cache'[p] \in {Absent, cache[p]}
  BY DEF Expire, rowVars, requestVars, CatalogShape, RowsOK
<1>2. Alone(p)' /\ Fresh(p)'
  BY <1>1 DEF Kept, Alone, Fresh, On, InFlight
<1>3. \A r \in Request : On(r, p)' => OnCourse(r)'
  BY <1>1 DEF Kept, On, InFlight, OnCourse, Intended
<1> QED
  BY <1>1, <1>2, <1>3 DEF Kept

(* Faults and races are never taken back. *)
LEMMA NothingForgiven ==
  ASSUME CatalogShape, [Next]_vars
  PROVE  faults' >= faults /\ raced \subseteq raced'
<1>1. faults \in Nat
  BY CatalogAssumption DEF CatalogShape, RowsOK
<1>2. faults' \in {faults, faults + 1} /\ raced \subseteq raced'
  BY StepsOfCatalog DEF vars, Send, Receive, Close, Lookup, LookupFails, Load, Fill, FindExisting,
     Commit, CommitThrows, Evict, AddStock, RequestFails, Expire, Fault
<1> QED
  BY <1>1, <1>2

LEMMA KeptStep ==
  ASSUME CatalogShape, EditsStay, [Next]_vars, faults' = 0, NEW p \in Product \ raced'
  PROVE  Kept(p)' /\ (stocked[p] \subseteq stocked'[p] \/ row'[p] = Absent)
<1>1. faults = 0 /\ faults \in Nat /\ p \in Product \ raced /\ Kept(p)
  BY NothingForgiven, CatalogAssumption DEF CatalogShape, RowsOK, EditsStay
<1>2. ~Fault
  BY <1>1 DEF Fault
<1>3. CASE UNCHANGED vars
  <2>1. /\ row' = row /\ asked' = asked /\ stocked' = stocked /\ cache' = cache
        /\ pc' = pc /\ call' = call /\ seen' = seen /\ old' = old
    BY <1>3 DEF vars, rowVars, requestVars
  <2> QED
    BY <1>1, <2>1 DEF Kept, Alone, Fresh, On, InFlight, OnCourse, Intended
<1>4. ASSUME NEW r \in Request, NEW c \in Calls, Send(r, c)
      PROVE  Kept(p)' /\ stocked[p] \subseteq stocked'[p]
  BY <1>1, <1>4, KeptBySend
<1>5. ASSUME NEW r \in Request, Close(r) PROVE Kept(p)' /\ stocked[p] \subseteq stocked'[p]
  BY <1>1, <1>5, KeptByClose
<1>6. ASSUME NEW r \in Request, Serve(r)
      PROVE  Kept(p)' /\ (stocked[p] \subseteq stocked'[p] \/ row'[p] = Absent)
  BY <1>1, <1>6, KeptByServe
<1>7. ASSUME NEW r \in Request, LookupFails(r) \/ RequestFails(r) PROVE FALSE
  BY <1>2, <1>7 DEF LookupFails, RequestFails
<1>8. ASSUME NEW q \in Product, Expire(q) PROVE Kept(p)' /\ stocked[p] \subseteq stocked'[p]
  BY <1>1, <1>8, KeptByExpire
<1> QED
  BY <1>3, <1>4, <1>5, <1>6, <1>7, <1>8, StepsOfCatalog DEF Serve

LEMMA KeptInit == Init => EditsStay
<1> SUFFICES ASSUME Init, NEW p \in Product PROVE Kept(p)
  BY DEF EditsStay
<1>1. \A r \in Request : ~On(r, p)
  BY DEF Init, On, InFlight, AtRest
<1>2. row[p] = asked[p] /\ cache[p] = Absent
  BY DEF Init
<1> QED
  BY <1>1, <1>2 DEF Kept, Alone, Fresh

LEMMA CatalogStays == Spec => [](CatalogShape /\ EditsStay)
<1>1. CatalogShape /\ EditsStay /\ [Next]_vars => EditsStay'
  BY KeptStep DEF EditsStay
<1> QED
  BY <1>1, ShapeInit, ShapeStep, KeptInit, PTL DEF Spec

(* As long as Redis answers and nobody else used the product meanwhile, reading through the   *)
(* cache and writing the whole product back amounts to the edits, one after the other:         *)
(* CachedProductRepository, and save, saveMetadata and delete of PrismaProductRepository.      *)
THEOREM EditsKept == Spec => []EditsAreKept
<1>1. EditsStay => EditsAreKept
  BY DEF EditsStay, EditsAreKept, Kept
<1> QED
  BY <1>1, CatalogStays, PTL
--------------------------------------------------------------------------------
(* A copy of a product that has not lost the SKU s. *)
Has(x, s) == x = Absent \/ s \in Skus(x)

(* The row, the cache and every request that may write have the SKU s of p. *)
Everywhere(p, s) ==
  /\ s \in made[p] /\ Has(row[p], s) /\ Has(cache[p], s)
  /\ \A r \in Request : call[r].product = p /\ pc[r] \in Holding => s \in Skus(seen[r])

(* A request that adds a SKU holds it, and the row has it after the commit if r met nobody. *)
AddsWell(r) ==
  Adds(call[r]) =>
    /\ pc[r] \in {"saving", "writing"} => call[r].sku \in Skus(seen[r])
    /\ pc[r] = "committed" /\ ~met[r] => Has(row[call[r].product], call[r].sku)

Meeting ==
  \A r, q \in Request :
    r # q /\ InFlight(r) /\ InFlight(q) /\ call[r].product = call[q].product => met[r]

CleanInv ==
  /\ met \in [Request -> BOOLEAN] /\ clean \in [Product -> SUBSET Sku]
  /\ Meeting
  /\ \A r \in Request : AddsWell(r)
  /\ \A p \in Product : \A s \in clean[p] : Everywhere(p, s)

(* The commit of r drops no SKU that its copy has, and writes those it adds. *)
LEMMA CommitHas ==
  ASSUME CatalogShape, NEW r \in Request, Commit(r), NEW s \in Sku, s \in Skus(seen[r]),
         Has(row[call[r].product], s) \/ call[r].op \in {"create", "sku"}
  PROVE  LET p == call[r].product IN
           /\ Has(row'[p], s)
           /\ row'[p] # Absent /\ s \in stocked[p] => s \in stocked'[p]
<1> DEFINE p == call[r].product
           y == Written(r, row[p])
<1>1. pc[r] \in Flight /\ Writes(r) /\ ~Throws(r)
  BY DEF Commit, InFlight, CatalogShape, RequestsOK
<1>2. /\ call[r] \in Call /\ p \in Product /\ row[p] \in ProductValue
      /\ Good(row[p], made[p])
  BY <1>1, ProductOfRequest DEF CatalogShape, Good
<1>3. Good(seen[r], made[p]) /\ Skus(seen[r]) # {}
  BY <1>1 DEF CatalogShape, RequestsOK, RequestOK, HoldsGood, Writes, Holding
<1>4. call[r].op \in {"create", "update", "sku", "delete"}
  BY <1>1, <1>2, CallFacts DEF CatalogShape, RequestsOK, RequestOK, Writes
<1>5. Has(y, s)
  <2>1. CASE call[r].op = "delete"
    BY <2>1 DEF Written, Has
  <2>2. CASE call[r].op = "update"
    <3> DEFINE w == [row[p] EXCEPT !.active = seen[r].active]
    <3>1. row[p] # Absent
      BY <1>1, <2>2 DEF Throws
    <3>2. w.prices = row[p].prices
      BY <1>2 DEF ProductValue
    <3>3. y = w
      BY <2>2 DEF Written
    <3> HIDE DEF w
    <3>4. s \in Skus(row[p])
      BY <2>2, <3>1 DEF Has
    <3> QED
      BY <3>2, <3>3, <3>4 DEF Has, Skus
  <2>3. CASE call[r].op \in {"create", "sku"}
    <3>1. y = Overwritten(r, row[p])
      BY <2>3 DEF Written
    <3>2. Skus(seen[r]) \subseteq Skus(Overwritten(r, row[p]))
      BY <1>2, <1>3, OverwrittenFacts
    <3> QED
      BY <3>1, <3>2 DEF Has
  <2> QED
    BY <1>4, <2>1, <2>2, <2>3
<1> HIDE DEF y
<1>6. row'[p] = y /\ stocked'[p] = stocked[p] \intersect Skus(row'[p])
  BY <1>2 DEF Commit, y, CatalogShape, RowsOK
<1> QED
  BY <1>5, <1>6 DEF Has

(* What r finds it edits without dropping a SKU. *)
LEMMA FoundHas ==
  ASSUME CatalogShape, NEW r \in Request, pc[r] \in {"lookup", "loaded"},
         NEW x \in ProductValue, Found(r, x)
  PROVE  /\ pc'[r] \in {"saving", "done", "idle"}
         /\ pc'[r] = "saving" => /\ call'[r] = call[r]
                                 /\ Skus(x) \subseteq Skus(seen'[r])
                                 /\ Adds(call[r]) => call[r].sku \in Skus(seen'[r])
<1> DEFINE y == Edited(call[r], x)
           edits == call[r].op # "get" /\ Valid(y)
<1>1. call[r] \in Call /\ call[r].op # "create"
  BY DEF CatalogShape, RequestsOK, RequestOK, Flight
<1>2. Skus(x) \subseteq Skus(y)
  BY <1>1, EditedFacts
<1>3. Adds(call[r]) => call[r].sku \in Skus(y)
  <2> SUFFICES ASSUME Adds(call[r]) PROVE call[r].sku \in Skus(y)
    OBVIOUS
  <2>1. call[r].op = "sku" /\ call[r].new
    BY <1>1 DEF Adds
  <2>2. y = WithSku(x, call[r].sku, call[r].prices)
    BY <2>1 DEF Edited
  <2>3. call[r].sku \in Sku /\ call[r].prices \in Prices
    BY <1>1, <2>1, CallFacts
  <2>4. Skus(WithSku(x, call[r].sku, call[r].prices)) = Skus(x) \union {call[r].sku}
    BY <2>3, WithSkuFacts
  <2> QED
    BY <2>2, <2>4
<1> HIDE DEF y
<1>4. /\ pc'[r] = IF edits THEN "saving" ELSE IF call[r].op = "get" THEN "done" ELSE "idle"
      /\ edits => call'[r] = call[r] /\ seen'[r] = y
  BY DEF Found, Goto, CatalogShape, RequestsOK, y
<1> QED
  BY <1>2, <1>3, <1>4

(* A request that is received brings nothing about a product that has SKUs. *)
LEMMA SendHas ==
  ASSUME CatalogShape, NEW r \in Request, NEW c \in Calls, Send(r, c)
  PROVE  /\ OthersWait(r) /\ row' = row /\ cache' = cache /\ stocked' = stocked
         /\ call'[r] = c /\ c \in Call /\ ~InFlight(r)
         /\ pc'[r] \in {"lookup", "saving"}
         /\ pc'[r] = "saving" => made[c.product] = {} /\ (Adds(c) => c.sku \in Skus(seen'[r]))
<1>1. Receive(r, c) /\ pc[r] = "idle" /\ c \in Call
  BY CallsAssumption DEF Send, Receive
<1>2. /\ row' = row /\ cache' = cache /\ stocked' = stocked /\ call'[r] = c
      /\ OthersWait(r)
  BY <1>1 DEF Receive, rowVars, Goto, OthersWait, CatalogShape, RequestsOK
<1>3. CASE c.op = "create"
  <2> DEFINE bare == WithSku(Absent, c.sku, c.prices)
             new == [bare EXCEPT !.active = c.active]
  <2>1. c.sku \in Sku /\ c.prices \in Prices
    BY <1>1, <1>3, CallFacts
  <2>2. bare \in ProductValue /\ c.sku \in Skus(bare)
    BY <2>1, AbsentFacts, WithSkuFacts
  <2>3. seen' = [seen EXCEPT ![r] = new] /\ pc' = [pc EXCEPT ![r] = "saving"] /\ made[c.product] = {}
    BY <1>1, <1>3 DEF Receive, Goto, NewIds
  <2> HIDE DEF bare
  <2>4. new.prices = bare.prices
    BY <2>2 DEF ProductValue
  <2> HIDE DEF new
  <2>5. Skus(new) = Skus(bare)
    BY <2>4 DEF Skus
  <2> QED
    BY <1>1, <1>2, <2>2, <2>3, <2>5 DEF CatalogShape, RequestsOK, InFlight, AtRest
<1>4. CASE c.op # "create"
  <2>1. pc' = [pc EXCEPT ![r] = "lookup"]
    BY <1>1, <1>4 DEF Receive, Goto
  <2> QED
    BY <1>1, <1>2, <2>1 DEF CatalogShape, RequestsOK, InFlight, AtRest
<1> QED
  BY <1>3, <1>4

(* Nothing of p that had s loses it in a step of r, and r's copy keeps what it is to add. *)
StaysWith(r, p, s) ==
  /\ Has(row'[p], s) /\ Has(cache'[p], s)
  /\ row'[p] # Absent /\ s \in stocked[p] => s \in stocked'[p]
  /\ call'[r].product = p /\ pc'[r] \in Holding => s \in Skus(seen'[r])

Adding(r) ==
  Adds(call'[r]) =>
    /\ pc'[r] \in {"saving", "writing"} => call'[r].sku \in Skus(seen'[r])
    /\ pc'[r] = "committed" =>
         /\ call'[r] = call[r]
         /\ pc[r] = "committed" \/ Has(row'[call[r].product], call[r].sku)

(* A request that ends holds nothing. *)
LEMMA EndsWith ==
  ASSUME CatalogShape, NEW r \in Request, NEW a \in {"done", "error"}, Finish(r, a)
  PROVE  pc'[r] \in AtRest /\ OthersWait(r)
BY DEF Finish, Goto, AtRest, OthersWait, CatalogShape, RequestsOK

(* A step that reads. *)
LEMMA ReadingStays ==
  ASSUME CatalogShape, NEW r \in Request, AddsWell(r),
         Lookup(r) \/ LookupFails(r) \/ Load(r) \/ Fill(r) \/ FindExisting(r),
         NEW p \in Product, NEW s \in Sku
  PROVE  (Everywhere(p, s) => StaysWith(r, p, s)) /\ Adding(r)
<1>1. pc[r] \in Flight /\ stocked' = stocked /\ row' = row
  BY DEF Lookup, LookupFails, Load, Fill, FindExisting, Flight, rowVars
<1>2. /\ call[r] \in Call /\ call[r].product \in Product
      /\ row[call[r].product] \in ProductValue /\ cache[call[r].product] \in ProductValue
      /\ seen[r] \in ProductValue /\ pc \in [Request -> AtRest \union Flight]
      /\ cache \in [Product -> ProductValue] /\ seen \in [Request -> ProductValue]
  BY <1>1, ProductOfRequest DEF CatalogShape, Good, RequestsOK, RowsOK
<1>3. CASE Lookup(r)
  <2>1. CASE cache[call[r].product] # Absent
    <3> DEFINE x == cache[call[r].product]
    <3>1. pc[r] = "lookup" /\ Found(r, x) /\ cache' = cache
      BY <1>3, <2>1 DEF Lookup
    <3>2. /\ pc'[r] \in {"saving", "done", "idle"}
          /\ pc'[r] = "saving" => /\ call'[r] = call[r]
                                  /\ Skus(x) \subseteq Skus(seen'[r])
                                  /\ Adds(call[r]) => call[r].sku \in Skus(seen'[r])
      BY <1>2, <3>1, FoundHas
    <3> QED
      BY <1>1, <2>1, <3>1, <3>2 DEF Everywhere, StaysWith, Adding, Has, Holding
  <2>2. CASE cache[call[r].product] = Absent
    <3>1. pc'[r] = "miss" /\ cache' = cache
      BY <1>2, <1>3, <2>2 DEF Lookup, Goto
    <3> QED
      BY <1>1, <3>1 DEF Everywhere, StaysWith, Adding, Holding
  <2> QED
    BY <2>1, <2>2
<1>4. CASE LookupFails(r)
  <2>1. pc'[r] = "miss" /\ cache' = cache
    BY <1>2, <1>4 DEF LookupFails, Goto
  <2> QED
    BY <1>1, <2>1 DEF Everywhere, StaysWith, Adding, Holding
<1>5. CASE Load(r)
  <2>1. CASE row[call[r].product] = Absent
    <3>1. pc'[r] \in AtRest /\ cache' = cache
      BY <1>5, <2>1, EndsWith DEF Load
    <3> QED
      BY <1>1, <3>1 DEF Everywhere, StaysWith, Adding, Holding, AtRest
  <2>2. CASE row[call[r].product] # Absent
    <3>1. pc'[r] = "loaded" /\ seen'[r] = row[call[r].product] /\ call' = call /\ cache' = cache
      BY <1>2, <1>5, <2>2 DEF Load, Goto
    <3> QED
      BY <1>1, <2>2, <3>1 DEF Everywhere, StaysWith, Adding, Has
  <2> QED
    BY <2>1, <2>2
<1>6. CASE Fill(r)
  <2>1. /\ pc[r] = "loaded" /\ Found(r, seen[r])
        /\ \A q \in Product : q # call[r].product => cache'[q] = cache[q]
        /\ cache'[call[r].product] \in {cache[call[r].product], seen[r]}
    BY <1>2, <1>6 DEF Fill
  <2>2. /\ pc'[r] \in {"saving", "done", "idle"}
        /\ pc'[r] = "saving" => /\ call'[r] = call[r]
                                /\ Skus(seen[r]) \subseteq Skus(seen'[r])
                                /\ Adds(call[r]) => call[r].sku \in Skus(seen'[r])
    BY <1>2, <2>1, FoundHas
  <2>3. Everywhere(p, s) /\ call[r].product = p => s \in Skus(seen[r])
    BY <2>1 DEF Everywhere, Holding
  <2>4. Everywhere(p, s) => Has(cache'[p], s)
    BY <2>1, <2>3 DEF Everywhere, Has
  <2> QED
    BY <1>1, <2>2, <2>3, <2>4 DEF Everywhere, StaysWith, Adding, Holding
<1>7. CASE FindExisting(r)
  <2>1. pc[r] = "saving" /\ pc'[r] = "writing" /\ call' = call /\ seen' = seen /\ cache' = cache
    BY <1>2, <1>7 DEF FindExisting, Goto
  <2> QED
    BY <1>1, <2>1 DEF Everywhere, StaysWith, Adding, AddsWell, Holding
<1> QED
  BY <1>3, <1>4, <1>5, <1>6, <1>7

(* A step that writes, evicts, or ends the request. *)
LEMMA WritingStays ==
  ASSUME CatalogShape, NEW r \in Request, AddsWell(r),
         Commit(r) \/ CommitThrows(r) \/ Evict(r) \/ AddStock(r) \/ RequestFails(r),
         NEW p \in Product, NEW s \in Sku
  PROVE  (Everywhere(p, s) => StaysWith(r, p, s)) /\ Adding(r)
<1>1. pc[r] \in Flight
  BY DEF Commit, CommitThrows, Evict, AddStock, RequestFails, InFlight, Flight, CatalogShape, RequestsOK
<1>2. /\ call[r] \in Call /\ call[r].product \in Product
      /\ pc \in [Request -> AtRest \union Flight]
      /\ cache \in [Product -> ProductValue] /\ stocked \in [Product -> SUBSET Sku]
      /\ row \in [Product -> ProductValue]
  BY <1>1, ProductOfRequest DEF CatalogShape, RequestsOK, RowsOK
<1>3. CASE Commit(r)
  <2>1. /\ pc'[r] = "committed" /\ call' = call /\ cache' = cache
        /\ \A q \in Product : q # call[r].product => row'[q] = row[q] /\ stocked'[q] = stocked[q]
    BY <1>2, <1>3 DEF Commit, Goto
  <2>2. pc[r] \in {"saving", "writing"}
    BY <1>3 DEF Commit, Writes
  <2>3. Everywhere(p, s) => StaysWith(r, p, s)
    <3>1. CASE call[r].product = p
      <4>1. Everywhere(p, s) => s \in Skus(seen[r]) /\ Has(row[p], s)
        BY <2>2, <3>1 DEF Everywhere, Holding
      <4>2. Everywhere(p, s) =>
              /\ Has(row'[p], s)
              /\ row'[p] # Absent /\ s \in stocked[p] => s \in stocked'[p]
        BY <1>3, <3>1, <4>1, CommitHas
      <4> QED
        BY <2>1, <4>2 DEF Everywhere, StaysWith, Holding
    <3>2. CASE call[r].product # p
      BY <2>1, <3>2 DEF Everywhere, StaysWith, Holding
    <3> QED
      BY <3>1, <3>2
  <2>4. Adds(call[r]) => Has(row'[call[r].product], call[r].sku)
    <3> SUFFICES ASSUME Adds(call[r]) PROVE Has(row'[call[r].product], call[r].sku)
      OBVIOUS
    <3>1. call[r].op \in {"create", "sku"}
      BY DEF Adds
    <3>2. call[r].sku \in Skus(seen[r]) /\ call[r].sku \in Sku
      BY <1>2, <2>2, <3>1, CallFacts DEF AddsWell
    <3> QED
      BY <1>3, <3>1, <3>2, CommitHas
  <2> QED
    BY <2>1, <2>3, <2>4 DEF Adding
<1>4. CASE CommitThrows(r) \/ RequestFails(r)
  <2>1. pc'[r] \in AtRest /\ cache' = cache /\ row' = row /\ stocked' = stocked
    BY <1>4, EndsWith DEF CommitThrows, RequestFails, rowVars
  <2> QED
    BY <2>1 DEF Everywhere, StaysWith, Adding, Holding, AtRest
<1>5. CASE Evict(r)
  <2>1. row' = row /\ stocked' = stocked /\ cache'[p] \in {cache[p], Absent}
    BY <1>2, <1>5 DEF Evict, rowVars
  <2>2. pc'[r] \in AtRest \union {"stocking"}
    <3>1. Finish(r, "done") \/ Goto(r, "stocking")
      BY <1>5 DEF Evict, AfterCommit
    <3> QED
      BY <1>2, <3>1, EndsWith DEF Goto
  <2> QED
    BY <2>1, <2>2 DEF Everywhere, StaysWith, Adding, Holding, AtRest, Has
<1>6. CASE AddStock(r)
  <2>1. pc'[r] \in AtRest /\ cache' = cache /\ row' = row
    BY <1>6, EndsWith DEF AddStock
  <2>2. stocked[p] \subseteq stocked'[p]
    BY <1>2, <1>6 DEF AddStock
  <2> QED
    BY <2>1, <2>2 DEF Everywhere, StaysWith, Adding, Holding, AtRest
<1> QED
  BY <1>3, <1>4, <1>5, <1>6

(* Every step is one of a single request or of none; it finishes the addition of none but its own. *)
LEMMA OneMoves ==
  ASSUME CatalogShape, NEW r \in Request,
         \/ Lookup(r) \/ LookupFails(r) \/ Load(r) \/ Fill(r) \/ FindExisting(r)
         \/ Commit(r) \/ CommitThrows(r) \/ Evict(r) \/ AddStock(r) \/ RequestFails(r)
  PROVE  /\ OthersWait(r) /\ made' = made /\ InFlight(r)
         /\ call'[r] = call[r] \/ ~InFlight(r)'
         /\ pc[r] = "committed" => row' = row /\ pc'[r] \notin Holding
         /\ \A p \in Product : p # call[r].product => row'[p] = row[p]
<1>1. CASE Serve(r)
  <2>1. pc[r] = "committed" => row' = row /\ pc'[r] \notin Holding
    <3> SUFFICES ASSUME pc[r] = "committed" PROVE row' = row /\ pc'[r] \notin Holding
      OBVIOUS
    <3>1. Evict(r)
      BY <1>1 DEF Serve, Lookup, Load, Fill, FindExisting, Commit, Writes, CommitThrows, AddStock
    <3>2. Finish(r, "done") \/ Goto(r, "stocking")
      BY <3>1 DEF Evict, AfterCommit
    <3> QED
      BY <3>1, <3>2, EndsWith DEF Evict, rowVars, Goto, Holding, AtRest, CatalogShape, RequestsOK
  <2>2. OnlyRow(call[r].product) /\ OthersWait(r) /\ made' = made /\ InFlight(r)
    BY <1>1, ServeEffects
  <2> QED
    BY <1>1, <2>1, <2>2, ServeEffects DEF OnlyRow
<1>2. CASE LookupFails(r)
  <2>1. pc' = [pc EXCEPT ![r] = "miss"] /\ call' = call /\ seen' = seen /\ old' = old
    BY <1>2 DEF LookupFails, Goto
  <2> QED
    BY <1>2, <2>1 DEF LookupFails, rowVars, OthersWait, InFlight, AtRest, CatalogShape, RequestsOK
<1>3. CASE RequestFails(r)
  BY <1>3, EndsWith DEF RequestFails, rowVars, InFlight, Holding, AtRest
<1> QED
  BY <1>1, <1>2, <1>3 DEF Serve

(* What a step of r leaves of the invariant. *)
LEMMA CleanAfter ==
  ASSUME CatalogShape, CleanInv, Track, NEW r \in Request, OthersWait(r), Adding(r),
         \A p \in Product : made[p] \subseteq made'[p],
         \A p \in Product : \A s \in clean[p] : StaysWith(r, p, s),
         \/ row' = row
         \/ InFlight(r) /\ \A p \in Product : p # call[r].product => row'[p] = row[p],
         pc[r] = "committed" => row' = row /\ pc'[r] \notin Holding
  PROVE  CleanInv'
<1>1. ASSUME NEW q \in Request, Added(q)
      PROVE  /\ q = r /\ InFlight(q) /\ call[q].product \in Product
             /\ call[q].sku \in Sku /\ call[q].sku \in made[call[q].product]
  <2>1. q = r /\ pc[q] = "committed" /\ pc[q] \in Flight
    BY <1>1 DEF Added, OthersWait, Flight
  <2>2. call[q] \in Call /\ HoldsGood(made, pc[q], call[q], seen[q])
    BY <2>1 DEF CatalogShape, RequestsOK, RequestOK
  <2>3. call[q].op \in {"create", "sku"}
    BY <1>1 DEF Added, Adds
  <2> QED
    BY <2>1, <2>2, <2>3, CallFacts DEF HoldsGood, InFlight, AtRest
<1>2. met' \in [Request -> BOOLEAN] /\ clean' \in [Product -> SUBSET Sku]
  <2>1. met' \in [Request -> BOOLEAN]
    BY DEF Track, CleanInv, InFlight, Beside
  <2>2. \A p \in Product : CleanlyAdded(p) \subseteq Sku
    BY <1>1 DEF CleanlyAdded
  <2> QED
    BY <2>1, <2>2 DEF Track, CleanInv
<1>3. \A q \in Request : /\ met'[q] <=> InFlight(q)' /\ (met[q] \/ Beside(q)')
  BY DEF Track
<1>4. Meeting'
  <2> SUFFICES ASSUME NEW u \in Request, NEW q \in Request,
                      u # q, InFlight(u)', InFlight(q)', call'[u].product = call'[q].product
               PROVE  met'[u]
    BY DEF Meeting
  <2>1. Beside(u)'
    BY DEF Beside
  <2> QED
    BY <1>3, <2>1
<1>5. ASSUME NEW q \in Request PROVE AddsWell(q)'
  <2>1. pc'[q] = "committed" /\ ~met'[q] => ~met[q]
    BY <1>3 DEF InFlight, AtRest
  <2>2. CASE q = r
    BY <2>1, <2>2 DEF Adding, AddsWell, CleanInv
  <2>3. CASE q # r
    <3>1. pc'[q] = pc[q] /\ call'[q] = call[q] /\ seen'[q] = seen[q]
      BY <2>3 DEF OthersWait
    <3>2. pc[q] = "committed" => InFlight(q) /\ call[q].product \in Product
      BY CallFacts DEF InFlight, AtRest, Flight, CatalogShape, RequestsOK, RequestOK
    <3>3. pc[q] = "committed" /\ ~met[q] => row'[call[q].product] = row[call[q].product]
      BY <2>3, <3>2 DEF CleanInv, Meeting
    <3> QED
      BY <2>1, <3>1, <3>3 DEF AddsWell, CleanInv
  <2> QED
    BY <2>2, <2>3
<1>6. ASSUME NEW p \in Product, NEW s \in clean'[p] PROVE Everywhere(p, s)'
  <2>1. CASE s \in clean[p]
    <3>1. Everywhere(p, s) /\ StaysWith(r, p, s)
      BY <2>1 DEF CleanInv
    <3>2. ASSUME NEW q \in Request, call'[q].product = p, pc'[q] \in Holding PROVE s \in Skus(seen'[q])
      BY <3>1, <3>2 DEF Everywhere, StaysWith, OthersWait
    <3> QED
      BY <3>1, <3>2 DEF Everywhere, StaysWith, Has
  <2>2. CASE s \notin clean[p]
    <3>1. s \in CleanlyAdded(p) /\ cache'[p] = Absent
      BY <2>2 DEF Track
    <3>2. Added(r) /\ call[r].product = p /\ ~met[r] /\ s = call[r].sku
      BY <1>1, <3>1 DEF CleanlyAdded
    <3>3. s \in made'[p] /\ row' = row /\ pc'[r] \notin Holding
      BY <1>1, <3>2 DEF Added
    <3>4. Has(row[p], s)
      BY <3>2 DEF Added, CleanInv, AddsWell
    <3>5. ASSUME NEW q \in Request, call'[q].product = p, pc'[q] \in Holding PROVE FALSE
      <4>1. q # r /\ InFlight(q) /\ call[q].product = p
        BY <3>3, <3>5 DEF OthersWait, InFlight, AtRest, Holding
      <4> QED
        BY <1>1, <3>2, <4>1 DEF CleanInv, Meeting
    <3> QED
      BY <3>1, <3>3, <3>4, <3>5 DEF Everywhere, Has
  <2> QED
    BY <2>1, <2>2
<1> QED
  BY <1>2, <1>4, <1>5, <1>6 DEF CleanInv

(* A step of no request. *)
LEMMA CleanBeside ==
  ASSUME CatalogShape, CleanInv, Track, UNCHANGED <<row, made, pc, call, seen>>,
         \A p \in Product : cache'[p] \in {cache[p], Absent}
  PROVE  CleanInv'
<1>1. \A q \in Request : ~Added(q)
  BY DEF Added
<1>2. clean' = clean
  BY <1>1 DEF Track, CleanlyAdded, CleanInv
<1>3. met' \in [Request -> BOOLEAN] /\ \A q \in Request : InFlight(q) /\ met[q] => met'[q]
  BY DEF Track, CleanInv, InFlight, Beside
<1>4. Meeting'
  BY <1>3 DEF CleanInv, Meeting, InFlight
<1>5. \A q \in Request : AddsWell(q)'
  BY <1>3 DEF CleanInv, AddsWell, InFlight, AtRest, Has
<1>6. \A p \in Product : \A s \in clean[p] : Everywhere(p, s)'
  BY DEF CleanInv, Everywhere, Has
<1> QED
  BY <1>2, <1>3, <1>4, <1>5, <1>6 DEF CleanInv

StockStaysHere == \A p \in Product : row'[p] # Absent => stocked[p] \intersect clean[p] \subseteq stocked'[p]

LEMMA CleanStep ==
  ASSUME CatalogShape, CleanInv, [AdditionsNext]_additionsVars
  PROVE  CleanInv' /\ StockStaysHere
<1>1. CASE UNCHANGED additionsVars
  BY <1>1 DEF additionsVars, vars, rowVars, requestVars, CleanInv, Meeting, AddsWell, Everywhere,
     InFlight, StockStaysHere
<1>2. CASE AdditionsNext
  <2>1. [Next]_vars /\ Track
    BY <1>2 DEF AdditionsNext
  <2>2. CASE UNCHANGED vars
    BY <2>1, <2>2, CleanBeside DEF vars, rowVars, requestVars, StockStaysHere
  <2>3. ASSUME NEW r \in Request, NEW c \in Calls, Send(r, c) PROVE CleanInv' /\ StockStaysHere
    <3>1. /\ OthersWait(r) /\ row' = row /\ cache' = cache /\ stocked' = stocked
          /\ call'[r] = c /\ c \in Call /\ ~InFlight(r)
          /\ pc'[r] \in {"lookup", "saving"}
          /\ pc'[r] = "saving" => made[c.product] = {} /\ (Adds(c) => c.sku \in Skus(seen'[r]))
      BY <2>3, SendHas
    <3>2. \A p \in Product : made[p] \subseteq made'[p]
      BY <2>3 DEF Send, Receive, NewIds, CatalogShape, RowsOK
    <3>3. Adding(r)
      BY <3>1 DEF Adding
    <3>4. \A p \in Product : \A s \in clean[p] : StaysWith(r, p, s)
      BY <3>1 DEF CleanInv, Everywhere, StaysWith, Holding
    <3>5. CleanInv'
      BY <2>1, <3>1, <3>2, <3>3, <3>4, CleanAfter DEF InFlight, AtRest
    <3> QED
      BY <3>1, <3>5 DEF StockStaysHere
  <2>4. ASSUME NEW r \in Request, Close(r) PROVE CleanInv' /\ StockStaysHere
    <3>1. /\ OthersWait(r) /\ row' = row /\ cache' = cache /\ stocked' = stocked /\ made' = made
          /\ pc'[r] = "idle" /\ pc[r] # "committed"
      BY <2>4 DEF Close, Goto, OthersWait, rowVars, CatalogShape, RequestsOK
    <3>2. Adding(r)
      BY <3>1 DEF Adding
    <3>3. \A p \in Product : \A s \in clean[p] : StaysWith(r, p, s)
      BY <3>1 DEF CleanInv, Everywhere, StaysWith, Holding
    <3>4. CleanInv'
      BY <2>1, <3>1, <3>2, <3>3, CleanAfter
    <3> QED
      BY <3>1, <3>4 DEF StockStaysHere
  <2>5. ASSUME NEW r \in Request,
               \/ Lookup(r) \/ LookupFails(r) \/ Load(r) \/ Fill(r) \/ FindExisting(r)
               \/ Commit(r) \/ CommitThrows(r) \/ Evict(r) \/ AddStock(r) \/ RequestFails(r)
        PROVE  CleanInv' /\ StockStaysHere
    <3>1. AddsWell(r) /\ clean \in [Product -> SUBSET Sku]
      BY DEF CleanInv
    <3>2. \A p \in Product : \A s \in Sku : (Everywhere(p, s) => StaysWith(r, p, s)) /\ Adding(r)
      BY <2>5, <3>1, ReadingStays, WritingStays
    <3>3. \A p \in Product : \A s \in clean[p] : Everywhere(p, s) /\ StaysWith(r, p, s)
      BY <3>1, <3>2 DEF CleanInv
    <3>4. /\ OthersWait(r) /\ made' = made /\ InFlight(r)
          /\ pc[r] = "committed" => row' = row /\ pc'[r] \notin Holding
          /\ \A p \in Product : p # call[r].product => row'[p] = row[p]
      BY <2>5, OneMoves
    <3>5. Adding(r)
      <4>1. ASSUME NEW p \in Product, NEW s \in Sku PROVE Adding(r)
        BY <3>2
      <4>2. CASE Adds(call'[r]) /\ pc'[r] \in {"saving", "writing", "committed"}
        <5>1. call[r] = call'[r] /\ call[r] \in Call /\ call[r].op \in {"create", "sku"}
          BY <2>5, <4>2, OneMoves DEF Adds, InFlight, AtRest, CatalogShape, RequestsOK, RequestOK, Flight
        <5> QED
          BY <4>1, <5>1, CallFacts
      <4> QED
        BY <4>2 DEF Adding
    <3>6. CleanInv'
      BY <2>1, <3>3, <3>4, <3>5, CleanAfter
    <3>7. StockStaysHere
      BY <3>3 DEF StockStaysHere, StaysWith
    <3> QED
      BY <3>6, <3>7
  <2>6. ASSUME NEW p \in Product, Expire(p) PROVE CleanInv' /\ StockStaysHere
    <3>1. /\ UNCHANGED <<row, made, stocked, pc, call, seen>>
          /\ \A q \in Product : cache'[q] \in {cache[q], Absent}
      BY <2>6 DEF Expire, rowVars, requestVars, CatalogShape, RowsOK
    <3> QED
      BY <2>1, <3>1, CleanBeside DEF StockStaysHere
  <2> QED
    BY <2>1, <2>2, <2>3, <2>4, <2>5, <2>6, StepsOfCatalog
<1> QED
  BY <1>1, <1>2

LEMMA CleanStart == AdditionsInit => CatalogShape /\ CleanInv
<1> SUFFICES ASSUME AdditionsInit PROVE CatalogShape /\ CleanInv
  OBVIOUS
<1>1. CatalogShape
  BY ShapeInit DEF AdditionsInit
<1>2. /\ row = Seed /\ \A p \in Product : cache[p] = Absent /\ made[p] = Skus(Seed[p])
      /\ \A r \in Request : pc[r] = "idle"
      /\ clean = [p \in Product |-> Skus(Seed[p])] /\ met = [r \in Request |-> FALSE]
  BY DEF AdditionsInit, Init
<1>3. \A p \in Product : Skus(Seed[p]) \subseteq Sku
  BY DEF Skus
<1>4. CleanInv
  BY <1>2, <1>3 DEF CleanInv, Meeting, AddsWell, Everywhere, Has, InFlight, AtRest, Holding
<1> QED
  BY <1>1, <1>4

(* Whatever overlaps, crashes or fails to evict, an inventory row whose SKU was added alone goes *)
(* with its product and no sooner: every copy that somebody may write back whole has the SKU     *)
(* (Everywhere), so the deleteMany of save has nothing to drop.                                   *)
THEOREM StockStays == AdditionsSpec => StockGoesWithItsProduct
<1>1. CatalogShape /\ [AdditionsNext]_additionsVars => CatalogShape'
  <2>1. [AdditionsNext]_additionsVars => [Next]_vars
    BY DEF AdditionsNext, additionsVars
  <2> QED
    BY <2>1, ShapeStep
<1>2. CatalogShape /\ CleanInv /\ [AdditionsNext]_additionsVars => CleanInv'
  BY CleanStep
<1>3. CatalogShape /\ CleanInv /\ [AdditionsNext]_additionsVars => [StockStaysHere]_additionsVars
  BY CleanStep
<1> QED
  BY <1>1, <1>2, <1>3, CleanStart, PTL DEF AdditionsSpec, StockGoesWithItsProduct, StockStaysHere
--------------------------------------------------------------------------------
Preparing == {"create", "read", "flush", "flushed"}

(* What holds whatever meets: names are those of indexes that exist. *)
NamesOK ==
  /\ up \in {"down", "created", "up", "deaf"} /\ faults \in Nat /\ overlap \in BOOLEAN
  /\ index \subseteq 0..MaxIndex /\ alias \subseteq index \ {0}
  /\ Taken => alias = {}
  /\ at \in [Handler -> {"idle", "fetch", "delete"}]
  /\ jpc \in [Job -> {"idle", "swap", "swapped"} \union Preparing]
  /\ next \in [Job -> 0..MaxIndex] /\ live \in [Job -> 0..MaxIndex]
  /\ \A j \in Job : /\ Running(j) => next[j] # 0
                    /\ jpc[j] \notin {"swap", "swapped"} => live[j] = 0

(* A reindex that is alone, in the order of its steps. *)
LoneJob(j) ==
  /\ jpc[j] \in Preparing => next[j] \notin alias
  /\ jpc[j] = "swap" => next[j] \notin alias /\ alias \subseteq {live[j]} /\ live[j] # next[j]
  /\ jpc[j] = "swapped" => alias = {next[j]} /\ live[j] # next[j]

NoJob == \A j \in Job : ~Running(j)

(* A boot without failure ends with an alias. *)
CleanBoot ==
  /\ up # "deaf"
  /\ up # "up" => \A h \in Handler : Idle(h)
  /\ up = "down" => index = {} /\ NoJob
  /\ up = "created" => index = {1}
  /\ up = "up" => alias # {}

Lone ==
  /\ \A j, k \in Job : Running(j) /\ Running(k) => j = k
  /\ \A i, k \in alias : i = k
  /\ up = "created" => alias = {} /\ NoJob
  /\ \A j \in Job : LoneJob(j)
  /\ faults = 0 => CleanBoot

AliasInv == NamesOK /\ (~overlap => Lone)

(* Numbers that are bounded have a greatest among them. *)
LEMMA GreatestOfNumbers ==
  ASSUME NEW n \in Nat, NEW S, S \subseteq 0..n, S # {}
  PROVE  Max(S) \in S /\ \A i \in S : i <= Max(S)
<1> DEFINE T == {n - i : i \in S}
<1>1. T \subseteq Nat /\ T # {}
  <2>1. PICK s \in S : TRUE
    OBVIOUS
  <2>2. n - s \in T
    BY <2>1
  <2> QED
    BY <2>2
<1>2. IsWellFoundedOn({p \in Nat \X Nat : p[1] < p[2]}, Nat)
  BY NatLessThanWellFounded DEF OpToRel
<1>3. PICK t \in T : \A u \in T : ~(<<u, t>> \in {p \in Nat \X Nat : p[1] < p[2]})
  BY <1>1, <1>2, WFMin
<1>4. PICK i \in S : t = n - i
  BY <1>3
<1>5. \A k \in S : i >= k
  <2> SUFFICES ASSUME NEW k \in S PROVE i >= k
    OBVIOUS
  <2>1. n - k \in T /\ n - k \in Nat /\ t \in Nat
    BY <1>1
  <2>2. ~(n - k < t)
    BY <1>3, <2>1
  <2> QED
    BY <1>4, <2>2
<1>6. Max(S) \in S /\ \A k \in S : Max(S) >= k
  <2>1. \E m \in S : \A k \in S : m >= k
    BY <1>5
  <2> QED
    BY <2>1 DEF Max
<1> QED
  BY <1>6

(* A failure is counted, and the steps of the catalog are no business of the indexes. *)
LEMMA FaultsGrow ==
  ASSUME [Next]_vars
  PROVE  faults' \in {faults, faults + 1}
BY StepsOfCatalog DEF vars, Send, Receive, Close, Lookup, LookupFails, Load, Fill, FindExisting,
   Commit, CommitThrows, Evict, AddStock, RequestFails, Expire, Fault

(* One job goes on. *)
JobGoes(j, a, n, l) ==
  jpc' = [jpc EXCEPT ![j] = a] /\ next' = [next EXCEPT ![j] = n] /\ live' = [live EXCEPT ![j] = l]

LEMMA JobGoesOn ==
  ASSUME NamesOK, NEW j \in Job, NEW a \in {"idle", "swap", "swapped"} \union Preparing,
         NEW n \in 0..MaxIndex, NEW l \in 0..MaxIndex, JobGoes(j, a, n, l),
         a # "idle" => n # 0, a \notin {"swap", "swapped"} => l = 0,
         up' = up, at' = at, faults' \in Nat, overlap' \in BOOLEAN,
         index' \subseteq 0..MaxIndex, alias' \subseteq index' \ {0}, Taken' => alias' = {}
  PROVE  /\ NamesOK'
         /\ jpc'[j] = a /\ next'[j] = n /\ live'[j] = l
         /\ \A k \in Job \ {j} : jpc'[k] = jpc[k] /\ next'[k] = next[k] /\ live'[k] = live[k]
<1>1. /\ jpc' \in [Job -> {"idle", "swap", "swapped"} \union Preparing]
      /\ next' \in [Job -> 0..MaxIndex] /\ live' \in [Job -> 0..MaxIndex]
      /\ jpc'[j] = a /\ next'[j] = n /\ live'[j] = l
      /\ \A k \in Job \ {j} : jpc'[k] = jpc[k] /\ next'[k] = next[k] /\ live'[k] = live[k]
  BY DEF NamesOK, JobGoes
<1>2. \A k \in Job : /\ Running(k)' => next'[k] # 0
                     /\ jpc'[k] \notin {"swap", "swapped"} => live'[k] = 0
  BY <1>1 DEF NamesOK, Running
<1> QED
  BY <1>1, <1>2 DEF NamesOK

LEMMA EndJobGoes ==
  ASSUME NEW j \in Job, EndJob(j)
  PROVE  JobGoes(j, "idle", 0, 0)
BY DEF EndJob, JobGoto, JobGoes

LEMMA ChooseNextAlias ==
  ASSUME AliasInv, NEW j \in Job, ChooseNext(j)
  PROVE  AliasInv'
<1> DEFINE m == Max(index \union {0})
<1> USE DEF AliasInv
<1>1. m \in index \union {0} /\ (\A i \in index \union {0} : i <= m) /\ m \in Nat
  <2>1. index \union {0} \subseteq 0..MaxIndex /\ MaxIndex \in Nat
    BY SearchAssumption DEF NamesOK
  <2> QED
    BY <2>1, GreatestOfNumbers
<1> HIDE DEF m
<1>2. /\ jpc[j] = "idle" /\ jpc' = [jpc EXCEPT ![j] = "create"] /\ next' = [next EXCEPT ![j] = m + 1]
      /\ next'[j] <= MaxIndex
      /\ UNCHANGED <<up, index, alias, at, live, faults>>
      /\ overlap' = (overlap \/ up \in {"down", "created"} \/ \E k \in Job : Running(k))
  BY DEF ChooseNext, JobGoto, esVars, handlerVars, vars, m
<1>3. m + 1 \in 0..MaxIndex /\ m + 1 # 0 /\ m + 1 \notin alias
  <2>1. m + 1 <= MaxIndex
    BY <1>2 DEF NamesOK
  <2> QED
    BY <1>1, <2>1, SearchAssumption DEF NamesOK
<1>4. NamesOK' /\ jpc'[j] = "create" /\ next'[j] = m + 1
  <2>1. JobGoes(j, "create", m + 1, live[j]) /\ live[j] = 0
    BY <1>2 DEF NamesOK, JobGoes
  <2>2. index' \subseteq 0..MaxIndex /\ alias' \subseteq index' \ {0} /\ (Taken' => alias' = {})
    BY <1>2 DEF NamesOK, Taken
  <2>3. faults' \in Nat /\ overlap' \in BOOLEAN /\ up' = up /\ at' = at
    BY <1>2 DEF NamesOK
  <2> QED
    BY <1>3, <2>1, <2>2, <2>3, JobGoesOn, SearchAssumption DEF Preparing
<1>5. ASSUME ~overlap' PROVE Lone'
  <2>1. ~overlap /\ up \notin {"down", "created"} /\ NoJob /\ Lone
    BY <1>2, <1>5 DEF NoJob
  <2>2. \A k \in Job : k # j => jpc'[k] = "idle" /\ jpc[k] = "idle"
    BY <1>2, <2>1 DEF NamesOK, NoJob, Running
  <2>4. \A k \in Job : LoneJob(k)'
    BY <1>2, <1>3, <1>4, <2>2 DEF LoneJob, Preparing
  <2>5. faults' = 0 => CleanBoot'
    BY <1>2, <2>1 DEF Lone, CleanBoot, Idle
  <2> QED
    BY <1>2, <2>1, <2>2, <2>4, <2>5 DEF Lone, Running
<1> QED
  BY <1>4, <1>5

(* A job that is alone and goes on. *)
LEMMA LoneJobGoesOn ==
  ASSUME NamesOK, Lone, NEW j \in Job, Running(j), up' = up, at' = at, faults' \in {faults, faults + 1},
         \A k \in Job \ {j} : jpc'[k] = jpc[k], LoneJob(j)',
         \A i, k \in alias' : i = k, alias # {} => alias' # {}
  PROVE  Lone'
<1>1. \A k \in Job : k # j => jpc'[k] = "idle"
  BY DEF Lone, Running
<1>2. up # "created"
  BY DEF Lone, NoJob
<1>3. \A k \in Job : LoneJob(k)'
  BY <1>1 DEF LoneJob, Preparing
<1>4. ASSUME faults' = 0 PROVE CleanBoot'
  <2>1. faults = 0
    BY <1>4 DEF NamesOK
  <2>2. CleanBoot /\ up = "up"
    BY <1>2, <2>1 DEF Lone, CleanBoot, NoJob, NamesOK
  <2> QED
    BY <2>2 DEF CleanBoot
<1> QED
  BY <1>1, <1>2, <1>3, <1>4 DEF Lone, Running

(* Steps that leave the alias and the indexes alone, and a new index. *)
LEMMA QuietJobAlias ==
  ASSUME AliasInv, NEW j \in Job,
         \/ CreateIndex(j) \/ NextPage(j) \/ Flush(j) \/ JobFails(j)
         \/ \E c \in Currency : ReadPage(j, c)
  PROVE  AliasInv'
<1> USE DEF AliasInv
<1>1. /\ Running(j) /\ alias' = alias /\ up' = up /\ at' = at /\ overlap' = overlap
      /\ faults' \in {faults, faults + 1}
  BY DEF CreateIndex, NextPage, Flush, JobFails, ReadPage, Running, esVars, handlerVars, vars, Fault
<1>2. \/ JobGoes(j, "idle", 0, 0) /\ index' = index
      \/ jpc[j] \in Preparing /\ (index' = index \/ index' = index \union {next[j]})
         /\ \E a \in Preparing : JobGoes(j, a, next[j], live[j])
  <2>1. CASE JobFails(j) \/ (CreateIndex(j) /\ next[j] \in index)
    BY <2>1, EndJobGoes DEF JobFails, CreateIndex, esVars
  <2>2. CASE CreateIndex(j) /\ next[j] \notin index
    BY <2>2 DEF CreateIndex, JobGoto, JobGoes, Preparing, NamesOK
  <2>3. CASE NextPage(j)
    BY <2>3 DEF NextPage, JobGoto, JobGoes, Preparing, NamesOK, esVars
  <2>4. CASE Flush(j)
    BY <2>4 DEF Flush, JobGoto, JobGoes, Preparing, NamesOK
  <2>5. CASE \E c \in Currency : ReadPage(j, c)
    <3>1. jpc[j] = "read" /\ jpc' = jpc /\ next' = next /\ live' = live /\ index' = index
      BY <2>5 DEF ReadPage, esVars
    <3>2. JobGoes(j, "read", next[j], live[j])
      BY <3>1 DEF JobGoes, NamesOK
    <3> QED
      BY <3>1, <3>2 DEF Preparing
  <2> QED
    BY <2>1, <2>2, <2>3, <2>4, <2>5
<1>3. next[j] \in 0..MaxIndex /\ next[j] # 0 /\ live[j] \in 0..MaxIndex
  BY <1>1 DEF NamesOK
<1>4. index' \subseteq 0..MaxIndex /\ alias' \subseteq index' \ {0} /\ (Taken' => alias' = {})
  <2>1. index \subseteq index' /\ index' \subseteq index \union {next[j]}
    BY <1>2
  <2>2. next[j] \in 0..MaxIndex
    BY <1>3, SearchAssumption
  <2>3. Taken' => Taken
    BY <1>3, <2>1 DEF Taken
  <2> QED
    BY <1>1, <2>1, <2>2, <2>3 DEF NamesOK
<1>5. faults' \in Nat /\ overlap' \in BOOLEAN
  BY <1>1 DEF NamesOK
<1>6. CASE JobGoes(j, "idle", 0, 0)
  <2>1. NamesOK' /\ jpc'[j] = "idle" /\ \A k \in Job \ {j} : jpc'[k] = jpc[k]
    BY <1>1, <1>4, <1>5, <1>6, JobGoesOn, SearchAssumption
  <2>2. LoneJob(j)'
    BY <2>1 DEF LoneJob, Preparing
  <2> QED
    BY <1>1, <2>1, <2>2, LoneJobGoesOn DEF Lone
<1>7. CASE jpc[j] \in Preparing /\ \E a \in Preparing : JobGoes(j, a, next[j], live[j])
  <2>1. PICK a \in Preparing : JobGoes(j, a, next[j], live[j])
    BY <1>7
  <2>2. a \in {"idle", "swap", "swapped"} \union Preparing /\ live[j] = 0
    BY <1>7 DEF NamesOK, Preparing
  <2>3. /\ NamesOK' /\ jpc'[j] = a /\ next'[j] = next[j]
        /\ \A k \in Job \ {j} : jpc'[k] = jpc[k]
    <3>1. up' = up /\ at' = at /\ (a # "idle" => next[j] # 0) /\ (a \notin {"swap", "swapped"} => live[j] = 0)
      BY <1>1, <1>3, <2>2
    <3> QED
      BY <1>3, <1>4, <1>5, <2>1, <2>2, <3>1, JobGoesOn
  <2>4. ASSUME Lone PROVE LoneJob(j)'
    BY <1>1, <1>7, <2>3, <2>4 DEF Lone, LoneJob, Preparing
  <2> QED
    BY <1>1, <2>3, <2>4, LoneJobGoesOn DEF Lone
<1> QED
  BY <1>2, <1>6, <1>7

LEMMA ReadAliasAlias ==
  ASSUME AliasInv, NEW j \in Job, ReadAlias(j)
  PROVE  AliasInv'
<1> USE DEF AliasInv
<1>1. /\ jpc[j] = "flushed" /\ Running(j) /\ jpc[j] \in Preparing /\ live[j] = 0
      /\ UNCHANGED <<up, at, index, alias, overlap, faults>>
  BY DEF ReadAlias, Running, Preparing, esVars, handlerVars, vars, NamesOK
<1>2. PICK l \in 0..MaxIndex :
        /\ JobGoes(j, "swap", next[j], l)
        /\ (alias = {} /\ l = 0) \/ l \in alias
  <2>1. CASE alias = {}
    <3>1. JobGoes(j, "swap", next[j], 0)
      BY <1>1, <2>1 DEF ReadAlias, JobGoto, JobGoes, NamesOK
    <3> QED
      BY <2>1, <3>1, SearchAssumption
  <2>2. CASE alias # {}
    <3>1. PICK i \in alias : live' = [live EXCEPT ![j] = i]
      BY <2>2 DEF ReadAlias
    <3>2. JobGoes(j, "swap", next[j], i) /\ i \in 0..MaxIndex
      BY <3>1 DEF ReadAlias, JobGoto, JobGoes, NamesOK
    <3> QED
      BY <3>2
  <2> QED
    BY <2>1, <2>2
<1>3. /\ next[j] \in 0..MaxIndex /\ next[j] # 0
      /\ index' \subseteq 0..MaxIndex /\ alias' \subseteq index' \ {0} /\ (Taken' => alias' = {})
      /\ faults' \in Nat /\ overlap' \in BOOLEAN
  BY <1>1 DEF NamesOK, Taken
<1>4. /\ NamesOK' /\ jpc'[j] = "swap" /\ next'[j] = next[j] /\ live'[j] = l
      /\ \A k \in Job \ {j} : jpc'[k] = jpc[k]
  BY <1>1, <1>2, <1>3, JobGoesOn
<1>5. ASSUME Lone PROVE LoneJob(j)'
  BY <1>1, <1>2, <1>3, <1>4, <1>5 DEF Lone, LoneJob, Preparing
<1> QED
  BY <1>1, <1>4, <1>5, LoneJobGoesOn DEF Lone

LEMMA SwapAlias ==
  ASSUME AliasInv, NEW j \in Job, SwapAliasTo(j)
  PROVE  AliasInv'
<1> USE DEF AliasInv
<1> DEFINE Refused == Taken \/ ~(({live[j]} \ {0}) \union {next[j]} \subseteq index)
<1>1. jpc[j] = "swap" /\ Running(j) /\ UNCHANGED <<up, at, index, overlap, faults>>
  BY DEF SwapAliasTo, Running, handlerVars, vars
<1>2. /\ next[j] \in 0..MaxIndex /\ next[j] # 0 /\ live[j] \in 0..MaxIndex
      /\ index' \subseteq 0..MaxIndex /\ faults' \in Nat /\ overlap' \in BOOLEAN
  BY <1>1 DEF NamesOK
<1>3. CASE Refused
  <2>1. JobGoes(j, "idle", 0, 0) /\ alias' = alias
    BY <1>3, EndJobGoes DEF SwapAliasTo
  <2>2. alias' \subseteq index' \ {0} /\ (Taken' => alias' = {})
    BY <1>1, <2>1 DEF NamesOK, Taken
  <2>3. NamesOK' /\ jpc'[j] = "idle" /\ \A k \in Job \ {j} : jpc'[k] = jpc[k]
    BY <1>1, <1>2, <2>1, <2>2, JobGoesOn, SearchAssumption
  <2>4. LoneJob(j)'
    BY <2>3 DEF LoneJob, Preparing
  <2> QED
    BY <1>1, <2>1, <2>3, <2>4, LoneJobGoesOn DEF Lone
<1>4. CASE ~Refused
  <2>1. JobGoes(j, "swapped", next[j], live[j]) /\ alias' = (alias \ {live[j]}) \union {next[j]}
    BY <1>4 DEF SwapAliasTo, JobGoto, JobGoes, NamesOK
  <2>2. alias' \subseteq index' \ {0} /\ (Taken' => alias' = {})
    BY <1>1, <1>2, <1>4, <2>1 DEF NamesOK, Taken
  <2>3. /\ NamesOK' /\ jpc'[j] = "swapped" /\ next'[j] = next[j] /\ live'[j] = live[j]
        /\ \A k \in Job \ {j} : jpc'[k] = jpc[k]
    BY <1>1, <1>2, <2>1, <2>2, JobGoesOn
  <2>4. ASSUME Lone PROVE alias' = {next[j]} /\ LoneJob(j)'
    BY <1>1, <2>1, <2>3, <2>4 DEF Lone, LoneJob, Preparing
  <2> QED
    BY <1>1, <2>3, <2>4, LoneJobGoesOn
<1> QED
  BY <1>3, <1>4

LEMMA DeleteAlias ==
  ASSUME AliasInv, NEW j \in Job, DeleteIndex(j)
  PROVE  AliasInv'
<1> USE DEF AliasInv
<1>1. /\ jpc[j] = "swapped" /\ Running(j) /\ UNCHANGED <<up, at, overlap, faults>>
      /\ index' = index \ ({live[j]} \ {0}) /\ alias' = alias \ {live[j]}
      /\ JobGoes(j, "idle", 0, 0)
  BY EndJobGoes DEF DeleteIndex, Running, handlerVars, vars
<1>2. /\ index' \subseteq 0..MaxIndex /\ faults' \in Nat /\ overlap' \in BOOLEAN
      /\ alias' \subseteq index' \ {0} /\ (Taken' => alias' = {})
  BY <1>1 DEF NamesOK, Taken
<1>3. NamesOK' /\ jpc'[j] = "idle" /\ \A k \in Job \ {j} : jpc'[k] = jpc[k]
  BY <1>1, <1>2, JobGoesOn, SearchAssumption
<1>4. LoneJob(j)'
  BY <1>3 DEF LoneJob, Preparing
<1>5. ASSUME Lone PROVE alias' = alias
  BY <1>1, <1>5 DEF Lone, LoneJob
<1> QED
  BY <1>1, <1>3, <1>4, <1>5, LoneJobGoesOn DEF Lone

LEMMA EnsureAliasAlias ==
  ASSUME AliasInv, EnsureAlias
  PROVE  AliasInv'
<1> USE DEF AliasInv
<1>1. /\ up = "down" /\ up' = IF alias # {} \/ 1 \in index THEN "up" ELSE "created"
      /\ index' = IF alias = {} THEN index \union {1} ELSE index
      /\ overlap' = (overlap \/ \E j \in Job : Running(j))
      /\ UNCHANGED <<alias, at, jpc, next, live, faults>>
  BY DEF EnsureAlias, handlerVars, jobVars, vars
<1>2. NamesOK'
  <2>1. index' \subseteq 0..MaxIndex /\ alias' \subseteq index' \ {0} /\ (Taken' => alias' = {})
    BY <1>1, SearchAssumption DEF NamesOK, Taken
  <2>2. up' \in {"down", "created", "up", "deaf"}
    BY <1>1
  <2>3. overlap' \in BOOLEAN
    BY <1>1
  <2> QED
    BY <1>1, <2>1, <2>2, <2>3 DEF NamesOK, Running
<1>3. ASSUME ~overlap' PROVE Lone'
  <2>1. Lone /\ NoJob /\ NoJob'
    BY <1>1, <1>3 DEF NoJob, Running
  <2>2. up' = "created" => alias' = {}
    BY <1>1
  <2>3. \A j \in Job : LoneJob(j)'
    BY <1>1, <2>1 DEF Lone, LoneJob
  <2>4. ASSUME faults' = 0 PROVE CleanBoot'
    <3>1. index = {} /\ alias = {} /\ \A h \in Handler : Idle(h)
      BY <1>1, <2>1, <2>4 DEF Lone, CleanBoot, NamesOK
    <3>2. up' = "created" /\ index' = {1}
      BY <1>1, <3>1
    <3> QED
      BY <1>1, <3>1, <3>2 DEF CleanBoot, Idle
  <2> QED
    BY <1>1, <2>1, <2>2, <2>3, <2>4 DEF Lone, NoJob
<1> QED
  BY <1>2, <1>3

LEMMA PutAliasAlias ==
  ASSUME AliasInv, PutAlias
  PROVE  AliasInv'
<1> USE DEF AliasInv
<1>1. /\ up = "created" /\ up' = "up"
      /\ alias' = IF Taken \/ 1 \notin index THEN alias ELSE alias \union {1}
      /\ UNCHANGED <<index, at, jpc, next, live, overlap, faults>>
  BY DEF PutAlias, handlerVars, jobVars, vars
<1>2. NamesOK'
  <2>1. alias' \subseteq index' \ {0} /\ (Taken' => alias' = {})
    BY <1>1 DEF NamesOK, Taken
  <2> QED
    BY <1>1, <2>1 DEF NamesOK, Running
<1>3. ASSUME Lone PROVE Lone'
  <2>1. NoJob' /\ alias' \subseteq {1}
    BY <1>1, <1>3 DEF Lone, NoJob, Running
  <2>2. \A j \in Job : LoneJob(j)'
    BY <2>1 DEF NoJob, Running, LoneJob, Preparing
  <2>3. ASSUME faults' = 0 PROVE CleanBoot'
    <3>1. index = {1}
      BY <1>1, <1>3, <2>3 DEF Lone, CleanBoot
    <3>2. alias' # {}
      BY <1>1, <3>1 DEF Taken
    <3> QED
      BY <1>1, <3>2 DEF CleanBoot
  <2> QED
    BY <1>1, <2>1, <2>2, <2>3 DEF Lone, NoJob
<1> QED
  BY <1>1, <1>2, <1>3

(* The consumer dies, hangs or starts without an answer. *)
LEMMA MishapAlias ==
  ASSUME AliasInv, EnsureAliasFails \/ Crash \/ ConnectionLost \/ Restart
  PROVE  AliasInv'
<1> USE DEF AliasInv
<1>1. /\ UNCHANGED <<index, alias, jpc, next, live, overlap>>
      /\ up' \in {"up", "deaf", "down"} /\ (faults' = faults + 1 \/ (up = "deaf" /\ faults' = faults))
      /\ at' = at \/ at' = [h \in Handler |-> "idle"]
  <2>1. CASE EnsureAliasFails
    BY <2>1 DEF EnsureAliasFails, Fault, esVars, handlerVars, jobVars
  <2>2. CASE Crash
    BY <2>2 DEF Crash, Fault, esVars, jobVars
  <2>3. CASE ConnectionLost
    BY <2>3 DEF ConnectionLost, Fault, esVars, handlerVars, jobVars
  <2>4. CASE Restart
    BY <2>4 DEF Restart, esVars, jobVars, vars
  <2> QED
    BY <2>1, <2>2, <2>3, <2>4
<1>2. faults' \in Nat /\ (Lone => faults' # 0)
  BY <1>1 DEF Lone, CleanBoot, NamesOK
<1>3. NamesOK'
  BY <1>1, <1>2 DEF NamesOK, Running, Taken
<1>4. ASSUME Lone PROVE Lone'
  <2>1. \A j \in Job : LoneJob(j)' /\ Running(j)' = Running(j)
    BY <1>1, <1>4 DEF Lone, LoneJob, Running
  <2> QED
    BY <1>1, <1>2, <1>4, <2>1 DEF Lone, NoJob, Running
<1> QED
  BY <1>1, <1>3, <1>4

(* A handler writes at most a document, and with it an index of the alias's name. *)
LEMMA HandleAlias ==
  ASSUME AliasInv, NEW h \in Handler, Handle(h)
  PROVE  AliasInv'
<1> USE DEF AliasInv
<1>1. /\ UNCHANGED <<up, alias, jpc, next, live, overlap>> /\ faults' \in {faults, faults + 1}
      /\ \E a \in {"idle", "fetch", "delete"} : at' = [at EXCEPT ![h] = a]
  <2>1. /\ UNCHANGED <<up, alias, jpc, next, live, overlap>> /\ faults' \in {faults, faults + 1}
    BY DEF Handle, Take, Fetch, Skip, IndexDocument, DeleteByProductId, HandlerFails, Fault, esVars, jobVars, vars
  <2>2. at' = at => at' = [at EXCEPT ![h] = at[h]] /\ at[h] \in {"idle", "fetch", "delete"}
    BY DEF NamesOK
  <2>3. at' = at \/ \E a \in {"idle", "fetch", "delete"} : at' = [at EXCEPT ![h] = a]
    BY DEF Handle, Take, Fetch, Skip, IndexDocument, DeleteByProductId, HandlerFails, Stop
  <2> QED
    BY <2>1, <2>2, <2>3
<1>2. index' = index \/ \E i : index' = index \union {i} /\ (i \in alias \/ (alias = {} /\ i = 0))
  <2>1. \/ index' = index
        \/ index' = index \union {WriteIndex}
    BY DEF Handle, Take, Fetch, Skip, IndexDocument, DeleteByProductId, HandlerFails, WriteDoc, esVars
  <2>2. WriteIndex \in alias \/ (alias = {} /\ WriteIndex = 0)
    BY DEF WriteIndex
  <2> QED
    BY <2>1, <2>2
<1>3. index' = index \/ (alias = {} /\ index' = index \union {0})
  <2>1. \A i \in alias : i \in index
    BY DEF NamesOK
  <2>2. \A i \in index : index \union {i} = index
    OBVIOUS
  <2> QED
    BY <1>2, <2>1, <2>2
<1>4. NamesOK'
  <2>1. index' \subseteq 0..MaxIndex /\ alias' \subseteq index' \ {0} /\ (Taken' => alias' = {})
    <3>1. CASE index' = index
      BY <1>1, <3>1 DEF NamesOK, Taken
    <3>2. CASE alias = {} /\ index' = index \union {0}
      <4>1. 0 \in 0..MaxIndex
        BY SearchAssumption
      <4> QED
        BY <1>1, <3>2, <4>1 DEF NamesOK, Taken
    <3> QED
      BY <1>3, <3>1, <3>2
  <2>2. at' \in [Handler -> {"idle", "fetch", "delete"}] /\ faults' \in Nat
    BY <1>1 DEF NamesOK
  <2> QED
    BY <1>1, <2>1, <2>2 DEF NamesOK, Running
<1>5. ASSUME Lone PROVE Lone'
  <2>1. \A j \in Job : LoneJob(j)' /\ Running(j)' = Running(j)
    BY <1>1, <1>5 DEF Lone, LoneJob, Running
  <2>2. ASSUME faults' = 0 PROVE CleanBoot'
    <3>1. faults = 0 /\ CleanBoot
      BY <1>1, <1>5, <2>2 DEF Lone, NamesOK
    <3>2. up = "up"
      <4>1. Idle(h) => up = "up"
        BY DEF Handle, Take, Fetch, Skip, IndexDocument, DeleteByProductId, HandlerFails, Idle
      <4> QED
        BY <3>1, <4>1 DEF CleanBoot
    <3> QED
      BY <1>1, <3>1, <3>2 DEF CleanBoot
  <2> QED
    BY <1>1, <1>5, <2>1, <2>2 DEF Lone, NoJob
<1> QED
  BY <1>1, <1>4, <1>5

LEMMA CatalogAlias ==
  ASSUME AliasInv, UNCHANGED searchVars, faults' \in {faults, faults + 1}
  PROVE  AliasInv'
<1> USE DEF AliasInv
<1>1. UNCHANGED <<up, index, alias, at, jpc, next, live, overlap>>
  BY DEF searchVars, esVars, handlerVars, jobVars
<1>2. NamesOK'
  BY <1>1 DEF NamesOK, Running, Taken
<1>3. ASSUME Lone PROVE Lone'
  <2>1. \A j \in Job : LoneJob(j)' /\ Running(j)' = Running(j)
    BY <1>1, <1>3 DEF Lone, LoneJob, Running
  <2>2. faults' = 0 => CleanBoot'
    BY <1>1, <1>3, <2>1 DEF Lone, CleanBoot, NoJob, Idle, NamesOK
  <2> QED
    BY <1>1, <1>3, <2>1, <2>2 DEF Lone, NoJob
<1> QED
  BY <1>1, <1>2, <1>3

LEMMA AliasStep == AliasInv /\ [SearchNext]_allVars => AliasInv'
<1> SUFFICES ASSUME AliasInv, [SearchNext]_allVars PROVE AliasInv'
  OBVIOUS
<1>1. CASE UNCHANGED allVars
  BY <1>1, CatalogAlias DEF allVars, vars
<1>2. CASE Next /\ UNCHANGED searchVars
  BY <1>2, FaultsGrow, CatalogAlias
<1>3. CASE EnsureAlias
  BY <1>3, EnsureAliasAlias
<1>4. CASE PutAlias
  BY <1>4, PutAliasAlias
<1>5. CASE EnsureAliasFails \/ Crash \/ ConnectionLost \/ Restart
  BY <1>5, MishapAlias
<1>6. ASSUME NEW h \in Handler, Handle(h) PROVE AliasInv'
  BY <1>6, HandleAlias
<1>7. ASSUME NEW j \in Job, Reindex(j) PROVE AliasInv'
  BY <1>7, ChooseNextAlias, QuietJobAlias, ReadAliasAlias, SwapAlias, DeleteAlias DEF Reindex
<1> QED
  BY <1>1, <1>2, <1>3, <1>4, <1>5, <1>6, <1>7 DEF SearchNext

LEMMA AliasInit == SearchInit => AliasInv
<1> SUFFICES ASSUME SearchInit PROVE AliasInv
  OBVIOUS
<1>1. NamesOK
  <2>1. 0 \in 0..MaxIndex /\ 0 \in 0..MaxIndex
    BY SearchAssumption
  <2>2. /\ up = "down" /\ faults = 0 /\ overlap = FALSE /\ index = {} /\ alias = {}
        /\ at = [h \in Handler |-> "idle"] /\ jpc = [j \in Job |-> "idle"]
        /\ next = [j \in Job |-> 0] /\ live = [j \in Job |-> 0]
    BY DEF SearchInit, Init
  <2> QED
    BY <2>1, <2>2 DEF NamesOK, Taken, Running
<1>2. NoJob /\ \A j \in Job : LoneJob(j)
  BY DEF SearchInit, NoJob, Running, LoneJob, Preparing
<1>3. CleanBoot
  BY <1>2 DEF SearchInit, CleanBoot, Idle
<1> QED
  BY <1>1, <1>2, <1>3 DEF AliasInv, Lone, SearchInit, NoJob

(* For any number of reindexes, boots, crashes and handlers: the alias stands for indexes    *)
(* that exist and never beside one of its own name; unless a reindex meets another or a boot, *)
(* for one at most, and for one exactly once a boot ended without a failure.                  *)
THEOREM AliasIsOne == SearchSpec => []AliasNamesOneIndex
<1>1. AliasInv => AliasNamesOneIndex
  <2> SUFFICES ASSUME AliasInv PROVE AliasNamesOneIndex
    OBVIOUS
  <2>1. alias \subseteq index \ {0} /\ (Taken => alias = {})
    BY DEF AliasInv, NamesOK
  <2>2. ASSUME ~overlap PROVE Cardinality(alias) <= 1
    <3>1. \A i, k \in alias : i = k
      BY <2>2 DEF AliasInv, Lone
    <3>2. CASE alias = {}
      <4>1. Cardinality(alias) = 0
        BY <3>2, FS_EmptySet
      <4> QED
        BY <4>1
    <3>3. CASE alias # {}
      <4>1. PICK i \in alias : alias = {i}
        BY <3>1, <3>3
      <4>2. Cardinality(alias) = 1
        BY <4>1, FS_Singleton
      <4> QED
        BY <4>2
    <3> QED
      BY <3>2, <3>3
  <2>3. ASSUME ~overlap, up = "up", faults = 0 PROVE alias # {}
    BY <2>3 DEF AliasInv, Lone, CleanBoot
  <2> QED
    BY <2>1, <2>2, <2>3 DEF AliasNamesOneIndex
<1> QED
  BY <1>1, AliasInit, AliasStep, PTL DEF SearchSpec
--------------------------------------------------------------------------------
(* The alias never vanishes.  A reindex claims the version it makes until it points the alias *)
(* at it, and then the version that it has still to delete.  Versions are used again once      *)
(* deleted, so several reindexes may claim one; but those the alias stands for and those       *)
(* claimed are more than the reindexes that claim them.                                        *)

Claims ==
  {j \in Job : \/ jpc[j] \in {"read", "flush", "flushed", "swap"}
               \/ jpc[j] = "swapped" /\ live[j] # 0}
Claim(j) == IF jpc[j] = "swapped" THEN live[j] ELSE next[j]
Claimed == {i \in index : \E j \in Claims : Claim(j) = i}

(* A boot that has made version 1 and not yet put the alias in front of it. *)
Booting == up = "created" /\ alias = {}

Named == alias \union Claimed \union (IF Booting THEN {1} ELSE {})
Room == IF alias # {} \/ Booting THEN 1 ELSE 0

Spare ==
  /\ IsFiniteSet(Claims)
  /\ Booting => 1 \in index
  /\ alias = {} => \A j \in Job : live[j] = 0
  /\ Cardinality(Named) >= Cardinality(Claims) + Room

LEMMA OneMore ==
  ASSUME NEW A, NEW B, IsFiniteSet(B), NEW x, x \notin A, A \union {x} \subseteq B
  PROVE  Cardinality(A) + 1 <= Cardinality(B)
<1>1. IsFiniteSet(A) /\ IsFiniteSet(A \union {x})
  BY FS_Subset
<1>2. Cardinality(A \union {x}) = Cardinality(A) + 1
  BY <1>1, FS_AddElement
<1> QED
  BY <1>2, FS_Subset

LEMMA OneFewer ==
  ASSUME NEW A, NEW B, IsFiniteSet(A), IsFiniteSet(B), NEW x, A \ {x} \subseteq B
  PROVE  Cardinality(A) <= Cardinality(B) + 1
<1>1. IsFiniteSet(A \ {x}) /\ Cardinality(A \ {x}) <= Cardinality(B)
  BY FS_Subset
<1>2. Cardinality(A) \in Nat /\ Cardinality(B) \in Nat
  BY FS_CardinalityType
<1>3. CASE x \in A
  <2>1. Cardinality(A \ {x}) = Cardinality(A) - 1
    BY <1>3, FS_RemoveElement
  <2> QED
    BY <1>1, <1>2, <2>1
<1>4. CASE x \notin A
  <2>1. A \ {x} = A
    BY <1>4
  <2>2. Cardinality(A) <= Cardinality(B)
    BY <1>1, <2>1
  <2> QED
    BY <1>2, <2>2
<1> QED
  BY <1>3, <1>4

(* Every name is an index, and of those there are finitely many. *)
LEMMA FiniteNames ==
  ASSUME NEW N, N \subseteq 0..MaxIndex
  PROVE  IsFiniteSet(N) /\ Cardinality(N) \in Nat
<1>1. IsFiniteSet(0..MaxIndex)
  BY FS_Interval, SearchAssumption
<1> QED
  BY <1>1, FS_Subset, FS_CardinalityType

LEMMA NamesAreIndexes ==
  ASSUME NamesOK, Booting => 1 \in index
  PROVE  Named \subseteq index /\ Named \subseteq 0..MaxIndex
<1>1. Named \subseteq index
  BY DEF Named, Claimed, NamesOK
<1> QED
  BY <1>1 DEF NamesOK

LEMMA NextNamesAreIndexes ==
  ASSUME NamesOK', Booting' => 1 \in index'
  PROVE  Named' \subseteq index' /\ Named' \subseteq 0..MaxIndex
<1>1. Named' \subseteq index'
  BY DEF Named, Claimed, NamesOK
<1> QED
  BY <1>1 DEF NamesOK

(* One reindex goes on: what the others claim stays claimed while it is an index. *)
LEMMA OthersClaim ==
  ASSUME NEW j \in Job,
         \A k \in Job \ {j} : jpc'[k] = jpc[k] /\ next'[k] = next[k] /\ live'[k] = live[k]
  PROVE  /\ Claims' \ {j} = Claims \ {j}
         /\ \A i \in Claimed \ {Claim(j)} : i \in index' => i \in Claimed'
         /\ j \notin Claims => \A i \in Claimed : i \in index' => i \in Claimed'
         /\ j \in Claims' /\ Claim(j)' \in index' => Claim(j)' \in Claimed'
<1>1. \A k \in Job \ {j} : (k \in Claims' <=> k \in Claims) /\ Claim(k)' = Claim(k)
  BY DEF Claims, Claim
<1>2. Claims \subseteq Job /\ Claims' \subseteq Job
  BY DEF Claims
<1>3. ASSUME NEW i \in Claimed, i \in index', j \notin Claims \/ i # Claim(j)
      PROVE  i \in Claimed'
  <2>1. PICK k \in Claims : Claim(k) = i
    BY DEF Claimed
  <2>2. k # j
    BY <1>3, <2>1
  <2>3. k \in Claims' /\ Claim(k)' = i
    BY <1>1, <1>2, <2>1, <2>2
  <2> QED
    BY <1>3, <2>3 DEF Claimed
<1>4. j \in Claims' /\ Claim(j)' \in index' => Claim(j)' \in Claimed'
  BY DEF Claimed
<1>5. Claims' \ {j} = Claims \ {j}
  BY <1>1, <1>2
<1> QED
  BY <1>3, <1>4, <1>5

(* What a step may do to the count: names and claims may come or go together. *)
LEMMA SpareMoves ==
  ASSUME NamesOK, Spare, NamesOK', IsFiniteSet(Claims'),
         Booting' => 1 \in index', alias' = {} => \A j \in Job : live'[j] = 0,
         NEW more \in Int, Cardinality(Claims') + Room' <= Cardinality(Claims) + Room + more,
         Cardinality(Named) + more <= Cardinality(Named')
  PROVE  Spare'
<1>1. Cardinality(Named) \in Int /\ Cardinality(Named') \in Int
  BY FiniteNames, NamesAreIndexes, NextNamesAreIndexes DEF Spare
<1>2. Cardinality(Claims) \in Int /\ Cardinality(Claims') \in Int
  BY FS_CardinalityType DEF Spare
<1>3. Room \in Int /\ Room' \in Int
  BY DEF Room
<1>4. Cardinality(Named) >= Cardinality(Claims) + Room
  BY DEF Spare
<1>5. Cardinality(Named') >= Cardinality(Claims') + Room'
  BY <1>1, <1>2, <1>3, <1>4
<1> QED
  BY <1>5 DEF Spare

(* Reindexes that claim what they did; names that were there are there. *)
LEMMA SpareStays ==
  ASSUME NamesOK, Spare, NamesOK', Claims' = Claims, Named \subseteq Named',
         Booting' => 1 \in index', alias' = {} => \A j \in Job : live'[j] = 0, Room' = Room
  PROVE  Spare'
<1>1. IsFiniteSet(Named')
  BY FiniteNames, NextNamesAreIndexes
<1>2. Cardinality(Named) <= Cardinality(Named') /\ Cardinality(Named) \in Int /\ Cardinality(Named') \in Int
  BY <1>1, FS_Subset, FS_CardinalityType
<1>3. IsFiniteSet(Claims') /\ Cardinality(Claims') = Cardinality(Claims) /\ Cardinality(Claims) \in Int
  BY FS_CardinalityType DEF Spare
<1>4. Room \in Int
  BY DEF Room
<1>5. /\ Cardinality(Claims') + Room' <= Cardinality(Claims) + Room + 0
      /\ Cardinality(Named) + 0 <= Cardinality(Named')
  BY <1>2, <1>3, <1>4
<1> QED
  BY <1>3, <1>5, SpareMoves

(* A reindex that ends, gives its claim up; the indexes and the alias are as they were. *)
LEMMA EndJobSpare ==
  ASSUME NamesOK, Spare, NamesOK', NEW j \in Job, JobGoes(j, "idle", 0, 0),
         UNCHANGED <<up, index, alias>>
  PROVE  Spare'
<1>1. /\ jpc'[j] = "idle" /\ live'[j] = 0
      /\ \A k \in Job \ {j} : jpc'[k] = jpc[k] /\ next'[k] = next[k] /\ live'[k] = live[k]
  BY DEF NamesOK, JobGoes
<1>2. Room' = Room /\ (Booting' <=> Booting) /\ (Booting => 1 \in index')
      /\ (alias' = {} => \A k \in Job : live'[k] = 0)
  BY <1>1 DEF Room, Booting, Spare
<1>3. j \notin Claims'
  BY <1>1 DEF Claims
<1>4. CASE j \notin Claims
  <2>1. Claims' = Claims
    BY <1>1, <1>3, <1>4, OthersClaim
  <2>2. Claimed \subseteq Claimed'
    BY <1>1, <1>4, OthersClaim DEF Claimed
  <2>3. Named \subseteq Named'
    BY <1>2, <2>2 DEF Named
  <2> QED
    BY <1>2, <2>1, <2>3, SpareStays
<1>5. CASE j \in Claims
  <2>1. Claims' = Claims \ {j}
    BY <1>1, <1>3, OthersClaim
  <2>2. Claimed \ {Claim(j)} \subseteq Claimed'
    <3>1. \A i \in Claimed \ {Claim(j)} : i \in index'
      BY DEF Claimed
    <3> QED
      BY <1>1, <3>1, OthersClaim
  <2>3. Named \ {Claim(j)} \subseteq Named'
    BY <1>2, <2>2 DEF Named
  <2>4. IsFiniteSet(Named) /\ IsFiniteSet(Named')
    BY <1>2, FiniteNames, NamesAreIndexes, NextNamesAreIndexes
  <2>5. Cardinality(Named) <= Cardinality(Named') + 1
    BY <2>3, <2>4, OneFewer
  <2>6. /\ IsFiniteSet(Claims') /\ Cardinality(Claims') = Cardinality(Claims) - 1
        /\ Cardinality(Claims) \in Int
    BY <1>5, <2>1, FS_RemoveElement, FS_CardinalityType DEF Spare
  <2>7. Room \in Int /\ Cardinality(Named) \in Int /\ Cardinality(Named') \in Int
    BY <2>4, FS_CardinalityType DEF Room
  <2>8. /\ -1 \in Int /\ Cardinality(Claims') + Room' <= Cardinality(Claims) + Room + (-1)
        /\ Cardinality(Named) + (-1) <= Cardinality(Named')
    BY <1>2, <2>5, <2>6, <2>7
  <2> QED
    BY <1>2, <2>6, <2>8, SpareMoves
<1> QED
  BY <1>4, <1>5

(* A reindex that has an index and goes on to fill it. *)
LEMMA GoOnSpare ==
  ASSUME NamesOK, Spare, NamesOK', NEW j \in Job, NEW a, NEW l,
         JobGoes(j, a, next[j], l), UNCHANGED <<up, index, alias>>,
         {jpc[j], a} \subseteq {"read", "flush", "flushed", "swap"},
         alias = {} => l = 0
  PROVE  Spare'
<1>1. /\ jpc'[j] = a /\ next'[j] = next[j] /\ live'[j] = l
      /\ \A k \in Job \ {j} : jpc'[k] = jpc[k] /\ next'[k] = next[k] /\ live'[k] = live[k]
  BY DEF NamesOK, JobGoes
<1>2. Room' = Room /\ (Booting' <=> Booting) /\ (Booting => 1 \in index')
      /\ (alias' = {} => \A k \in Job : live'[k] = 0)
  BY <1>1 DEF Room, Booting, Spare
<1>3. j \in Claims /\ j \in Claims' /\ Claim(j)' = Claim(j)
  <2>1. jpc[j] \in {"read", "flush", "flushed", "swap"} /\ jpc'[j] \in {"read", "flush", "flushed", "swap"}
    BY <1>1
  <2>2. j \in Claims
    BY <2>1 DEF Claims
  <2>3. j \in Claims'
    BY <2>1 DEF Claims
  <2>4. Claim(j) = next[j] /\ Claim(j)' = next'[j]
    BY <2>1 DEF Claim
  <2> QED
    BY <1>1, <2>2, <2>3, <2>4
<1>4. Claims' = Claims
  <2>1. Claims' \ {j} = Claims \ {j}
    BY <1>1, OthersClaim
  <2> QED
    BY <1>3, <2>1
<1>5. Claimed \subseteq Claimed'
  <2>1. \A i \in Claimed : i \in index'
    BY DEF Claimed
  <2> QED
    BY <1>1, <1>3, <2>1, OthersClaim
<1>6. Named \subseteq Named'
  BY <1>2, <1>5 DEF Named
<1> QED
  BY <1>2, <1>4, <1>6, SpareStays

(* A new index is a new name and a new claim. *)
LEMMA NewIndexSpare ==
  ASSUME NamesOK, Spare, NamesOK', NEW j \in Job, jpc[j] = "create",
         JobGoes(j, "read", next[j], live[j]), UNCHANGED <<up, alias>>,
         next[j] \notin index, index' = index \union {next[j]}
  PROVE  Spare'
<1>1. /\ jpc'[j] = "read" /\ next'[j] = next[j] /\ live'[j] = live[j]
      /\ \A k \in Job \ {j} : jpc'[k] = jpc[k] /\ next'[k] = next[k] /\ live'[k] = live[k]
  BY DEF NamesOK, JobGoes
<1>2. Room' = Room /\ (Booting' <=> Booting) /\ (Booting => 1 \in index')
      /\ (alias' = {} => \A k \in Job : live'[k] = 0)
  BY <1>1 DEF Room, Booting, Spare
<1>3. j \notin Claims /\ j \in Claims' /\ Claim(j)' = next[j]
  BY <1>1 DEF Claims, Claim
<1>4. Claims' = Claims \union {j}
  BY <1>1, <1>3, OthersClaim
<1>5. Claimed \union {next[j]} \subseteq Claimed'
  <2>1. (\A i \in Claimed : i \in index') /\ Claim(j)' \in index'
    BY <1>3 DEF Claimed
  <2> QED
    BY <1>1, <1>3, <2>1, OthersClaim
<1>6. Named \union {next[j]} \subseteq Named' /\ next[j] \notin Named
  <2>1. Named \union {next[j]} \subseteq Named'
    BY <1>2, <1>5 DEF Named
  <2>2. Named \subseteq index
    BY NamesAreIndexes DEF Spare
  <2> QED
    BY <2>1, <2>2
<1>7. IsFiniteSet(Named) /\ IsFiniteSet(Named')
  BY <1>2, FiniteNames, NamesAreIndexes, NextNamesAreIndexes DEF Spare
<1>8. Cardinality(Named) + 1 <= Cardinality(Named')
  BY <1>6, <1>7, OneMore
<1>9. /\ IsFiniteSet(Claims') /\ Cardinality(Claims') = Cardinality(Claims) + 1
      /\ Cardinality(Claims) \in Int
  BY <1>3, <1>4, FS_AddElement, FS_CardinalityType DEF Spare
<1>10. Room \in Int
  BY DEF Room
<1>11. 1 \in Int /\ Cardinality(Claims') + Room' <= Cardinality(Claims) + Room + 1
  BY <1>2, <1>9, <1>10
<1> QED
  BY <1>2, <1>8, <1>9, <1>11, SpareMoves

(* A swap hands the name of the new index to the alias, and claims that of the old one. *)
LEMMA SwapSpare ==
  ASSUME NamesOK, Spare, NamesOK', NEW j \in Job, jpc[j] = "swap",
         JobGoes(j, "swapped", next[j], live[j]), UNCHANGED <<up, index>>,
         ({live[j]} \ {0}) \union {next[j]} \subseteq index,
         alias' = (alias \ {live[j]}) \union {next[j]}
  PROVE  Spare'
<1>1. /\ jpc'[j] = "swapped" /\ next'[j] = next[j] /\ live'[j] = live[j]
      /\ \A k \in Job \ {j} : jpc'[k] = jpc[k] /\ next'[k] = next[k] /\ live'[k] = live[k]
  BY DEF NamesOK, JobGoes
<1>2. ~Booting' /\ Room' = 1 /\ alias' # {}
  BY DEF Room, Booting
<1>3. j \in Claims /\ Claim(j) = next[j] /\ (j \in Claims' <=> live[j] # 0) /\ Claim(j)' = live[j]
  BY <1>1 DEF Claims, Claim
<1>4. Claimed \ {next[j]} \subseteq Claimed' /\ (live[j] # 0 => live[j] \in Claimed')
  <2>1. (\A i \in Claimed : i \in index') /\ (live[j] # 0 => Claim(j)' \in index')
    BY <1>3 DEF Claimed
  <2> QED
    BY <1>1, <1>3, <2>1, OthersClaim
<1>5. next[j] \in Claimed /\ next[j] \in alias'
  BY <1>3 DEF Claimed
<1>6. alias \union Claimed \subseteq Named'
  <2>1. 0 \notin alias
    BY DEF NamesOK
  <2> QED
    BY <1>4, <1>5, <2>1 DEF Named
<1>7. IsFiniteSet(Named) /\ IsFiniteSet(Named')
  BY <1>2, FiniteNames, NamesAreIndexes, NextNamesAreIndexes DEF Spare
<1>8. /\ Cardinality(Named) \in Int /\ Cardinality(Named') \in Int
      /\ IsFiniteSet(Claims) /\ Cardinality(Claims) \in Int
  BY <1>7, FS_CardinalityType DEF Spare
<1>9. CASE alias # {}
  <2>1. Room = 1 /\ Named = alias \union Claimed
    BY <1>9 DEF Room, Named, Booting
  <2>2. Cardinality(Named) <= Cardinality(Named')
    BY <1>6, <1>7, <2>1, FS_Subset
  <2>3. Claims' \subseteq Claims
    BY <1>1, <1>3, OthersClaim
  <2>4. IsFiniteSet(Claims') /\ Cardinality(Claims') <= Cardinality(Claims) /\ Cardinality(Claims') \in Int
    BY <1>8, <2>3, FS_Subset, FS_CardinalityType
  <2>5. /\ Cardinality(Claims') + Room' <= Cardinality(Claims) + Room + 0
        /\ Cardinality(Named) + 0 <= Cardinality(Named')
    BY <1>2, <1>8, <2>1, <2>2, <2>4
  <2> QED
    BY <1>2, <2>4, <2>5, SpareMoves
<1>10. CASE alias = {}
  <2>1. live[j] = 0 /\ Claims' = Claims \ {j}
    BY <1>1, <1>3, <1>10, OthersClaim DEF Spare
  <2>2. /\ IsFiniteSet(Claims') /\ Cardinality(Claims') = Cardinality(Claims) - 1
    BY <1>3, <1>8, <2>1, FS_RemoveElement
  <2>3. CASE Booting
    <3>1. Room = 1 /\ Named \ {1} \subseteq Named'
      BY <1>6, <2>3 DEF Room, Named
    <3>2. Cardinality(Named) <= Cardinality(Named') + 1
      BY <1>7, <3>1, OneFewer
    <3>3. /\ -1 \in Int /\ Cardinality(Claims') + Room' <= Cardinality(Claims) + Room + (-1)
          /\ Cardinality(Named) + (-1) <= Cardinality(Named')
      BY <1>2, <1>8, <2>2, <3>1, <3>2
    <3> QED
      BY <1>2, <2>2, <3>3, SpareMoves
  <2>4. CASE ~Booting
    <3>1. Room = 0 /\ Named \subseteq Named'
      BY <1>6, <1>10, <2>4 DEF Room, Named
    <3>2. Cardinality(Named) <= Cardinality(Named')
      BY <1>7, <3>1, FS_Subset
    <3>3. /\ Cardinality(Claims') + Room' <= Cardinality(Claims) + Room + 0
          /\ Cardinality(Named) + 0 <= Cardinality(Named')
      BY <1>2, <1>8, <2>2, <3>1, <3>2
    <3> QED
      BY <1>2, <2>2, <3>3, SpareMoves
  <2> QED
    BY <2>3, <2>4
<1> QED
  BY <1>9, <1>10

(* A function has no more values than arguments. *)
LEMMA FewerValues ==
  ASSUME NEW S, IsFiniteSet(S), NEW f
  PROVE  IsFiniteSet({f[x] : x \in S}) /\ Cardinality({f[x] : x \in S}) <= Cardinality(S)
<1> DEFINE T == {f[x] : x \in S}
           g == [x \in S |-> f[x]]
<1>1. g \in Surjection(S, T)
  BY DEF Surjection
<1> QED
  BY <1>1, FS_Surjection

(* The old index goes, and with it a claim and at most a name; the alias keeps one. *)
LEMMA DeleteSpare ==
  ASSUME NamesOK, Spare, NamesOK', NEW j \in Job, jpc[j] = "swapped",
         JobGoes(j, "idle", 0, 0), UNCHANGED up,
         index' = index \ ({live[j]} \ {0}), alias' = alias \ {live[j]}
  PROVE  Spare' /\ (alias # {} => alias' # {})
<1>1. /\ jpc'[j] = "idle" /\ live'[j] = 0
      /\ \A k \in Job \ {j} : jpc'[k] = jpc[k] /\ next'[k] = next[k] /\ live'[k] = live[k]
  BY DEF NamesOK, JobGoes
<1>2. CASE live[j] = 0
  <2>1. index' = index /\ alias' = alias
    BY <1>2 DEF NamesOK
  <2> QED
    BY <2>1, EndJobSpare
<1>3. CASE live[j] # 0
  <2>1. alias # {} /\ Room = 1 /\ ~Booting /\ Named = alias \union Claimed
    BY <1>3 DEF Spare, Room, Booting, Named
  <2>2. j \in Claims /\ j \notin Claims' /\ Claim(j) = live[j]
    BY <1>1, <1>3 DEF Claims, Claim
  <2>3. Claims' = Claims \ {j}
    BY <1>1, <2>2, OthersClaim
  <2>4. Claimed \ {live[j]} \subseteq Claimed'
    <3>1. \A i \in Claimed \ {live[j]} : i \in index'
      BY DEF Claimed
    <3> QED
      BY <1>1, <2>2, <3>1, OthersClaim
  <2>5. Named \ {live[j]} \subseteq alias' \union Claimed'
    BY <2>1, <2>4
  <2>6. alias' \union Claimed' \subseteq 0..MaxIndex
    <3>1. alias' \subseteq index' /\ index' \subseteq 0..MaxIndex /\ Claimed' \subseteq index'
      BY DEF NamesOK, Claimed
    <3> QED
      BY <3>1
  <2>7. /\ IsFiniteSet(Named) /\ Cardinality(Named) \in Int
        /\ IsFiniteSet(alias' \union Claimed') /\ Cardinality(alias' \union Claimed') \in Int
    BY <2>1, <2>6, FiniteNames, NamesAreIndexes
  <2>8. Cardinality(Named) <= Cardinality(alias' \union Claimed') + 1
    BY <2>5, <2>7, OneFewer
  <2>9. /\ IsFiniteSet(Claims') /\ Cardinality(Claims') = Cardinality(Claims) - 1
        /\ Cardinality(Claims) \in Int /\ Cardinality(Claims') \in Int
    BY <2>2, <2>3, FS_RemoveElement, FS_CardinalityType DEF Spare
  <2>10. Cardinality(alias' \union Claimed') >= Cardinality(Claims') + 1
    <3>1. Cardinality(Named) >= Cardinality(Claims) + 1
      BY <2>1 DEF Spare
    <3> QED
      BY <2>7, <2>8, <2>9, <3>1
  <2>11. alias' # {}
    <3> SUFFICES ASSUME alias' = {} PROVE FALSE
      OBVIOUS
    <3> DEFINE f == [k \in Claims' |-> Claim(k)']
               values == {f[k] : k \in Claims'}
    <3>1. alias' \union Claimed' \subseteq values
      BY DEF Claimed
    <3> HIDE DEF f
    <3>2. IsFiniteSet(values) /\ Cardinality(values) <= Cardinality(Claims')
      BY <2>9, FewerValues
    <3> HIDE DEF values
    <3>3. Cardinality(alias' \union Claimed') <= Cardinality(values) /\ Cardinality(values) \in Int
      BY <3>1, <3>2, FS_Subset, FS_CardinalityType
    <3> QED
      BY <2>7, <2>9, <2>10, <3>2, <3>3
  <2>12. ~Booting' /\ Room' = 1 /\ Named' = alias' \union Claimed'
    BY <2>11 DEF Booting, Room, Named
  <2> QED
    BY <2>9, <2>10, <2>11, <2>12 DEF Spare
<1> QED
  BY <1>2, <1>3

(* A reindex that is not yet in possession of an index claims none. *)
LEMMA ChooseSpare ==
  ASSUME NamesOK, Spare, NamesOK', UNCHANGED <<up, index, alias, live>>,
         NEW j \in Job, {jpc[j], jpc'[j]} \subseteq {"idle", "create"},
         \A k \in Job \ {j} : jpc'[k] = jpc[k] /\ next'[k] = next[k]
  PROVE  Spare'
<1>1. j \notin Claims /\ j \notin Claims'
  BY DEF Claims
<1>2. \A k \in Job \ {j} : live'[k] = live[k]
  OBVIOUS
<1>3. Claims' = Claims
  BY <1>1, <1>2, OthersClaim
<1>4. Claimed \subseteq Claimed'
  <2>1. \A i \in Claimed : i \in index'
    BY DEF Claimed
  <2> QED
    BY <1>1, <1>2, <2>1, OthersClaim
<1>5. Named \subseteq Named' /\ Room' = Room /\ (Booting' => 1 \in index')
      /\ (alias' = {} => \A k \in Job : live'[k] = 0)
  BY <1>4 DEF Named, Booting, Room, Spare
<1> QED
  BY <1>3, <1>5, SpareStays

LEMMA ReindexSpare ==
  ASSUME AliasInv, Spare, NamesOK', NEW j \in Job, Reindex(j)
  PROVE  Spare' /\ (alias # {} => alias' # {})
<1>0. NamesOK
  BY DEF AliasInv
<1>1. CASE ChooseNext(j)
  <2>1. /\ jpc[j] = "idle" /\ jpc' = [jpc EXCEPT ![j] = "create"]
        /\ \E n : next' = [next EXCEPT ![j] = n]
        /\ UNCHANGED <<up, index, alias, live>>
    BY <1>1 DEF ChooseNext, JobGoto, esVars
  <2>2. jpc'[j] = "create" /\ \A k \in Job \ {j} : jpc'[k] = jpc[k] /\ next'[k] = next[k]
    BY <1>0, <2>1 DEF NamesOK
  <2> QED
    BY <1>0, <2>1, <2>2, ChooseSpare
<1>2. CASE JobFails(j) \/ (CreateIndex(j) /\ next[j] \in index)
  <2>1. JobGoes(j, "idle", 0, 0) /\ UNCHANGED <<up, index, alias>>
    BY <1>2, EndJobGoes DEF JobFails, CreateIndex, esVars
  <2> QED
    BY <1>0, <2>1, EndJobSpare
<1>3. CASE CreateIndex(j) /\ next[j] \notin index
  <2>1. /\ jpc[j] = "create" /\ index' = index \union {next[j]} /\ UNCHANGED <<up, alias>>
        /\ JobGoes(j, "read", next[j], live[j])
    BY <1>0, <1>3 DEF CreateIndex, JobGoto, JobGoes, NamesOK
  <2> QED
    BY <1>0, <1>3, <2>1, NewIndexSpare
<1>4. CASE NextPage(j) \/ Flush(j) \/ \E c \in Currency : ReadPage(j, c)
  <2>1. jpc[j] \in {"read", "flush"} /\ UNCHANGED <<up, index, alias, next, live>>
    BY <1>4 DEF NextPage, Flush, ReadPage, esVars
  <2>2. \E a \in {"read", "flush", "flushed"} : jpc' = [jpc EXCEPT ![j] = a]
    <3>1. jpc[j] = "read" /\ jpc' = jpc => jpc' = [jpc EXCEPT ![j] = "read"]
      BY <1>0 DEF NamesOK
    <3> QED
      BY <1>4, <3>1 DEF NextPage, Flush, ReadPage, JobGoto
  <2>3. PICK a \in {"read", "flush", "flushed"} : JobGoes(j, a, next[j], live[j])
    BY <1>0, <2>1, <2>2 DEF JobGoes, NamesOK
  <2>4. alias = {} => live[j] = 0
    BY DEF Spare
  <2>5. {jpc[j], a} \subseteq {"read", "flush", "flushed", "swap"} /\ UNCHANGED <<up, index, alias>>
    BY <2>1
  <2> QED
    BY <1>0, <2>1, <2>3, <2>4, <2>5, GoOnSpare
<1>5. CASE ReadAlias(j)
  <2>1. jpc[j] = "flushed" /\ UNCHANGED <<up, index, alias, next>> /\ jpc' = [jpc EXCEPT ![j] = "swap"]
    BY <1>5 DEF ReadAlias, JobGoto, esVars
  <2>2. PICK l : live' = [live EXCEPT ![j] = l] /\ (alias = {} => l = 0)
    <3>1. CASE alias = {}
      <4>1. live' = [live EXCEPT ![j] = live[j]] /\ live[j] = 0
        BY <1>0, <1>5, <3>1 DEF ReadAlias, NamesOK, Spare
      <4> QED
        BY <4>1
    <3>2. CASE alias # {}
      BY <1>5, <3>2 DEF ReadAlias
    <3> QED
      BY <3>1, <3>2
  <2>3. JobGoes(j, "swap", next[j], l)
    BY <1>0, <2>1, <2>2 DEF JobGoes, NamesOK
  <2>4. {jpc[j], "swap"} \subseteq {"read", "flush", "flushed", "swap"}
    BY <2>1
  <2> QED
    BY <1>0, <2>1, <2>2, <2>3, <2>4, GoOnSpare
<1>6. CASE SwapAliasTo(j)
  <2>1. jpc[j] = "swap" /\ UNCHANGED <<up, index>>
    BY <1>6 DEF SwapAliasTo, handlerVars
  <2>2. CASE Taken \/ ~(({live[j]} \ {0}) \union {next[j]} \subseteq index)
    <3>1. JobGoes(j, "idle", 0, 0) /\ alias' = alias
      BY <1>6, <2>2, EndJobGoes DEF SwapAliasTo
    <3> QED
      BY <1>0, <2>1, <3>1, EndJobSpare
  <2>3. CASE ~(Taken \/ ~(({live[j]} \ {0}) \union {next[j]} \subseteq index))
    <3>1. /\ JobGoes(j, "swapped", next[j], live[j])
          /\ alias' = (alias \ {live[j]}) \union {next[j]}
      BY <1>0, <1>6, <2>3 DEF SwapAliasTo, JobGoto, JobGoes, NamesOK
    <3> QED
      BY <1>0, <2>1, <2>3, <3>1, SwapSpare
  <2> QED
    BY <2>2, <2>3
<1>7. CASE DeleteIndex(j)
  <2>1. /\ jpc[j] = "swapped" /\ up' = up /\ JobGoes(j, "idle", 0, 0)
        /\ index' = index \ ({live[j]} \ {0}) /\ alias' = alias \ {live[j]}
    BY <1>7, EndJobGoes DEF DeleteIndex
  <2> QED
    BY <1>0, <2>1, DeleteSpare
<1> QED
  BY <1>1, <1>2, <1>3, <1>4, <1>5, <1>6, <1>7 DEF Reindex

(* What leaves the reindexes and the alias alone. *)
LEMMA BesidesSpare ==
  ASSUME NamesOK, Spare, NamesOK', UNCHANGED <<alias, jpc, next, live>>, index \subseteq index',
         up' = "created" => up = "created"
  PROVE  Spare'
<1>1. Claims' = Claims
  BY DEF Claims
<1>2. Claimed \subseteq Claimed'
  BY <1>1 DEF Claimed, Claim
<1>3. alias' = {} => \A j \in Job : live'[j] = 0
  BY DEF Spare
<1>4. Booting' => Booting /\ 1 \in index'
  BY DEF Booting, Spare
<1>5. CASE Booting' <=> Booting
  <2>1. Named \subseteq Named' /\ Room' = Room
    BY <1>2, <1>5 DEF Named, Room
  <2> QED
    BY <1>1, <1>3, <1>4, <2>1, SpareStays
<1>6. CASE ~Booting' /\ Booting
  <2>1. Named \ {1} \subseteq Named' /\ Room' = 0 /\ Room = 1
    BY <1>2, <1>6 DEF Named, Room, Booting
  <2>2. IsFiniteSet(Named) /\ IsFiniteSet(Named')
    BY <1>4, FiniteNames, NamesAreIndexes, NextNamesAreIndexes DEF Spare
  <2>3. Cardinality(Named) <= Cardinality(Named') + 1
    BY <2>1, <2>2, OneFewer
  <2>4. Cardinality(Named) \in Int /\ Cardinality(Named') \in Int /\ Cardinality(Claims) \in Int
    BY <2>2, FS_CardinalityType DEF Spare
  <2>5. /\ -1 \in Int /\ Cardinality(Claims') + Room' <= Cardinality(Claims) + Room + (-1)
        /\ Cardinality(Named) + (-1) <= Cardinality(Named')
    BY <1>1, <2>1, <2>3, <2>4
  <2>6. IsFiniteSet(Claims')
    BY <1>1 DEF Spare
  <2> QED
    BY <1>3, <1>4, <2>5, <2>6, SpareMoves
<1> QED
  BY <1>4, <1>5, <1>6

(* The version a boot makes is a name that nobody claims, *)
LEMMA EnsureAliasSpare ==
  ASSUME NamesOK, Spare, NamesOK', EnsureAlias
  PROVE  Spare'
<1>1. /\ up = "down" /\ up' = IF alias # {} \/ 1 \in index THEN "up" ELSE "created"
      /\ index' = IF alias = {} THEN index \union {1} ELSE index
      /\ UNCHANGED <<alias, jpc, next, live>>
  BY DEF EnsureAlias, jobVars
<1>2. CASE up' # "created"
  <2>1. index \subseteq index'
    BY <1>1
  <2> QED
    BY <1>1, <1>2, <2>1, BesidesSpare
<1>3. CASE up' = "created"
  <2>1. /\ alias = {} /\ alias' = {} /\ 1 \notin index /\ index' = index \union {1}
        /\ ~Booting /\ Booting' /\ Room = 0 /\ Room' = 1
    BY <1>1, <1>3 DEF Booting, Room
  <2>2. Claims' = Claims
    BY <1>1 DEF Claims
  <2>3. Claimed \subseteq Claimed'
    BY <1>1, <2>1, <2>2 DEF Claimed, Claim
  <2>4. Named \union {1} \subseteq Named' /\ 1 \notin Named
    <3>1. Named \union {1} \subseteq Named'
      BY <2>1, <2>3 DEF Named
    <3>2. Named \subseteq index
      BY <2>1, NamesAreIndexes
    <3> QED
      BY <2>1, <3>1, <3>2
  <2>5. IsFiniteSet(Named')
    BY <2>1, FiniteNames, NextNamesAreIndexes
  <2>6. Cardinality(Named) + 1 <= Cardinality(Named')
    BY <2>4, <2>5, OneMore
  <2>7. /\ IsFiniteSet(Claims') /\ Cardinality(Claims) \in Int
        /\ 1 \in Int /\ Cardinality(Claims') + Room' <= Cardinality(Claims) + Room + 1
    <3>1. IsFiniteSet(Claims) /\ Cardinality(Claims) \in Int
      BY FS_CardinalityType DEF Spare
    <3> QED
      BY <2>1, <2>2, <3>1
  <2>8. (Booting' => 1 \in index') /\ (alias' = {} => \A j \in Job : live'[j] = 0)
    BY <1>1, <2>1 DEF Spare
  <2> QED
    BY <2>6, <2>7, <2>8, SpareMoves
<1> QED
  BY <1>2, <1>3

(* and is one that the alias gets. *)
LEMMA PutAliasSpare ==
  ASSUME NamesOK, Spare, NamesOK', PutAlias
  PROVE  Spare' /\ (alias # {} => alias' # {})
<1>1. /\ up = "created" /\ up' = "up" /\ UNCHANGED <<index, jpc, next, live>>
      /\ alias' = IF Taken \/ 1 \notin index THEN alias ELSE alias \union {1}
  BY DEF PutAlias, jobVars
<1>2. CASE alias' = alias
  BY <1>1, <1>2, BesidesSpare
<1>3. CASE alias' # alias
  <2>1. alias' = alias \union {1} /\ ~Booting' /\ Room = 1 /\ Room' = 1
    BY <1>1, <1>3 DEF Booting, Room
  <2>2. Claims' = Claims
    BY <1>1 DEF Claims
  <2>3. Claimed \subseteq Claimed'
    BY <1>1, <2>2 DEF Claimed, Claim
  <2>4. Named \subseteq Named'
    BY <2>1, <2>3 DEF Named
  <2> QED
    BY <2>1, <2>2, <2>4, SpareStays
<1> QED
  BY <1>1, <1>2, <1>3

LEMMA SpareStep ==
  AliasInv /\ Spare /\ [SearchNext]_allVars /\ NamesOK'
    => Spare' /\ (alias # {} => alias' # {})
<1> SUFFICES ASSUME AliasInv, Spare, [SearchNext]_allVars, NamesOK'
             PROVE  Spare' /\ (alias # {} => alias' # {})
  OBVIOUS
<1>0. NamesOK
  BY DEF AliasInv
<1>1. CASE UNCHANGED searchVars \/ UNCHANGED allVars
  <2>1. UNCHANGED <<up, index, alias, jpc, next, live>>
    BY <1>1 DEF allVars, searchVars, esVars, jobVars
  <2> QED
    BY <1>0, <2>1, BesidesSpare
<1>2. CASE EnsureAlias
  BY <1>0, <1>2, EnsureAliasSpare DEF EnsureAlias
<1>3. CASE PutAlias
  BY <1>0, <1>3, PutAliasSpare
<1>4. CASE EnsureAliasFails \/ Crash \/ ConnectionLost \/ Restart
  <2>1. UNCHANGED <<index, alias, jpc, next, live>> /\ up' # "created"
    BY <1>4 DEF EnsureAliasFails, Crash, ConnectionLost, Restart, esVars, jobVars
  <2> QED
    BY <1>0, <2>1, BesidesSpare
<1>5. ASSUME NEW h \in Handler, Handle(h) PROVE Spare' /\ alias' = alias
  <2>1. UNCHANGED <<up, alias, jpc, next, live>> /\ index \subseteq index'
    BY <1>5
    DEF Handle, Take, Fetch, Skip, IndexDocument, DeleteByProductId, HandlerFails, WriteDoc,
        esVars, jobVars
  <2> QED
    BY <1>0, <2>1, BesidesSpare
<1>6. ASSUME NEW j \in Job, Reindex(j) PROVE Spare' /\ (alias # {} => alias' # {})
  BY <1>6, ReindexSpare
<1> QED
  BY <1>1, <1>2, <1>3, <1>4, <1>5, <1>6 DEF SearchNext

(* Once the alias stands for an index it always stands for one, for any number of reindexes at *)
(* once, with boots, crashes and failures among them, although a reindex may delete a version   *)
(* that another has made anew and put the alias in front of.                                   *)
THEOREM AliasStays == SearchSpec => AliasNeverVanishes
<1>1. SearchInit => Spare
  <2> SUFFICES ASSUME SearchInit PROVE Spare
    OBVIOUS
  <2>1. alias = {} /\ ~Booting /\ Claims = {} /\ \A j \in Job : live[j] = 0
    BY DEF SearchInit, Booting, Claims
  <2>2. Named = {} /\ Room = 0
    BY <2>1 DEF Named, Claimed, Room
  <2>3. IsFiniteSet({}) /\ Cardinality({}) = 0
    BY FS_EmptySet
  <2> QED
    BY <2>1, <2>2, <2>3 DEF Spare
<1>2. AliasInv => NamesOK
  BY DEF AliasInv
<1>3. AliasInv /\ Spare /\ [SearchNext]_allVars /\ NamesOK' => [alias # {} => alias' # {}]_allVars
  BY SpareStep
<1> QED
  BY <1>1, <1>2, <1>3, SpareStep, AliasInit, AliasStep, PTL DEF SearchSpec, AliasNeverVanishes
--------------------------------------------------------------------------------
(* The index follows the catalog.  A document is made of the row as it is now, so what counts *)
(* is that nothing is left to be told (Quiet): then what a handler has learnt, what a reindex *)
(* has read, buffered or written, and what stands behind the alias is the truth about the     *)
(* row, unless one of the known causes has come between.                                      *)

Document(x) == [prices |-> {c \in Currency : Answers(x, c)}, active |-> TRUE]
Doc == [prices : SUBSET Currency, active : BOOLEAN]
Page == [found : SUBSET Product, active : SUBSET Product, last : Nat] \union {NoPage}

(* A handler is busy with one product, and knows which currencies it has asked for; after the *)
(* connection was lost, what it handles is to be delivered again.                             *)
HandlersOK ==
  /\ of \in [Handler -> Product \union {0}]
  /\ asking \in [Handler -> SUBSET Currency] /\ got \in [Handler -> SUBSET Currency]
  /\ \A h \in Handler :
       /\ Idle(h) <=> of[h] = 0
       /\ at[h] # "fetch" => asking[h] = {} /\ got[h] = {}
       /\ asking[h] \intersect got[h] = {}
       /\ up \in {"down", "created"} => Idle(h)
       /\ up = "deaf" /\ ~Idle(h) => events[of[h]][EventOf(h)] > 0

(* What reindexes hold; one that has not begun to read holds nothing. *)
JobsOK ==
  /\ docs \in [0..MaxIndex -> [Product -> Doc]]
  /\ cursor \in [Job -> Nat] /\ page \in [Job -> [Currency -> Page]]
  /\ buffer \in [Job -> [Product -> Doc]]
  /\ \A j \in Job : jpc[j] \in {"idle", "create"} =>
       cursor[j] = 0 /\ page[j] = [c \in Currency |-> NoPage] /\ buffer[j] = NoDocs

(* An index that does not exist has no documents, and a reindex alone writes to one that does. *)
DocsOK ==
  /\ \A i \in 0..MaxIndex : i \notin index => docs[i] = NoDocs
  /\ up = "created" => 1 \in index /\ docs[1] = NoDocs
  /\ \A j \in Job : jpc[j] \in {"read", "flush", "flushed", "swap", "swapped"} => next[j] \in index

OneHandler(p) ==
  /\ \A g, h \in Handler : of[g] = p /\ of[h] = p => g = h
  /\ \A j \in Job, h \in Handler : Building(j) => of[h] # p

(* Nothing is left to be told of p: of one that is gone, no DELETE; of one that is there, nothing. *)
Quiet(p) ==
  IF row[p] = Absent
  THEN events[p]["DELETE"] = 0 /\ \A h \in Handler : of[h] = p => at[h] # "delete"
  ELSE row[p].active /\ events[p] = NoEvents

Truth(p) == IF row[p] = Absent THEN NoDoc ELSE Document(row[p])

(* What the live index shows, and what a handler has learnt. *)
Followed(p) ==
  /\ row[p] = Absent \/ (\A h \in Handler : of[h] # p) => LiveDoc(p) = Truth(p)
  /\ \A h \in Handler : of[h] = p /\ at[h] = "fetch" =>
       \A c \in Currency \ asking[h] : c \in got[h] <=> Answers(row[p], c)

(* What a page tells: p, or that p is not yet on it. *)
PageTells(j, p) ==
  /\ \A c \in Currency :
       page[j][c] # NoPage /\ p \in page[j][c].found =>
         row[p] # Absent /\ PricedIn(row[p], c) /\ p \in page[j][c].active
  /\ row[p] # Absent /\ page[j][Default] # NoPage /\ p > cursor[j] /\ p \notin page[j][Default].found =>
       page[j][Default].last # 0 /\ page[j][Default].last < p

(* What a reindex has made of p so far. *)
Built(j, p) ==
  /\ jpc[j] = "read" => /\ PageTells(j, p)
                        /\ row[p] = Absent \/ p <= cursor[j] => buffer[j][p] = Truth(p)
  /\ jpc[j] = "flush" => buffer[j][p] = Truth(p)
  /\ jpc[j] \in {"flushed", "swap"} => docs[next[j]][p] = Truth(p)

Tracks(p) ==
  /\ OneHandler(p)
  /\ Quiet(p) => Followed(p) /\ \A j \in Job : Built(j, p)

Follows ==
  /\ CatalogShape /\ HandlersOK /\ JobsOK /\ (~overlap => DocsOK)
  /\ \A p \in Product : Sure(p) => Tracks(p)
IndexInv == AliasInv /\ Follows
--------------------------------------------------------------------------------

LEMMA DocFacts ==
  /\ NoDoc \in Doc /\ NoDocs \in [Product -> Doc] /\ NoPage \in Page
  /\ \A x : Document(x) \in Doc /\ Document(x) # NoDoc
BY DEF NoDoc, NoDocs, NoPage, Doc, Page, Document

LEMMA NoneLeft ==
  ASSUME NEW e \in [{"UPSERT", "DELETE"} -> Nat]
  PROVE  e = NoEvents <=> e["UPSERT"] = 0 /\ e["DELETE"] = 0
<1>1. /\ NoEvents \in [{"UPSERT", "DELETE"} -> Nat]
      /\ NoEvents["UPSERT"] = 0 /\ NoEvents["DELETE"] = 0
  BY DEF NoEvents
<1>2. ASSUME e["UPSERT"] = 0, e["DELETE"] = 0 PROVE e = NoEvents
  <2>1. \A a \in {"UPSERT", "DELETE"} : e[a] = NoEvents[a]
    BY <1>1, <1>2
  <2> QED
    BY <1>1, <2>1
<1> QED
  BY <1>1, <1>2

(* A product there is, and its SKUs are priced in the default currency. *)
LEMMA RowFacts ==
  ASSUME RowsOK, NEW p \in Product
  PROVE  /\ row[p] \in ProductValue /\ Default \in Currency /\ PricedIn(row[p], Default)
         /\ row[p] # Absent /\ row[p].active => Answers(row[p], Default)
         /\ events[p] \in [{"UPSERT", "DELETE"} -> Nat]
<1>1. row[p] \in ProductValue /\ Valid(row[p]) /\ events[p] \in [{"UPSERT", "DELETE"} -> Nat]
  BY DEF RowsOK, Good
<1> QED
  BY <1>1, CatalogAssumption DEF Valid, PricedIn, Answers

(* A row changes with an event about it: it goes with a DELETE, and is there after an UPSERT. *)
LEMMA CommitTells ==
  ASSUME CatalogShape, NEW r \in Request, Commit(r), NEW p \in Product
  PROVE  /\ \/ row'[p] = row[p] /\ events'[p] = events[p]
            \/ row'[p] = Absent /\ events'[p]["DELETE"] > 0
            \/ row'[p] # Absent /\ events'[p]["UPSERT"] > 0
         /\ \A b \in {"UPSERT", "DELETE"} : events'[p][b] >= events[p][b]
<1> DEFINE q == call[r].product
           y == Written(r, row[q])
           a == Action(call[r])
           e == [events[q] EXCEPT ![a] = @ + 1]
<1>1. /\ pc[r] \in Flight /\ pc[r] \in Holding /\ Writes(r) /\ ~Throws(r)
      /\ row' = [row EXCEPT ![q] = y] /\ events' = [events EXCEPT ![q] = e]
  BY DEF Commit, Writes, Flight, Holding
<1>2. /\ q \in Product /\ row[q] \in ProductValue /\ events[q] \in [{"UPSERT", "DELETE"} -> Nat]
      /\ Good(row[q], made[q]) /\ Good(seen[r], made[q]) /\ Skus(seen[r]) # {}
      /\ row \in [Product -> ProductValue] /\ events \in [Product -> [{"UPSERT", "DELETE"} -> Nat]]
  BY <1>1, ProductOfRequest DEF CatalogShape, RowsOK, RequestsOK, HoldsGood
<1>3. a \in {"UPSERT", "DELETE"} /\ (a = "DELETE" <=> call[r].op = "delete")
  BY DEF Action
<1>4. e[a] > 0 /\ \A b \in {"UPSERT", "DELETE"} : e[b] >= events[q][b]
  BY <1>2, <1>3
<1>5. call[r].op = "delete" => y = Absent
  BY DEF Written
<1>6. ASSUME call[r].op # "delete" PROVE y # Absent
  <2>1. Skus(Absent) = {}
    BY AbsentFacts
  <2>2. CASE call[r].op = "update"
    <3>1. row[q] # Absent /\ Skus(row[q]) # {}
      BY <1>1, <1>2, <2>2 DEF Throws, Good
    <3>2. y = [row[q] EXCEPT !.active = seen[r].active]
      BY <2>2 DEF Written
    <3>3. y.prices = row[q].prices
      BY <1>2, <3>2 DEF ProductValue
    <3>4. Skus(y) = Skus(row[q])
      BY <3>3 DEF Skus
    <3> QED
      BY <2>1, <3>1, <3>4
  <2>3. CASE call[r].op # "update"
    <3>1. y = Overwritten(r, row[q])
      BY <1>6, <2>3 DEF Written
    <3>2. Skus(seen[r]) \subseteq Skus(Overwritten(r, row[q]))
      BY <1>2, OverwrittenFacts
    <3> QED
      BY <1>2, <2>1, <3>1, <3>2
  <2> QED
    BY <2>2, <2>3
<1> HIDE DEF y, a, e
<1>9. \A b \in {"UPSERT", "DELETE"} : events[p][b] >= events[p][b]
  BY DEF CatalogShape, RowsOK
<1>7. p # q => row'[p] = row[p] /\ events'[p] = events[p]
  BY <1>1, <1>2
<1>8. p = q => row'[p] = y /\ events'[p] = e
  BY <1>1, <1>2
<1> QED
  BY <1>3, <1>4, <1>5, <1>6, <1>7, <1>8, <1>9

LEMMA CatalogTells ==
  ASSUME CatalogShape, [Next]_vars, NEW p \in Product
  PROVE  /\ \/ row'[p] = row[p] /\ events'[p] = events[p]
            \/ row'[p] = Absent /\ events'[p]["DELETE"] > 0
            \/ row'[p] # Absent /\ events'[p]["UPSERT"] > 0
         /\ \A b \in {"UPSERT", "DELETE"} : events'[p][b] >= events[p][b]
<1>1. (\E r \in Request : Commit(r)) \/ UNCHANGED <<row, events>>
  BY StepsOfCatalog DEF vars, rowVars, Send, Receive, Close, Lookup, LookupFails, Load, Fill,
     FindExisting, CommitThrows, Evict, AddStock, RequestFails, Expire
<1>2. \A b \in {"UPSERT", "DELETE"} : events[p][b] >= events[p][b]
  BY DEF CatalogShape, RowsOK
<1> QED
  BY <1>1, <1>2, CommitTells

LEMMA ShapeBesides ==
  ASSUME CatalogShape, UNCHANGED <<row, stocked, asked, made, requestVars, raced, calls>>,
         events' \in [Product -> [{"UPSERT", "DELETE"} -> Nat]], faults' = faults \/ Fault,
         cache' = cache \/ \E p \in Product : cache' = [cache EXCEPT ![p] = row[p]]
  PROVE  CatalogShape'
<1> USE DEF CatalogShape
<1>1. faults' \in 0..MaxFaults
  BY CatalogAssumption DEF RowsOK, Fault
<1>2. cache' \in [Product -> ProductValue] /\ \A p \in Product : Good(cache'[p], made[p])
  BY DEF RowsOK
<1>3. RowsOK'
  BY <1>1, <1>2 DEF RowsOK
<1>4. RequestsOK'
  BY DEF RequestsOK, requestVars
<1> QED
  BY <1>3, <1>4

(* What is delivered again: at least what is being handled. *)
LEMMA RedeliverFacts ==
  ASSUME RowsOK, HandlersOK, at \in [Handler -> {"idle", "fetch", "delete"}], Redeliver
  PROVE  /\ events' \in [Product -> [{"UPSERT", "DELETE"} -> Nat]]
         /\ \A p \in Product, a \in {"UPSERT", "DELETE"} : events'[p][a] >= events[p][a]
         /\ \A h \in Handler : ~Idle(h) => events'[of[h]][EventOf(h)] > 0
<1>1. DOMAIN NoEvents = {"UPSERT", "DELETE"}
  BY DEF NoEvents
<1>2. \A p \in Product, a \in {"UPSERT", "DELETE"} :
        events[p][a] \in Nat /\ events'[p][a] = events[p][a] + Held(p, a)
  BY <1>1 DEF Redeliver, RowsOK
<1>3. ASSUME NEW p \in Product, NEW a \in {"UPSERT", "DELETE"}
      PROVE  /\ Held(p, a) \in Nat
             /\ \A h \in Handler : ~Idle(h) /\ of[h] = p /\ EventOf(h) = a => Held(p, a) # 0
  <2> DEFINE S == {h \in Handler : ~Idle(h) /\ of[h] = p /\ EventOf(h) = a}
  <2>1. IsFiniteSet(S)
    BY SearchAssumption, FS_Subset
  <2>2. Held(p, a) = Cardinality(S)
    BY DEF Held
  <2>3. \A h \in Handler : ~Idle(h) /\ of[h] = p /\ EventOf(h) = a => S # {}
    OBVIOUS
  <2> HIDE DEF S
  <2> QED
    BY <2>1, <2>2, <2>3, FS_CardinalityType, FS_EmptySet
<1>4. events' \in [Product -> [{"UPSERT", "DELETE"} -> Nat]]
  <2>1. \A p \in Product : [a \in {"UPSERT", "DELETE"} |-> events[p][a] + Held(p, a)]
                           \in [{"UPSERT", "DELETE"} -> Nat]
    BY <1>2, <1>3
  <2>2. events' = [p \in Product |-> [a \in {"UPSERT", "DELETE"} |-> events[p][a] + Held(p, a)]]
    BY <1>1 DEF Redeliver
  <2> QED
    BY <2>1, <2>2
<1>5. ASSUME NEW h \in Handler, ~Idle(h) PROVE events'[of[h]][EventOf(h)] > 0
  <2>1. of[h] \in Product /\ EventOf(h) \in {"UPSERT", "DELETE"}
    BY <1>5 DEF HandlersOK, EventOf
  <2>2. Held(of[h], EventOf(h)) \in Nat /\ Held(of[h], EventOf(h)) # 0
    BY <1>3, <1>5, <2>1
  <2>3. events'[of[h]][EventOf(h)] = events[of[h]][EventOf(h)] + Held(of[h], EventOf(h))
        /\ events[of[h]][EventOf(h)] \in Nat
    BY <1>2, <2>1
  <2> QED
    BY <2>2, <2>3
<1>6. ASSUME NEW p \in Product, NEW a \in {"UPSERT", "DELETE"} PROVE events'[p][a] >= events[p][a]
  BY <1>2, <1>3
<1> QED
  BY <1>4, <1>5, <1>6

(* One handler goes on. *)
HandlerGoes(h, a, o, cs, gs) ==
  /\ at' = [at EXCEPT ![h] = a] /\ of' = [of EXCEPT ![h] = o]
  /\ asking' = [asking EXCEPT ![h] = cs] /\ got' = [got EXCEPT ![h] = gs]

HandlersTyped == at \in [Handler -> {"idle", "fetch", "delete"}] /\ HandlersOK

LEMMA StopGoes ==
  ASSUME NEW h \in Handler, Stop(h)
  PROVE  HandlerGoes(h, "idle", 0, {}, {})
BY DEF Stop, HandlerGoes

LEMMA HandlerGoesOn ==
  ASSUME HandlersTyped, NEW h \in Handler, NEW a \in {"idle", "fetch", "delete"}, NEW o \in Product \union {0},
         NEW cs \in SUBSET Currency, NEW gs \in SUBSET Currency, HandlerGoes(h, a, o, cs, gs),
         a = "idle" <=> o = 0, a # "fetch" => cs = {} /\ gs = {}, cs \intersect gs = {},
         up' = up, up \in {"down", "created"} => a = "idle",
         up # "deaf" \/ (events' = events /\ (a = "idle" \/ (a = at[h] /\ o = of[h])))
  PROVE  /\ HandlersTyped'
         /\ at'[h] = a /\ of'[h] = o /\ asking'[h] = cs /\ got'[h] = gs
         /\ \A g \in Handler \ {h} :
              at'[g] = at[g] /\ of'[g] = of[g] /\ asking'[g] = asking[g] /\ got'[g] = got[g]
<1> USE DEF HandlersTyped
<1>1. /\ at' \in [Handler -> {"idle", "fetch", "delete"}] /\ of' \in [Handler -> Product \union {0}]
      /\ asking' \in [Handler -> SUBSET Currency] /\ got' \in [Handler -> SUBSET Currency]
      /\ at'[h] = a /\ of'[h] = o /\ asking'[h] = cs /\ got'[h] = gs
      /\ \A g \in Handler \ {h} :
           at'[g] = at[g] /\ of'[g] = of[g] /\ asking'[g] = asking[g] /\ got'[g] = got[g]
  BY DEF HandlersOK, HandlerGoes
<1>2. ASSUME NEW g \in Handler
      PROVE  /\ Idle(g)' <=> of'[g] = 0
             /\ at'[g] # "fetch" => asking'[g] = {} /\ got'[g] = {}
             /\ asking'[g] \intersect got'[g] = {}
             /\ up' \in {"down", "created"} => Idle(g)'
  <2>1. CASE g = h
    BY <1>1, <2>1 DEF Idle
  <2>2. CASE g # h
    BY <1>1, <2>2 DEF HandlersOK, Idle
  <2> QED
    BY <2>1, <2>2
<1>3. ASSUME NEW g \in Handler, up' = "deaf", ~Idle(g)' PROVE events'[of'[g]][EventOf(g)'] > 0
  <2>1. events' = events /\ at'[g] = at[g] /\ of'[g] = of[g]
    BY <1>1, <1>3 DEF Idle
  <2>2. ~Idle(g) /\ EventOf(g)' = EventOf(g)
    BY <1>3, <2>1 DEF Idle, EventOf
  <2> QED
    BY <1>3, <2>1, <2>2 DEF HandlersOK
<1> QED
  BY <1>1, <1>2, <1>3 DEF HandlersOK

LEMMA HandlersStay ==
  ASSUME HandlersTyped, UNCHANGED <<up, handlerVars>>,
         \A p \in Product, a \in {"UPSERT", "DELETE"} : events'[p][a] >= events[p][a],
         RowsOK, RowsOK'
  PROVE  HandlersTyped'
<1> USE DEF HandlersTyped
<1>1. UNCHANGED <<up, at, of, asking, got>>
  BY DEF handlerVars
<1>2. ASSUME NEW h \in Handler, up' = "deaf", ~Idle(h)' PROVE events'[of'[h]][EventOf(h)'] > 0
  <2>1. ~Idle(h) /\ EventOf(h)' = EventOf(h) /\ events[of[h]][EventOf(h)] > 0 /\ of'[h] = of[h]
    BY <1>1, <1>2 DEF Idle, EventOf, HandlersOK
  <2>2. of[h] \in Product /\ EventOf(h) \in {"UPSERT", "DELETE"}
    BY <2>1 DEF HandlersOK, EventOf
  <2>3. events[of[h]][EventOf(h)] \in Nat /\ events'[of[h]][EventOf(h)] \in Nat
    BY <2>2 DEF RowsOK
  <2> QED
    BY <2>1, <2>2, <2>3
<1>3. ASSUME NEW h \in Handler
      PROVE  /\ Idle(h)' <=> of'[h] = 0
             /\ at'[h] # "fetch" => asking'[h] = {} /\ got'[h] = {}
             /\ asking'[h] \intersect got'[h] = {}
             /\ up' \in {"down", "created"} => Idle(h)'
  BY <1>1 DEF HandlersOK, Idle
<1> QED
  BY <1>1, <1>2, <1>3 DEF HandlersOK

(* What has been told stays told as long as the row does and no DELETE is forgotten. *)
LEMMA QuietBefore ==
  ASSUME RowsOK, RowsOK', NEW p \in Product, Quiet(p)', row'[p] = row[p],
         \A a \in {"UPSERT", "DELETE"} : events'[p][a] >= events[p][a],
         \A h \in Handler : of[h] = p /\ at[h] = "delete" =>
           (of'[h] = p /\ at'[h] = "delete") \/ events'[p]["DELETE"] > 0
  PROVE  Quiet(p)
<1>1. /\ events[p] \in [{"UPSERT", "DELETE"} -> Nat] /\ events'[p] \in [{"UPSERT", "DELETE"} -> Nat]
      /\ events[p]["UPSERT"] \in Nat /\ events[p]["DELETE"] \in Nat
      /\ events'[p]["UPSERT"] \in Nat /\ events'[p]["DELETE"] \in Nat
      /\ events'[p]["UPSERT"] >= events[p]["UPSERT"] /\ events'[p]["DELETE"] >= events[p]["DELETE"]
  BY DEF RowsOK
<1>2. CASE row[p] = Absent
  BY <1>1, <1>2 DEF Quiet
<1>3. CASE row[p] # Absent
  <2>1. row[p].active /\ events'[p] = NoEvents
    BY <1>3 DEF Quiet
  <2>2. events'[p]["UPSERT"] = 0 /\ events'[p]["DELETE"] = 0
    BY <1>1, <2>1, NoneLeft
  <2>3. events[p] = NoEvents
    BY <1>1, <2>2, NoneLeft
  <2> QED
    BY <1>3, <2>1, <2>3 DEF Quiet
<1> QED
  BY <1>2, <1>3

LEMMA CatalogKeepsQuiet ==
  ASSUME CatalogShape, [Next]_vars, UNCHANGED handlerVars, NEW p \in Product, Quiet(p)'
  PROVE  Quiet(p) /\ row'[p] = row[p]
<1>1. RowsOK /\ RowsOK'
  BY ShapeStep DEF CatalogShape
<1>2. row'[p] = row[p] /\ events'[p] = events[p]
  <2>1. events'[p] \in [{"UPSERT", "DELETE"} -> Nat]
    BY <1>1 DEF RowsOK
  <2>2. row'[p] = Absent => ~(events'[p]["DELETE"] > 0)
    BY DEF Quiet
  <2>3. row'[p] # Absent => ~(events'[p]["UPSERT"] > 0)
    BY <2>1, NoneLeft DEF Quiet
  <2> QED
    BY <2>2, <2>3, CatalogTells
<1> QED
  BY <1>2 DEF Quiet, handlerVars

LEMMA BuiltStays ==
  ASSUME NEW p \in Product, NEW j \in Job, Built(j, p), row'[p] = row[p],
         jpc'[j] = jpc[j], next'[j] = next[j], cursor'[j] = cursor[j], page'[j] = page[j], buffer'[j] = buffer[j],
         jpc[j] \in {"flushed", "swap"} => docs'[next[j]][p] = docs[next[j]][p]
  PROVE  Built(j, p)'
<1>1. PageTells(j, p)' = PageTells(j, p) /\ Truth(p)' = Truth(p)
  BY DEF PageTells, Truth, Document, Answers, PricedIn
<1> QED
  BY <1>1 DEF Built

(* What concerns p stays as it is. *)
LEMMA TracksStays ==
  ASSUME NEW p \in Product, Tracks(p), Quiet(p)' => Quiet(p) /\ row'[p] = row[p],
         \A h \in Handler : /\ of'[h] = p <=> of[h] = p
                            /\ of[h] = p => at'[h] = at[h] /\ asking'[h] = asking[h] /\ got'[h] = got[h],
         UNCHANGED jobVars, LiveDoc(p)' = LiveDoc(p),
         \A j \in Job : Building(j) => docs'[next[j]][p] = docs[next[j]][p]
  PROVE  Tracks(p)'
<1>1. UNCHANGED <<jpc, next, cursor, page, buffer, live>>
  BY DEF jobVars
<1>2. OneHandler(p)'
  BY <1>1 DEF Tracks, OneHandler, Building
<1>3. ASSUME Quiet(p)' PROVE Followed(p)' /\ \A j \in Job : Built(j, p)'
  <2>1. Quiet(p) /\ row'[p] = row[p] /\ Followed(p) /\ \A j \in Job : Built(j, p)
    BY <1>3 DEF Tracks
  <2>2. Truth(p)' = Truth(p)
    BY <2>1 DEF Truth, Document, Answers, PricedIn
  <2>3. Followed(p)'
    BY <2>1, <2>2 DEF Followed
  <2>4. ASSUME NEW j \in Job PROVE Built(j, p)'
    BY <1>1, <2>1, BuiltStays DEF Building
  <2> QED
    BY <2>3, <2>4
<1> QED
  BY <1>2, <1>3 DEF Tracks

LEMMA CatalogFollows ==
  ASSUME IndexInv, [Next]_vars, UNCHANGED searchVars
  PROVE  Follows'
<1> USE DEF IndexInv, Follows
<1>1. UNCHANGED <<up, index, alias, docs, handlerVars, jobVars, unsure, overlap>>
  BY DEF searchVars, esVars
<1>2. CatalogShape' /\ RowsOK /\ RowsOK'
  BY ShapeStep DEF CatalogShape
<1>3. HandlersTyped
  BY DEF HandlersTyped, AliasInv, NamesOK
<1>4. HandlersOK'
  <2>1. \A p \in Product, a \in {"UPSERT", "DELETE"} : events'[p][a] >= events[p][a]
    BY CatalogTells
  <2> QED
    BY <1>1, <1>2, <1>3, <2>1, HandlersStay DEF HandlersTyped
<1>5. JobsOK' /\ (~overlap' => DocsOK')
  BY <1>1 DEF JobsOK, DocsOK, jobVars
<1>6. ASSUME NEW p \in Product, Sure(p)' PROVE Tracks(p)'
  <2>1. Sure(p) /\ LiveDoc(p)' = LiveDoc(p) /\ UNCHANGED <<at, of, asking, got>>
    BY <1>1, <1>6 DEF Sure, LiveDoc, WriteIndex, handlerVars
  <2> QED
    BY <1>1, <2>1, CatalogKeepsQuiet, TracksStays
<1> QED
  BY <1>2, <1>4, <1>5, <1>6

LEMMA SameRows ==
  ASSUME CatalogShape, UNCHANGED vars
  PROVE  CatalogShape'
BY ShapeStep

LEMMA EnsureAliasFollows ==
  ASSUME IndexInv, EnsureAlias
  PROVE  Follows'
<1> USE DEF IndexInv, Follows
<1>1. /\ up = "down" /\ up' = IF alias # {} \/ 1 \in index THEN "up" ELSE "created"
      /\ index' = IF alias = {} THEN index \union {1} ELSE index
      /\ overlap' = (overlap \/ \E j \in Job : Running(j))
      /\ UNCHANGED <<alias, docs, handlerVars, jobVars, unsure, vars>>
  BY DEF EnsureAlias
<1>2. CatalogShape' /\ UNCHANGED <<row, events, at, of, asking, got, jpc, next, cursor, page, buffer, live>>
  BY <1>1, SameRows DEF vars, rowVars, handlerVars, jobVars
<1>3. HandlersOK'
  BY <1>1, <1>2 DEF HandlersOK, Idle
<1>4. JobsOK'
  BY <1>1, <1>2 DEF JobsOK
<1>5. ASSUME ~overlap' PROVE DocsOK'
  <2>1. DocsOK /\ \A j \in Job : jpc'[j] = "idle"
    BY <1>1, <1>2, <1>5 DEF Running
  <2>2. up' = "created" => 1 \in index' /\ docs'[1] = NoDocs
    BY <1>1, <2>1, SearchAssumption DEF DocsOK
  <2> QED
    BY <1>1, <2>1, <2>2 DEF DocsOK
<1>6. ASSUME NEW p \in Product, Sure(p)' PROVE Tracks(p)'
  <2>1. Sure(p) /\ LiveDoc(p)' = LiveDoc(p)
    <3>1. alias' = alias /\ docs' = docs /\ unsure' = unsure /\ (overlap => overlap')
      BY <1>1
    <3> QED
      BY <1>6, <3>1 DEF Sure, LiveDoc, WriteIndex
  <2>2. Quiet(p)' => Quiet(p)
    BY <1>2 DEF Quiet
  <2> QED
    BY <1>1, <1>2, <2>1, <2>2, TracksStays
<1> QED
  BY <1>2, <1>3, <1>4, <1>5, <1>6

(* Before the alias there was no document, and behind version 1 there is none. *)
LEMMA PutAliasFollows ==
  ASSUME IndexInv, PutAlias
  PROVE  Follows'
<1> USE DEF IndexInv, Follows
<1>1. /\ up = "created" /\ up' = "up"
      /\ alias' = IF Taken \/ 1 \notin index THEN alias ELSE alias \union {1}
      /\ UNCHANGED <<index, docs, handlerVars, jobVars, unsure, overlap, vars>>
  BY DEF PutAlias
<1>2. CatalogShape' /\ UNCHANGED <<row, events, at, of, asking, got, jpc, next, cursor, page, buffer, live>>
  BY <1>1, SameRows DEF vars, rowVars, handlerVars, jobVars
<1>3. HandlersOK'
  BY <1>1, <1>2 DEF HandlersOK, Idle
<1>4. JobsOK' /\ (~overlap' => DocsOK')
  BY <1>1, <1>2 DEF JobsOK, DocsOK
<1>5. ASSUME NEW p \in Product, Sure(p)' PROVE Tracks(p)'
  <2>1. Sure(p) /\ ~overlap /\ Lone /\ DocsOK
    BY <1>1, <1>5 DEF Sure, AliasInv
  <2>2. LiveDoc(p)' = LiveDoc(p)
    <3>1. CASE alias' = alias
      <4>1. docs' = docs
        BY <1>1
      <4> QED
        BY <3>1, <4>1 DEF LiveDoc, WriteIndex
    <3>2. CASE alias' # alias
      <4>1. alias = {} /\ alias' = {1} /\ 0 \notin index
        BY <1>1, <2>1, <3>2 DEF Lone, Taken
      <4>2. WriteIndex = 0 /\ WriteIndex' = 1
        BY <4>1 DEF WriteIndex
      <4>3. docs[0] = NoDocs /\ docs'[1] = NoDocs
        BY <1>1, <2>1, <4>1, SearchAssumption DEF DocsOK
      <4> QED
        BY <4>2, <4>3, <1>1 DEF LiveDoc
    <3> QED
      BY <3>1, <3>2
  <2>3. Quiet(p)' => Quiet(p)
    BY <1>2 DEF Quiet
  <2> QED
    BY <1>1, <1>2, <2>1, <2>2, <2>3, TracksStays
<1> QED
  BY <1>2, <1>3, <1>4, <1>5

(* The handlers go, and what they handled will be delivered again. *)
LEMMA HandlersGo ==
  ASSUME IndexInv, at' = [h \in Handler |-> "idle"], of' = [h \in Handler |-> 0],
         UNCHANGED <<alias, docs, jobVars, row>>, RowsOK, RowsOK',
         \A p \in Product, a \in {"UPSERT", "DELETE"} : events'[p][a] >= events[p][a],
         \A h \in Handler : ~Idle(h) => events'[of[h]][EventOf(h)] > 0,
         NEW p \in Product, Sure(p)
  PROVE  Tracks(p)'
<1> USE DEF IndexInv, Follows
<1>1. Tracks(p) /\ p # 0
  BY SearchAssumption
<1>2. UNCHANGED <<jpc, next, cursor, page, buffer, live>> /\ LiveDoc(p)' = LiveDoc(p)
      /\ \A h \in Handler : of'[h] # p
  BY <1>1 DEF jobVars, LiveDoc, WriteIndex
<1>3. OneHandler(p)'
  BY <1>2 DEF OneHandler
<1>4. ASSUME Quiet(p)' PROVE Followed(p)' /\ \A j \in Job : Built(j, p)'
  <2>1. \A h \in Handler : of[h] = p => ~Idle(h) /\ events'[p][EventOf(h)] > 0
    BY <1>1 DEF HandlersOK
  <2>2. Quiet(p)
    <3>1. \A h \in Handler : of[h] = p /\ at[h] = "delete" => events'[p]["DELETE"] > 0
      BY <2>1 DEF EventOf
    <3> QED
      BY <1>4, <3>1, QuietBefore
  <2>3. row[p] # Absent => \A h \in Handler : of[h] # p
    <3> SUFFICES ASSUME row[p] # Absent, NEW h \in Handler, of[h] = p PROVE FALSE
      OBVIOUS
    <3>1. events'[p] = NoEvents /\ EventOf(h) \in {"UPSERT", "DELETE"}
      BY <1>4 DEF Quiet, EventOf
    <3>2. events'[p]["UPSERT"] = 0 /\ events'[p]["DELETE"] = 0
      BY <3>1, NoneLeft DEF RowsOK
    <3> QED
      BY <2>1, <3>1, <3>2
  <2>4. Truth(p)' = Truth(p)
    BY DEF Truth, Document, Answers, PricedIn
  <2>5. Followed(p)'
    BY <1>1, <1>2, <2>2, <2>3, <2>4 DEF Tracks, Followed
  <2>6. ASSUME NEW j \in Job PROVE Built(j, p)'
    BY <1>1, <1>2, <2>2, BuiltStays DEF Tracks
  <2> QED
    BY <2>5, <2>6
<1> QED
  BY <1>3, <1>4 DEF Tracks

(* The consumer starts without an answer, or its connection closes. *)
LEMMA DeafFollows ==
  ASSUME IndexInv, EnsureAliasFails \/ ConnectionLost
  PROVE  Follows'
<1> USE DEF IndexInv, Follows
<1>1. /\ UNCHANGED <<esVars, handlerVars, jobVars, unsure, overlap, row, stocked, asked, made, cache,
                     requestVars, raced, calls>>
      /\ Fault
  BY DEF EnsureAliasFails, ConnectionLost, rowVars
<1>2. UNCHANGED <<index, alias, docs, at, of, asking, got, jpc, next, cursor, page, buffer, live>>
  BY <1>1 DEF esVars, handlerVars, jobVars
<1>3. HandlersTyped /\ RowsOK
  BY DEF HandlersTyped, AliasInv, NamesOK, CatalogShape
<1>4. /\ events' \in [Product -> [{"UPSERT", "DELETE"} -> Nat]]
      /\ \A p \in Product, a \in {"UPSERT", "DELETE"} : events'[p][a] >= events[p][a]
      /\ up' = "up" \/ (up' = "deaf" /\ \A h \in Handler : ~Idle(h) => events'[of[h]][EventOf(h)] > 0)
  <2>1. CASE EnsureAliasFails
    <3>1. events' = events /\ up' = "up"
      BY <2>1 DEF EnsureAliasFails, rowVars
    <3> QED
      BY <1>3, <3>1 DEF RowsOK
  <2>2. CASE ConnectionLost
    <3>1. Redeliver /\ up' = "deaf"
      BY <2>2 DEF ConnectionLost
    <3> QED
      BY <1>3, <3>1, RedeliverFacts DEF HandlersTyped
  <2> QED
    BY <2>1, <2>2
<1>5. CatalogShape' /\ RowsOK'
  <2>1. CatalogShape'
    BY <1>1, <1>4, ShapeBesides
  <2> QED
    BY <2>1 DEF CatalogShape
<1>6. HandlersOK'
  <2>1. \A h \in Handler : Idle(h)' = Idle(h) /\ EventOf(h)' = EventOf(h)
    BY <1>2 DEF Idle, EventOf
  <2> QED
    BY <1>2, <1>4, <2>1 DEF HandlersOK
<1>7. JobsOK' /\ (~overlap' => DocsOK')
  <2>1. up' # "created"
    BY <1>4
  <2> QED
    BY <1>1, <1>2, <2>1 DEF JobsOK, DocsOK
<1>8. ASSUME NEW p \in Product, Sure(p)' PROVE Tracks(p)'
  <2>1. Sure(p) /\ LiveDoc(p)' = LiveDoc(p) /\ row' = row
    BY <1>1, <1>2, <1>8 DEF Sure, LiveDoc, WriteIndex
  <2>2. Quiet(p)' => Quiet(p)
    BY <1>2, <1>3, <1>4, <1>5, <2>1, QuietBefore
  <2> QED
    BY <1>1, <1>2, <2>1, <2>2, TracksStays
<1> QED
  BY <1>5, <1>6, <1>7, <1>8

(* The consumer dies, or is started again. *)
LEMMA RestartFollows ==
  ASSUME IndexInv, Crash \/ Restart
  PROVE  Follows'
<1> USE DEF IndexInv, Follows
<1>1. /\ UNCHANGED <<esVars, jobVars, unsure, overlap, row, stocked, asked, made, cache, requestVars, raced, calls>>
      /\ faults' = faults \/ Fault
      /\ up' = "down" /\ at' = [h \in Handler |-> "idle"] /\ of' = [h \in Handler |-> 0]
      /\ asking' = [h \in Handler |-> {}] /\ got' = [h \in Handler |-> {}]
  BY DEF Crash, Restart, vars, rowVars
<1>2. UNCHANGED <<index, alias, docs, jpc, next, cursor, page, buffer, live>>
  BY <1>1 DEF esVars, jobVars
<1>3. HandlersTyped /\ RowsOK
  BY DEF HandlersTyped, AliasInv, NamesOK, CatalogShape
<1>4. /\ events' \in [Product -> [{"UPSERT", "DELETE"} -> Nat]]
      /\ \A p \in Product, a \in {"UPSERT", "DELETE"} : events'[p][a] >= events[p][a]
      /\ \A h \in Handler : ~Idle(h) => events'[of[h]][EventOf(h)] > 0
  <2>1. CASE Crash
    <3>1. Redeliver
      BY <2>1 DEF Crash
    <3> QED
      BY <1>3, <3>1, RedeliverFacts DEF HandlersTyped
  <2>2. CASE Restart
    <3>1. events' = events /\ up = "deaf"
      BY <2>2 DEF Restart, vars, rowVars
    <3> QED
      BY <1>3, <3>1 DEF RowsOK, HandlersOK
  <2> QED
    BY <2>1, <2>2
<1>5. CatalogShape' /\ RowsOK'
  <2>1. CatalogShape'
    BY <1>1, <1>4, ShapeBesides
  <2> QED
    BY <2>1 DEF CatalogShape
<1>6. HandlersOK'
  BY <1>1 DEF HandlersOK, Idle
<1>7. JobsOK' /\ (~overlap' => DocsOK')
  <2>1. up' # "created"
    BY <1>1
  <2> QED
    BY <1>1, <1>2, <2>1 DEF JobsOK, DocsOK
<1>8. ASSUME NEW p \in Product, Sure(p)' PROVE Tracks(p)'
  <2>1. Sure(p)
    BY <1>1, <1>8 DEF Sure
  <2> QED
    BY <1>1, <1>2, <1>3, <1>4, <1>5, <2>1, HandlersGo
<1> QED
  BY <1>5, <1>6, <1>7, <1>8

LEMMA WriteIndexFacts ==
  ASSUME NamesOK
  PROVE  /\ WriteIndex \in 0..MaxIndex
         /\ alias # {} => WriteIndex \in alias
         /\ Lone => ~Ambiguous
<1>1. alias # {} => WriteIndex \in alias
  BY DEF WriteIndex
<1>2. WriteIndex \in 0..MaxIndex
  <2>1. alias = {} => WriteIndex = 0
    BY DEF WriteIndex
  <2>2. alias \subseteq 0..MaxIndex /\ 0 \in 0..MaxIndex
    BY SearchAssumption DEF NamesOK
  <2> QED
    BY <1>1, <2>1, <2>2
<1>3. ASSUME Lone PROVE ~Ambiguous
  <2>1. \A i, k \in alias : i = k
    BY <1>3 DEF Lone
  <2>2. CASE alias = {}
    <3>1. Cardinality(alias) = 0
      BY <2>2, FS_EmptySet
    <3> QED
      BY <3>1 DEF Ambiguous
  <2>3. CASE alias # {}
    <3>1. PICK i \in alias : alias = {i}
      BY <2>1, <2>3
    <3>2. Cardinality(alias) = 1
      BY <3>1, FS_Singleton
    <3> QED
      BY <3>2 DEF Ambiguous
  <2> QED
    BY <2>2, <2>3
<1> QED
  BY <1>1, <1>2, <1>3

(* A handler that is busy with another product. *)
LEMMA OtherHandler ==
  ASSUME IndexInv, NEW h \in Handler, NEW p \in Product, Sure(p), of[h] # p, of'[h] # p,
         \A g \in Handler \ {h} :
           at'[g] = at[g] /\ of'[g] = of[g] /\ asking'[g] = asking[g] /\ got'[g] = got[g],
         UNCHANGED <<alias, jobVars>>, row'[p] = row[p], events'[p] = events[p],
         \A i \in 0..MaxIndex : docs'[i][p] = docs[i][p]
  PROVE  Tracks(p)'
<1> USE DEF IndexInv, Follows
<1>1. WriteIndex \in 0..MaxIndex /\ \A j \in Job : next[j] \in 0..MaxIndex
  BY WriteIndexFacts DEF AliasInv, NamesOK
<1>2. LiveDoc(p)' = LiveDoc(p)
  <2>1. WriteIndex' = WriteIndex
    BY DEF WriteIndex
  <2> QED
    BY <1>1, <2>1 DEF LiveDoc
<1>3. \A g \in Handler : /\ of'[g] = p <=> of[g] = p
                         /\ of[g] = p => at'[g] = at[g] /\ asking'[g] = asking[g] /\ got'[g] = got[g]
  OBVIOUS
<1>4. Quiet(p)' => Quiet(p)
  BY <1>3 DEF Quiet
<1> QED
  BY <1>1, <1>2, <1>3, <1>4, TracksStays

LEMMA TakeFollows ==
  ASSUME IndexInv, NEW h \in Handler, NEW q \in Product, NEW a \in {"UPSERT", "DELETE"}, Take(h, q, a)
  PROVE  Follows'
<1> USE DEF IndexInv, Follows
<1> DEFINE b == IF a = "DELETE" THEN "delete" ELSE "fetch"
           cs == IF a = "DELETE" THEN {} ELSE Currency
           e == [events[q] EXCEPT ![a] = @ - 1]
<1>1. /\ up = "up" /\ Idle(h) /\ events[q][a] > 0 /\ events' = [events EXCEPT ![q] = e]
      /\ HandlerGoes(h, b, q, cs, got[h])
      /\ unsure' = IF (\E g \in Handler : of[g] = q) \/ \E j \in Job : Building(j)
                   THEN unsure \union {q} ELSE unsure
      /\ UNCHANGED <<up, esVars, jobVars, overlap, row, stocked, asked, made, cache, requestVars, raced,
                     calls, faults>>
  BY DEF Take, HandlerGoes, HandlersOK
<1>2. UNCHANGED <<index, alias, docs, jpc, next, cursor, page, buffer, live>>
  BY <1>1 DEF esVars, jobVars
<1>3. HandlersTyped /\ got[h] = {} /\ RowsOK /\ q # 0
  BY <1>1, SearchAssumption DEF HandlersTyped, HandlersOK, AliasInv, NamesOK, Idle, CatalogShape
<1>4. /\ HandlersTyped' /\ at'[h] = b /\ of'[h] = q /\ asking'[h] = cs /\ got'[h] = {}
      /\ \A g \in Handler \ {h} :
           at'[g] = at[g] /\ of'[g] = of[g] /\ asking'[g] = asking[g] /\ got'[g] = got[g]
  <2>1. /\ b \in {"idle", "fetch", "delete"} /\ (b = "idle" <=> q = 0)
        /\ cs \in SUBSET Currency /\ {} \in SUBSET Currency /\ cs \intersect {} = {}
        /\ b # "fetch" => cs = {} /\ {} = {}
    BY <1>3
  <2> HIDE DEF b, cs, e
  <2> QED
    BY <1>1, <1>3, <2>1, HandlerGoesOn
<1>5. /\ events' \in [Product -> [{"UPSERT", "DELETE"} -> Nat]]
      /\ \A p \in Product : p # q => events'[p] = events[p]
      /\ events'[q][a] < events[q][a] /\ \A c \in {"UPSERT", "DELETE"} : c # a => events'[q][c] = events[q][c]
  <2>1. events[q] \in [{"UPSERT", "DELETE"} -> Nat] /\ events[q][a] \in Nat
    BY <1>3 DEF RowsOK
  <2>2. e \in [{"UPSERT", "DELETE"} -> Nat] /\ e[a] < events[q][a]
        /\ \A c \in {"UPSERT", "DELETE"} : c # a => e[c] = events[q][c]
    BY <1>1, <2>1
  <2> HIDE DEF e
  <2> QED
    BY <1>1, <1>3, <2>2 DEF RowsOK
<1>6. CatalogShape' /\ RowsOK'
  <2>1. CatalogShape'
    BY <1>1, <1>5, ShapeBesides
  <2> QED
    BY <2>1 DEF CatalogShape
<1>7. JobsOK' /\ (~overlap' => DocsOK')
  BY <1>1, <1>2 DEF JobsOK, DocsOK
<1>8. ASSUME NEW p \in Product, Sure(p)' PROVE Tracks(p)'
  <2>1. Sure(p) /\ Tracks(p)
    BY <1>1, <1>8 DEF Sure
  <2>2. CASE p # q
    <3>1. of[h] # p
      BY <1>1, <1>3, SearchAssumption DEF HandlersOK
    <3> QED
      BY <1>1, <1>2, <1>4, <1>5, <2>1, <2>2, <3>1, OtherHandler
  <2>3. CASE p = q
    <3>1. (\A g \in Handler : of[g] # p) /\ \A j \in Job : ~Building(j)
      BY <1>1, <1>8, <2>3 DEF Sure
    <3>2. OneHandler(p)' /\ \A j \in Job : Built(j, p)'
      BY <1>2, <1>4, <3>1 DEF OneHandler, Building, Built
    <3>3. ASSUME Quiet(p)' PROVE Followed(p)'
      <4>1. CASE row[p] = Absent
        <5>1. a = "UPSERT"
          BY <1>1, <1>4, <2>3, <3>3, <4>1 DEF Quiet
        <5>2. Quiet(p)
          BY <1>1, <1>5, <2>3, <3>1, <3>3, <4>1, <5>1 DEF Quiet
        <5>3. LiveDoc(p) = Truth(p)
          BY <2>1, <4>1, <5>2 DEF Tracks, Followed
        <5>4. LiveDoc(p)' = LiveDoc(p) /\ Truth(p)' = Truth(p)
          BY <1>1, <1>2 DEF LiveDoc, WriteIndex, Truth, Document, Answers, PricedIn
        <5>5. ~Answers(row'[p], Default) /\ \A c \in Currency : ~Answers(row'[p], c)
          BY <1>1, <4>1 DEF Answers
        <5> QED
          BY <1>4, <3>1, <5>3, <5>4, <5>5 DEF Followed
      <4>2. CASE row[p] # Absent
        <5>1. \A g \in Handler : of'[g] = p => g = h
          BY <1>4, <3>1
        <5>2. at'[h] = "fetch" => asking'[h] = Currency
          BY <1>4
        <5> QED
          BY <1>1, <1>4, <2>3, <4>2, <5>1, <5>2 DEF Followed
      <4> QED
        BY <4>1, <4>2
    <3> QED
      BY <3>2, <3>3 DEF Tracks
  <2> QED
    BY <2>2, <2>3
<1> QED
  BY <1>4, <1>6, <1>7, <1>8 DEF HandlersTyped

(* A handler asks the catalog, and learns what the row says unless the cache says otherwise. *)
LEMMA FetchFollows ==
  ASSUME IndexInv, NEW h \in Handler, NEW c \in Currency, Fetch(h, c)
  PROVE  Follows'
<1> USE DEF IndexInv, Follows
<1> DEFINE q == of[h]
           x == IF cache[q] # Absent THEN cache[q] ELSE row[q]
           cs == asking[h] \ {c}
           gs == IF Answers(x, c) THEN got[h] \union {c} ELSE got[h]
<1>1. /\ at[h] = "fetch" /\ c \in asking[h]
      /\ asking' = [asking EXCEPT ![h] = cs] /\ got' = [got EXCEPT ![h] = gs]
      /\ cache' = [cache EXCEPT ![q] = x]
      /\ unsure' = IF x # row[q] THEN unsure \union {q} ELSE unsure
      /\ UNCHANGED <<up, esVars, at, of, jobVars, overlap, row, stocked, events, asked, made,
                     requestVars, raced, calls, faults>>
  BY DEF Fetch, rowVars
<1>2. UNCHANGED <<index, alias, docs, jpc, next, cursor, page, buffer, live>>
  BY <1>1 DEF esVars, jobVars
<1>3. HandlersTyped /\ RowsOK /\ q \in Product
  BY <1>1 DEF HandlersTyped, HandlersOK, AliasInv, NamesOK, Idle, CatalogShape
<1>4. /\ HandlersTyped' /\ at'[h] = "fetch" /\ of'[h] = q /\ asking'[h] = cs /\ got'[h] = gs
      /\ \A g \in Handler \ {h} :
           at'[g] = at[g] /\ of'[g] = of[g] /\ asking'[g] = asking[g] /\ got'[g] = got[g]
  <2>1. HandlerGoes(h, at[h], q, cs, gs)
    BY <1>1, <1>3 DEF HandlerGoes, HandlersTyped, HandlersOK
  <2>2. /\ cs \in SUBSET Currency /\ gs \in SUBSET Currency /\ cs \intersect gs = {}
        /\ q \in Product \union {0} /\ q # 0 /\ up \notin {"down", "created"}
    BY <1>1, <1>3, SearchAssumption DEF HandlersOK, Idle
  <2> HIDE DEF cs, gs, q
  <2> QED
    BY <1>1, <1>3, <2>1, <2>2, HandlerGoesOn DEF q
<1>5. CatalogShape'
  <2>1. cache' = cache \/ cache' = [cache EXCEPT ![q] = row[q]]
    BY <1>1, <1>3 DEF RowsOK
  <2>2. events' \in [Product -> [{"UPSERT", "DELETE"} -> Nat]]
    BY <1>1, <1>3 DEF RowsOK
  <2> QED
    BY <1>1, <1>3, <2>1, <2>2, ShapeBesides
<1>6. JobsOK' /\ (~overlap' => DocsOK')
  BY <1>1, <1>2 DEF JobsOK, DocsOK
<1>7. ASSUME NEW p \in Product, Sure(p)' PROVE Tracks(p)'
  <2>1. Sure(p) /\ Tracks(p)
    BY <1>1, <1>7 DEF Sure
  <2>2. CASE p # q
    BY <1>1, <1>2, <1>4, <2>1, <2>2, OtherHandler
  <2>3. CASE p = q
    <3>1. x = row[p]
      BY <1>1, <1>7, <2>3 DEF Sure
    <3>2. OneHandler(p)' /\ Quiet(p)' = Quiet(p) /\ LiveDoc(p)' = LiveDoc(p) /\ Truth(p)' = Truth(p)
      BY <1>1, <1>2, <2>1
         DEF Tracks, OneHandler, Building, Quiet, LiveDoc, WriteIndex, Truth, Document, Answers, PricedIn
    <3>3. \A j \in Job : Quiet(p) => Built(j, p)'
      BY <1>1, <1>2, <2>1, BuiltStays DEF Tracks
    <3>4. ASSUME Quiet(p) PROVE Followed(p)'
      <4>1. Followed(p)
        BY <2>1, <3>4 DEF Tracks
      <4>2. ASSUME NEW d \in Currency \ cs PROVE d \in gs <=> Answers(row[p], d)
        <5>1. CASE d = c
          <6>1. c \notin got[h]
            BY <1>1 DEF HandlersOK
          <6> QED
            BY <3>1, <5>1, <6>1
        <5>2. CASE d # c
          <6>1. d \in got[h] <=> Answers(row[p], d)
            BY <1>1, <2>3, <4>1, <4>2, <5>2 DEF Followed
          <6> QED
            BY <5>2, <6>1
        <5> QED
          BY <5>1, <5>2
      <4>3. ASSUME NEW g \in Handler, of'[g] = p, at'[g] = "fetch", NEW d \in Currency \ asking'[g]
            PROVE  d \in got'[g] <=> Answers(row'[p], d)
        <5>1. row'[p] = row[p] /\ of[g] = p
          BY <1>1, <4>3
        <5>2. g = h
          BY <2>1, <2>3, <5>1 DEF Tracks, OneHandler
        <5>3. asking'[g] = cs /\ got'[g] = gs
          BY <1>4, <5>2
        <5> HIDE DEF cs, gs
        <5> QED
          BY <4>2, <4>3, <5>1, <5>3
      <4> QED
        BY <1>1, <3>2, <4>1, <4>3 DEF Followed
    <3> QED
      BY <3>2, <3>3, <3>4 DEF Tracks
  <2> QED
    BY <2>2, <2>3
<1> QED
  BY <1>4, <1>5, <1>6, <1>7 DEF HandlersTyped

(* A handler ends: what it leaves behind the alias is the truth, if nothing is left to tell. *)
LEMMA StopFollows ==
  ASSUME IndexInv, NEW h \in Handler, NEW q \in Product, q = of[h], ~Idle(h), Stop(h),
         UNCHANGED <<up, alias, jobVars, overlap, row, events>>,
         CatalogShape', JobsOK', ~overlap => DocsOK', unsure \subseteq unsure',
         \A p \in Product : p # q => \A i \in 0..MaxIndex : docs'[i][p] = docs[i][p],
         Sure(q)' /\ (Quiet(q) \/ at[h] = "delete") => LiveDoc(q)' = Truth(q)
  PROVE  Follows'
<1> USE DEF IndexInv, Follows
<1>1. HandlersTyped /\ of[h] \in Product /\ of[h] # 0 /\ RowsOK /\ RowsOK'
  BY SearchAssumption DEF HandlersTyped, HandlersOK, AliasInv, NamesOK, CatalogShape
<1>2. /\ HandlersTyped' /\ at'[h] = "idle" /\ of'[h] = 0
      /\ \A g \in Handler \ {h} :
           at'[g] = at[g] /\ of'[g] = of[g] /\ asking'[g] = asking[g] /\ got'[g] = got[g]
  <2>1. HandlerGoes(h, "idle", 0, {}, {}) /\ up \notin {"down", "created"}
    BY StopGoes DEF HandlersOK
  <2> QED
    BY <1>1, <2>1, HandlerGoesOn
<1>3. ASSUME NEW p \in Product, Sure(p)' PROVE Tracks(p)'
  <2>1. Sure(p) /\ Tracks(p) /\ p # 0
    BY <1>3, SearchAssumption DEF Sure
  <2>2. CASE p # of[h]
    BY <1>2, <2>1, <2>2, OtherHandler
  <2>3. CASE p = of[h]
    <3>1. (\A g \in Handler : of'[g] # p) /\ (\A j \in Job : ~Building(j) /\ ~Building(j)')
      BY <1>2, <2>1, <2>3 DEF Tracks, OneHandler, Building, jobVars
    <3>2. OneHandler(p)' /\ \A j \in Job : Built(j, p)'
      BY <3>1 DEF OneHandler, Building, Built
    <3>3. ASSUME Quiet(p)' PROVE Followed(p)'
      <4>1. Quiet(p) \/ at[h] = "delete"
        <5>1. ASSUME at[h] # "delete" PROVE \A g \in Handler : of[g] = p => at[g] # "delete"
          BY <2>1, <2>3, <5>1 DEF Tracks, OneHandler
        <5> QED
          BY <3>3, <5>1 DEF Quiet
      <4>2. LiveDoc(p)' = Truth(p) /\ Truth(p)' = Truth(p)
        BY <1>3, <2>3, <4>1 DEF Truth, Document, Answers, PricedIn
      <4> QED
        BY <3>1, <4>2 DEF Followed
    <3> QED
      BY <3>2, <3>3 DEF Tracks
  <2> QED
    BY <2>2, <2>3
<1> QED
  BY <1>2, <1>3 DEF HandlersTyped, Sure

LEMMA SkipFollows ==
  ASSUME IndexInv, NEW h \in Handler, Skip(h)
  PROVE  Follows'
<1> USE DEF IndexInv, Follows
<1>0. PICK q \in Product : q = of[h]
  BY DEF HandlersOK, Skip, Idle
<1>1. /\ at[h] = "fetch" /\ ~Idle(h) /\ asking[h] = {} /\ got[h] = {} /\ Stop(h)
      /\ UNCHANGED <<up, index, alias, docs, jobVars, unsure, overlap, vars, row, events>>
  BY DEF Skip, Idle, esVars, vars, rowVars
<1>2. CatalogShape' /\ JobsOK' /\ (~overlap => DocsOK') /\ RowsOK
  BY <1>1, SameRows DEF JobsOK, DocsOK, jobVars, CatalogShape
<1>3. ASSUME Sure(q)', Quiet(q) PROVE LiveDoc(q)' = Truth(q)
  <2>1. Sure(q)
    BY <1>1, <1>3 DEF Sure
  <2>2. Followed(q)
    BY <1>2, <1>3, <2>1 DEF Tracks
  <2>3. ~Answers(row[q], Default)
    BY <1>0, <1>1, <2>2, CatalogAssumption DEF Followed
  <2>4. row[q] = Absent
    BY <1>2, <1>3, <2>3, RowFacts DEF Quiet
  <2> QED
    BY <1>1, <2>2, <2>4 DEF Followed, LiveDoc, WriteIndex
<1> QED
  BY <1>0, <1>1, <1>2, <1>3, StopFollows

LEMMA IndexDocumentFollows ==
  ASSUME IndexInv, NEW h \in Handler, IndexDocument(h)
  PROVE  Follows'
<1> USE DEF IndexInv, Follows
<1> DEFINE d == [prices |-> got[h], active |-> TRUE]
<1>1. PICK q \in Product : q = of[h]
  BY DEF HandlersOK, IndexDocument, Idle
<1>2. /\ at[h] = "fetch" /\ ~Idle(h) /\ asking[h] = {} /\ got[h] # {} /\ Stop(h)
      /\ WriteDoc(q, d)
      /\ UNCHANGED <<up, alias, jobVars, unsure, overlap, vars, row, events>>
  BY <1>1 DEF IndexDocument, Idle, vars, rowVars
<1>3. /\ CatalogShape' /\ RowsOK /\ WriteIndex \in 0..MaxIndex /\ WriteIndex' = WriteIndex
      /\ d \in Doc /\ got[h] \subseteq Currency
  <2>1. CatalogShape' /\ WriteIndex \in 0..MaxIndex
    BY <1>2, SameRows, WriteIndexFacts DEF AliasInv
  <2>2. RowsOK /\ got[h] \in SUBSET Currency
    BY DEF CatalogShape, HandlersOK
  <2> QED
    BY <1>2, <2>1, <2>2 DEF Doc, WriteIndex
<1> HIDE DEF d
<1>4. \/ docs' = docs /\ index' = index /\ Ambiguous
      \/ /\ ~Ambiguous /\ index' = index \union {WriteIndex}
         /\ docs' = [docs EXCEPT ![WriteIndex] = [docs[WriteIndex] EXCEPT ![q] = d]]
  BY <1>2 DEF WriteDoc
<1> DEFINE D == [docs[WriteIndex] EXCEPT ![q] = d]
<1>5. D \in [Product -> Doc] /\ D[q] = d /\ \A p \in Product : p # q => D[p] = docs[WriteIndex][p]
  BY <1>1, <1>3 DEF JobsOK
<1>6. docs' = docs \/ docs' = [docs EXCEPT ![WriteIndex] = D]
  BY <1>4
<1> HIDE DEF D
<1>7. /\ docs' \in [0..MaxIndex -> [Product -> Doc]]
      /\ \A i \in 0..MaxIndex : i # WriteIndex => docs'[i] = docs[i]
      /\ \A p \in Product : p # q => \A i \in 0..MaxIndex : docs'[i][p] = docs[i][p]
  BY <1>3, <1>5, <1>6 DEF JobsOK
<1>8. JobsOK'
  BY <1>2, <1>7 DEF JobsOK, jobVars
<1>9. ASSUME ~overlap PROVE DocsOK'
  <2>1. up \notin {"down", "created"}
    BY <1>2 DEF HandlersOK
  <2>2. (WriteIndex \in index' \/ docs' = docs) /\ index \subseteq index'
    BY <1>4
  <2>3. \A i \in 0..MaxIndex : i \notin index' => docs'[i] = NoDocs
    BY <1>7, <1>9, <2>2 DEF DocsOK
  <2>4. up' # "created" /\ UNCHANGED <<jpc, next>>
    BY <1>2, <2>1 DEF jobVars
  <2> QED
    BY <1>9, <2>2, <2>3, <2>4 DEF DocsOK
<1>10. ASSUME Sure(q)', Quiet(q) PROVE LiveDoc(q)' = Truth(q)
  <2>1. Sure(q) /\ ~Ambiguous
    BY <1>2, <1>10, WriteIndexFacts DEF Sure, AliasInv
  <2>2. Followed(q)
    BY <1>10, <2>1 DEF Tracks
  <2>3. \A c \in Currency : c \in got[h] <=> Answers(row[q], c)
    BY <1>1, <1>2, <2>2 DEF Followed
  <2>4. got[h] = {c \in Currency : Answers(row[q], c)}
    BY <1>3, <2>3
  <2>5. row[q] # Absent
    BY <1>2, <1>3, <2>3 DEF Answers
  <2>6. Truth(q) = d
    BY <2>4, <2>5 DEF Truth, Document, d
  <2>7. LiveDoc(q)' = docs'[WriteIndex][q]
    BY <1>3 DEF LiveDoc
  <2>8. docs' = [docs EXCEPT ![WriteIndex] = D]
    BY <1>4, <2>1 DEF D
  <2> QED
    BY <1>3, <1>5, <2>6, <2>7, <2>8 DEF JobsOK
<1>11. ~Idle(h) /\ Stop(h) /\ UNCHANGED <<up, alias, jobVars, overlap, row, events>> /\ unsure \subseteq unsure'
  BY <1>2
<1>12. Sure(q)' /\ (Quiet(q) \/ at[h] = "delete") => LiveDoc(q)' = Truth(q)
  BY <1>2, <1>10
<1>13. \A p \in Product : p # q => \A i \in 0..MaxIndex : docs'[i][p] = docs[i][p]
  BY <1>7
<1>14. CatalogShape'
  BY <1>3
<1> HIDE DEF IndexInv, Follows
<1> QED
  BY <1>1, <1>8, <1>9, <1>11, <1>12, <1>13, <1>14, StopFollows

LEMMA DeleteDocumentFollows ==
  ASSUME IndexInv, NEW h \in Handler, DeleteByProductId(h)
  PROVE  Follows'
<1> USE DEF IndexInv, Follows
<1>1. PICK q \in Product : q = of[h]
  BY DEF HandlersOK, DeleteByProductId, Idle
<1>2. /\ at[h] = "delete" /\ ~Idle(h) /\ Stop(h)
      /\ docs' = IF Ambiguous THEN docs ELSE [docs EXCEPT ![WriteIndex] = [docs[WriteIndex] EXCEPT ![q] = NoDoc]]
      /\ unsure' = IF row[q] # Absent THEN unsure \union {q} ELSE unsure
      /\ UNCHANGED <<up, index, alias, jobVars, overlap, vars, row, events>>
  BY <1>1 DEF DeleteByProductId, Idle, vars, rowVars
<1>3. /\ CatalogShape' /\ RowsOK /\ WriteIndex \in 0..MaxIndex /\ WriteIndex' = WriteIndex
  <2>1. CatalogShape' /\ RowsOK /\ WriteIndex \in 0..MaxIndex
    BY <1>2, SameRows, WriteIndexFacts DEF AliasInv, CatalogShape
  <2> QED
    BY <1>2, <2>1 DEF WriteIndex
<1> DEFINE D == [docs[WriteIndex] EXCEPT ![q] = NoDoc]
<1>4. D \in [Product -> Doc] /\ D[q] = NoDoc /\ \A p \in Product : p # q => D[p] = docs[WriteIndex][p]
  BY <1>1, <1>3, DocFacts DEF JobsOK
<1>5. docs' = IF Ambiguous THEN docs ELSE [docs EXCEPT ![WriteIndex] = D]
  BY <1>2
<1>6. docs[WriteIndex] = NoDocs => D = NoDocs
  BY <1>1 DEF NoDocs
<1> HIDE DEF D
<1>7. /\ docs' \in [0..MaxIndex -> [Product -> Doc]]
      /\ \A i \in 0..MaxIndex : i # WriteIndex => docs'[i] = docs[i]
      /\ \A p \in Product : p # q => \A i \in 0..MaxIndex : docs'[i][p] = docs[i][p]
      /\ \A i \in 0..MaxIndex : docs[i] = NoDocs => docs'[i] = NoDocs
  BY <1>3, <1>4, <1>5, <1>6 DEF JobsOK
<1>8. JobsOK'
  BY <1>2, <1>7 DEF JobsOK, jobVars
<1>9. ASSUME ~overlap PROVE DocsOK'
  <2>1. up \notin {"down", "created"}
    BY <1>2 DEF HandlersOK
  <2>2. up' # "created" /\ UNCHANGED <<index, jpc, next>>
    BY <1>2, <2>1 DEF jobVars
  <2>3. \A i \in 0..MaxIndex : i \notin index' => docs'[i] = NoDocs
    BY <1>7, <1>9, <2>2 DEF DocsOK
  <2> QED
    BY <1>9, <2>2, <2>3 DEF DocsOK
<1>10. ASSUME Sure(q)' PROVE LiveDoc(q)' = Truth(q)
  <2>1. Sure(q) /\ ~Ambiguous /\ row[q] = Absent
    BY <1>2, <1>10, WriteIndexFacts DEF Sure, AliasInv
  <2>2. LiveDoc(q)' = docs'[WriteIndex][q]
    BY <1>3 DEF LiveDoc
  <2> QED
    BY <1>3, <1>4, <1>5, <2>1, <2>2 DEF JobsOK, Truth
<1>11. ~Idle(h) /\ Stop(h) /\ UNCHANGED <<up, alias, jobVars, overlap, row, events>> /\ unsure \subseteq unsure'
  BY <1>2
<1>12. Sure(q)' /\ (Quiet(q) \/ at[h] = "delete") => LiveDoc(q)' = Truth(q)
  BY <1>10
<1>13. \A p \in Product : p # q => \A i \in 0..MaxIndex : docs'[i][p] = docs[i][p]
  BY <1>7
<1>14. CatalogShape'
  BY <1>3
<1> HIDE DEF IndexInv, Follows
<1> QED
  BY <1>1, <1>8, <1>9, <1>11, <1>12, <1>13, <1>14, StopFollows

LEMMA HandlerFailsFollows ==
  ASSUME IndexInv, NEW h \in Handler, HandlerFails(h)
  PROVE  Follows'
<1> USE DEF IndexInv, Follows
<1>1. PICK q \in Product : q = of[h]
  BY DEF HandlersOK, HandlerFails
<1>2. /\ ~Idle(h) /\ Stop(h) /\ Fault /\ unsure' = unsure \union {q}
      /\ UNCHANGED <<up, index, alias, docs, jobVars, overlap, row, stocked, events, asked, made, cache,
                     requestVars, raced, calls>>
  BY <1>1 DEF HandlerFails, esVars, rowVars
<1>3. CatalogShape' /\ JobsOK' /\ (~overlap => DocsOK')
  <2>1. events' \in [Product -> [{"UPSERT", "DELETE"} -> Nat]]
    BY <1>2 DEF CatalogShape, RowsOK
  <2>2. CatalogShape'
    BY <1>2, <2>1, ShapeBesides
  <2> QED
    BY <1>2, <2>2 DEF JobsOK, DocsOK, jobVars
<1>4. ~Sure(q)'
  BY <1>2 DEF Sure
<1> QED
  BY <1>1, <1>2, <1>3, <1>4, StopFollows

LEMMA HandleFollows ==
  ASSUME IndexInv, NEW h \in Handler, Handle(h)
  PROVE  Follows'
BY TakeFollows, FetchFollows, SkipFollows, IndexDocumentFollows, DeleteDocumentFollows, HandlerFailsFollows
   DEF Handle

(* A reindex disturbs nothing in the catalog and no handler. *)
LEMMA ReindexKeeps ==
  ASSUME CatalogShape, HandlersOK, faults' = faults \/ Fault,
         UNCHANGED <<up, at, of, asking, got, row, stocked, events, asked, made, cache, requestVars, raced, calls>>
  PROVE  CatalogShape' /\ HandlersOK'
<1>1. events' \in [Product -> [{"UPSERT", "DELETE"} -> Nat]]
  BY DEF CatalogShape, RowsOK
<1>2. CatalogShape'
  BY <1>1, ShapeBesides
<1>3. \A h \in Handler : Idle(h)' = Idle(h) /\ EventOf(h)' = EventOf(h)
  BY DEF Idle, EventOf
<1> QED
  BY <1>2, <1>3 DEF HandlersOK

(* What one reindex holds. *)
JobHolds(j, n, g, b) ==
  cursor' = [cursor EXCEPT ![j] = n] /\ page' = [page EXCEPT ![j] = g] /\ buffer' = [buffer EXCEPT ![j] = b]

LEMMA JobHoldsOn ==
  ASSUME JobsOK, NEW j \in Job, NEW n \in Nat, NEW g \in [Currency -> Page], NEW b \in [Product -> Doc],
         JobHolds(j, n, g, b), docs' \in [0..MaxIndex -> [Product -> Doc]],
         \A k \in Job \ {j} : jpc'[k] = jpc[k],
         jpc'[j] \in {"idle", "create"} => n = 0 /\ g = [c \in Currency |-> NoPage] /\ b = NoDocs
  PROVE  JobsOK' /\ cursor'[j] = n /\ page'[j] = g /\ buffer'[j] = b
<1>1. /\ cursor' \in [Job -> Nat] /\ page' \in [Job -> [Currency -> Page]] /\ buffer' \in [Job -> [Product -> Doc]]
      /\ cursor'[j] = n /\ page'[j] = g /\ buffer'[j] = b
      /\ \A k \in Job \ {j} : cursor'[k] = cursor[k] /\ page'[k] = page[k] /\ buffer'[k] = buffer[k]
  BY DEF JobsOK, JobHolds
<1>2. \A k \in Job : jpc'[k] \in {"idle", "create"} =>
        cursor'[k] = 0 /\ page'[k] = [c \in Currency |-> NoPage] /\ buffer'[k] = NoDocs
  BY <1>1 DEF JobsOK
<1> QED
  BY <1>1, <1>2 DEF JobsOK, NoDocs, NoDoc, NoPage

LEMMA JobHoldsStill ==
  ASSUME JobsOK, NEW j \in Job, UNCHANGED <<cursor, page, buffer>>
  PROVE  /\ JobHolds(j, cursor[j], page[j], buffer[j])
         /\ cursor[j] \in Nat /\ page[j] \in [Currency -> Page] /\ buffer[j] \in [Product -> Doc]
BY DEF JobsOK, JobHolds

LEMMA JobHoldsNothing ==
  ASSUME NEW j \in Job, EndJob(j)
  PROVE  /\ JobHolds(j, 0, [c \in Currency |-> NoPage], NoDocs)
         /\ 0 \in Nat /\ [c \in Currency |-> NoPage] \in [Currency -> Page] /\ NoDocs \in [Product -> Doc]
BY DocFacts DEF EndJob, JobHolds, Page

(* A step of the only reindex there is. *)
LEMMA OneReindex ==
  ASSUME IndexInv, NEW j \in Job, NEW p \in Product, Sure(p), Running(j) \/ NoJob,
         UNCHANGED <<row, events, at, of, asking, got>>,
         \A k \in Job \ {j} : jpc'[k] = jpc[k],
         Building(j)' => Building(j) \/ \A h \in Handler : of[h] # p,
         Quiet(p) /\ Built(j, p) => Built(j, p)',
         LiveDoc(p)' = LiveDoc(p) \/ (Quiet(p) /\ Built(j, p) => LiveDoc(p)' = Truth(p))
  PROVE  Tracks(p)'
<1> USE DEF IndexInv, Follows
<1>1. Tracks(p) /\ Lone
  BY DEF Sure, AliasInv
<1>2. \A k \in Job \ {j} : jpc'[k] = "idle"
  BY <1>1 DEF Lone, NoJob, Running
<1>3. OneHandler(p)'
  BY <1>1, <1>2 DEF Tracks, OneHandler, Building
<1>4. Quiet(p)' = Quiet(p) /\ Truth(p)' = Truth(p)
  BY DEF Quiet, Truth, Document, Answers, PricedIn
<1>5. ASSUME Quiet(p) PROVE Followed(p)' /\ \A k \in Job : Built(k, p)'
  <2>1. Followed(p) /\ Built(j, p)
    BY <1>1, <1>5 DEF Tracks
  <2>2. Followed(p)'
    BY <1>4, <1>5, <2>1 DEF Followed
  <2>3. \A k \in Job \ {j} : Built(k, p)'
    BY <1>2 DEF Built
  <2> QED
    BY <1>5, <2>1, <2>2, <2>3
<1> QED
  BY <1>3, <1>4, <1>5 DEF Tracks

LEMMA LeastOfNumbers ==
  ASSUME NEW S, S \subseteq Nat, S # {}
  PROVE  \E m \in S : \A k \in S : m <= k
<1>1. IsWellFoundedOn({p \in Nat \X Nat : p[1] < p[2]}, Nat)
  BY NatLessThanWellFounded DEF OpToRel
<1>2. PICK m \in S : \A k \in S : ~(<<k, m>> \in {p \in Nat \X Nat : p[1] < p[2]})
  BY <1>1, WFMin
<1>3. ASSUME NEW k \in S PROVE m <= k
  <2>1. k \in Nat /\ m \in Nat /\ ~(k < m)
    BY <1>2
  <2> QED
    BY <2>1
<1> QED
  BY <1>3

(* A page is the least products of what is left, and its last comes before those it has not. *)
LEMMA PageFacts ==
  ASSUME JobsOK, NEW j \in Job, ~CursorGone(j)
  PROVE  /\ PageOf(j) \subseteq Rest(j) /\ Rest(j) \subseteq Product /\ LastOf(j) \in Nat
         /\ \A p \in Rest(j) \ PageOf(j) : LastOf(j) # 0 /\ LastOf(j) < p
<1> DEFINE R == Rest(j)
           P == PageOf(j)
           B(p) == {q \in R : q < p}
<1>1. R \subseteq Product /\ R \subseteq Nat \ {0} /\ P = {p \in R : Cardinality(B(p)) < PageSize}
  BY SearchAssumption DEF Rest, PageOf
<1>2. LastOf(j) = IF P = {} \/ P = R THEN 0 ELSE Max(P)
  BY DEF LastOf
<1> HIDE DEF R, P
<1>3. P \subseteq R /\ \A q \in R : IsFiniteSet(B(q)) /\ Cardinality(B(q)) \in Nat
  <2>1. ASSUME NEW q \in R PROVE IsFiniteSet(B(q))
    <3>1. B(q) \in SUBSET (0..q)
      <4>1. q \in Nat /\ \A x \in B(q) : x \in 0..q
        BY <1>1
      <4> QED
        BY <4>1
    <3>2. IsFiniteSet(0..q)
      BY <1>1, FS_Interval
    <3> HIDE DEF B
    <3> QED
      BY <3>1, <3>2, FS_Subset
  <2>2. \A q \in R : Cardinality(B(q)) \in Nat
    BY <2>1, FS_CardinalityType
  <2>3. P \subseteq R
    BY <1>1
  <2> QED
    BY <2>1, <2>2, <2>3
<1>4. R # {} => P # {}
  <2> SUFFICES ASSUME R # {} PROVE P # {}
    OBVIOUS
  <2>1. PICK m \in R : \A k \in R : m <= k
    BY <1>1, LeastOfNumbers
  <2>2. ASSUME NEW k \in B(m) PROVE FALSE
    <3>1. k \in Nat /\ m \in Nat /\ k < m /\ m <= k
      BY <1>1, <2>1
    <3> QED
      BY <3>1
  <2>3. B(m) = {}
    BY <2>2
  <2>4. Cardinality(B(m)) = 0
    BY <2>3, FS_EmptySet
  <2>5. 0 < PageSize
    BY SearchAssumption
  <2> QED
    BY <1>1, <2>1, <2>4, <2>5
<1>5. ASSUME NEW p \in R \ P, NEW q \in P PROVE q < p
  <2> SUFFICES ASSUME ~(q < p) PROVE FALSE
    OBVIOUS
  <2>0. p \in Nat /\ q \in Nat /\ q \in R /\ p <= q
    BY <1>1, <1>3
  <2>1. B(p) \in SUBSET B(q)
    <3>1. \A x \in B(p) : x \in R /\ x \in Nat /\ x < q
      BY <1>1, <2>0
    <3> QED
      BY <3>1
  <2>2. Cardinality(B(p)) <= Cardinality(B(q))
    BY <1>3, <2>0, <2>1, FS_Subset
  <2>3. Cardinality(B(q)) < PageSize /\ ~(Cardinality(B(p)) < PageSize)
    BY <1>1
  <2> QED
    BY <1>3, <2>0, <2>2, <2>3, SearchAssumption
<1>6. ASSUME NEW p \in R \ P PROVE LastOf(j) \in Nat /\ LastOf(j) # 0 /\ LastOf(j) < p
  <2>0. p \in R /\ p \in Nat /\ P # {}
    BY <1>1, <1>4
  <2>1. P \subseteq 0..p
    <3>1. ASSUME NEW x \in P PROVE x \in 0..p
      <4>1. x \in Nat /\ x < p
        BY <1>1, <1>3, <1>5
      <4> QED
        BY <2>0, <4>1
    <3> QED
      BY <3>1
  <2>2. Max(P) \in P
    BY <2>0, <2>1, GreatestOfNumbers
  <2>3. LastOf(j) = Max(P)
    BY <1>2, <2>0
  <2> QED
    BY <1>1, <1>3, <1>5, <2>2, <2>3
<1>7. LastOf(j) \in Nat
  BY <1>2, <1>3, <1>6
<1> QED
  BY <1>1, <1>3, <1>6, <1>7 DEF R, P

(* A reindex begins: what is being handled then, it may miss. *)
LEMMA ChooseNextFollows ==
  ASSUME IndexInv, NEW j \in Job, ChooseNext(j)
  PROVE  Follows'
<1> USE DEF IndexInv, Follows
<1>1. /\ jpc[j] = "idle" /\ jpc' = [jpc EXCEPT ![j] = "create"]
      /\ unsure' = unsure \union {of[h] : h \in {g \in Handler : ~Idle(g)}}
      /\ UNCHANGED <<up, index, alias, docs, handlerVars, cursor, page, buffer, vars>>
      /\ (overlap => overlap') /\ (~overlap' => NoJob)
      /\ \A k \in Job \ {j} : next'[k] = next[k]
  BY DEF ChooseNext, JobGoto, esVars, NoJob, AliasInv, NamesOK
<1>2. UNCHANGED <<at, of, asking, got, row, events, faults>> /\ UNCHANGED <<stocked, asked, made, cache,
                  requestVars, raced, calls>>
  BY <1>1 DEF handlerVars, vars, rowVars
<1>3. CatalogShape' /\ HandlersOK'
  BY <1>1, <1>2, ReindexKeeps
<1>4. jpc'[j] = "create" /\ \A k \in Job \ {j} : jpc'[k] = jpc[k]
  BY <1>1 DEF AliasInv, NamesOK
<1>5. JobsOK'
  <2>1. cursor[j] = 0 /\ page[j] = [c \in Currency |-> NoPage] /\ buffer[j] = NoDocs
    BY <1>1 DEF JobsOK
  <2>2. docs' \in [0..MaxIndex -> [Product -> Doc]]
    BY <1>1 DEF JobsOK
  <2>3. JobHolds(j, cursor[j], page[j], buffer[j])
        /\ cursor[j] \in Nat /\ page[j] \in [Currency -> Page] /\ buffer[j] \in [Product -> Doc]
    BY <1>1, JobHoldsStill
  <2> QED
    BY <1>4, <2>1, <2>2, <2>3, JobHoldsOn
<1>6. ~overlap' => DocsOK'
  BY <1>1, <1>4 DEF DocsOK
<1>7. ASSUME NEW p \in Product, Sure(p)' PROVE Tracks(p)'
  <2>1. Sure(p) /\ LiveDoc(p)' = LiveDoc(p) /\ NoJob
    BY <1>1, <1>7 DEF Sure, LiveDoc, WriteIndex
  <2>2. \A h \in Handler : of[h] # p
    <3>1. p \notin {of[h] : h \in {g \in Handler : ~Idle(g)}} /\ p # 0
      BY <1>1, <1>7, SearchAssumption DEF Sure
    <3> QED
      BY <3>1 DEF HandlersOK
  <2>3. Built(j, p)'
    BY <1>4 DEF Built
  <2> QED
    BY <1>2, <1>4, <2>1, <2>2, <2>3, OneReindex
<1> QED
  BY <1>3, <1>5, <1>6, <1>7

(* A reindex ends without the alias. *)
LEMMA EndJobFollows ==
  ASSUME IndexInv, NEW j \in Job, Running(j), EndJob(j), CatalogShape', HandlersOK',
         UNCHANGED <<up, index, alias, docs, unsure, overlap, row, events, at, of, asking, got>>
  PROVE  Follows'
<1> USE DEF IndexInv, Follows
<1>1. /\ jpc'[j] = "idle" /\ \A k \in Job \ {j} : jpc'[k] = jpc[k] /\ next'[k] = next[k]
      /\ docs' \in [0..MaxIndex -> [Product -> Doc]]
  BY DEF EndJob, JobGoto, AliasInv, NamesOK, JobsOK
<1>2. JobsOK'
  <2>1. JobHolds(j, 0, [c \in Currency |-> NoPage], NoDocs)
        /\ 0 \in Nat /\ [c \in Currency |-> NoPage] \in [Currency -> Page] /\ NoDocs \in [Product -> Doc]
    BY JobHoldsNothing
  <2> QED
    BY <1>1, <2>1, JobHoldsOn
<1>3. ~overlap' => DocsOK'
  BY <1>1 DEF DocsOK
<1>4. ASSUME NEW p \in Product, Sure(p)' PROVE Tracks(p)'
  <2>1. Sure(p) /\ LiveDoc(p)' = LiveDoc(p) /\ Built(j, p)' /\ ~Building(j)'
    BY <1>1, <1>4 DEF Sure, LiveDoc, WriteIndex, Built, Building
  <2> QED
    BY <1>1, <2>1, OneReindex
<1> QED
  BY <1>2, <1>3, <1>4

LEMMA JobFailsFollows ==
  ASSUME IndexInv, NEW j \in Job, JobFails(j)
  PROVE  Follows'
<1>1. /\ Running(j) /\ Fault /\ EndJob(j)
      /\ UNCHANGED <<up, index, alias, docs, unsure, overlap, row, events, at, of, asking, got>>
      /\ UNCHANGED <<stocked, asked, made, cache, requestVars, raced, calls>>
  BY DEF JobFails, esVars, handlerVars, rowVars
<1>2. CatalogShape' /\ HandlersOK'
  BY <1>1, ReindexKeeps DEF IndexInv, Follows
<1> QED
  BY <1>1, <1>2, EndJobFollows

(* It begins to read with nothing in its hands. *)
LEMMA CreateIndexFollows ==
  ASSUME IndexInv, NEW j \in Job, CreateIndex(j)
  PROVE  Follows'
<1>1. /\ jpc[j] = "create" /\ Running(j)
      /\ UNCHANGED <<up, alias, docs, unsure, overlap, row, events, at, of, asking, got>>
      /\ UNCHANGED <<stocked, asked, made, cache, requestVars, raced, calls, faults>>
  BY DEF CreateIndex, Running, handlerVars, vars, rowVars
<1>2. CatalogShape' /\ HandlersOK'
  BY <1>1, ReindexKeeps DEF IndexInv, Follows
<1>3. CASE next[j] \in index
  <2>1. EndJob(j) /\ index' = index
    BY <1>3 DEF CreateIndex
  <2> QED
    BY <1>1, <1>2, <2>1, EndJobFollows
<1>4. CASE next[j] \notin index
  <2> USE DEF IndexInv, Follows
  <2>1. /\ index' = index \union {next[j]} /\ jpc' = [jpc EXCEPT ![j] = "read"]
        /\ UNCHANGED <<next, cursor, page, buffer, live>>
    BY <1>4 DEF CreateIndex, JobGoto
  <2>2. jpc'[j] = "read" /\ \A k \in Job \ {j} : jpc'[k] = jpc[k]
    BY <2>1 DEF AliasInv, NamesOK
  <2>3. JobsOK'
    BY <1>1, <2>1, <2>2 DEF JobsOK
  <2>4. ~overlap' => DocsOK'
    BY <1>1, <2>1, <2>2 DEF DocsOK
  <2>5. ASSUME NEW p \in Product, Sure(p)' PROVE Tracks(p)'
    <3>1. Sure(p) /\ LiveDoc(p)' = LiveDoc(p)
      BY <1>1, <2>5 DEF Sure, LiveDoc, WriteIndex
    <3>2. /\ cursor'[j] = 0 /\ page'[j] = [c \in Currency |-> NoPage] /\ buffer'[j] = NoDocs
          /\ p \in Nat /\ ~(p <= 0)
      BY <1>1, <2>1, SearchAssumption DEF JobsOK
    <3>3. Truth(p)' = Truth(p) /\ (row[p] = Absent => NoDocs[p] = Truth(p))
      BY <1>1 DEF Truth, Document, Answers, PricedIn, NoDocs
    <3>4. PageTells(j, p)'
      BY <3>2, CatalogAssumption DEF PageTells
    <3>5. Built(j, p)'
      BY <1>1, <2>2, <3>2, <3>3, <3>4 DEF Built
    <3>6. Building(j)' => Building(j)
      BY <1>1 DEF Building
    <3> QED
      BY <1>1, <2>2, <3>1, <3>5, <3>6, OneReindex
  <2> QED
    BY <1>2, <2>3, <2>4, <2>5
<1> QED
  BY <1>3, <1>4

LEMMA ReadAliasFollows ==
  ASSUME IndexInv, NEW j \in Job, ReadAlias(j)
  PROVE  Follows'
<1> USE DEF IndexInv, Follows
<1>1. /\ jpc[j] = "flushed" /\ Running(j) /\ jpc' = [jpc EXCEPT ![j] = "swap"]
      /\ UNCHANGED <<up, index, alias, docs, unsure, overlap, row, events, at, of, asking, got, next,
                     cursor, page, buffer>>
      /\ UNCHANGED <<stocked, asked, made, cache, requestVars, raced, calls, faults>>
  BY DEF ReadAlias, JobGoto, Running, esVars, handlerVars, vars, rowVars
<1>2. CatalogShape' /\ HandlersOK'
  BY <1>1, ReindexKeeps
<1>3. jpc'[j] = "swap" /\ \A k \in Job \ {j} : jpc'[k] = jpc[k]
  BY <1>1 DEF AliasInv, NamesOK
<1>4. JobsOK' /\ (~overlap' => DocsOK')
  BY <1>1, <1>3 DEF JobsOK, DocsOK
<1>5. ASSUME NEW p \in Product, Sure(p)' PROVE Tracks(p)'
  <2>1. Sure(p) /\ LiveDoc(p)' = LiveDoc(p) /\ Truth(p)' = Truth(p)
    BY <1>1, <1>5 DEF Sure, LiveDoc, WriteIndex, Truth, Document, Answers, PricedIn
  <2>2. Built(j, p) => Built(j, p)'
    BY <1>1, <1>3, <2>1 DEF Built
  <2>3. Building(j)' => Building(j)
    BY <1>1 DEF Building
  <2> QED
    BY <1>1, <1>3, <2>1, <2>2, <2>3, OneReindex
<1> QED
  BY <1>2, <1>4, <1>5

(* A page is read: what it has is true, and what it has not comes later. *)
LEMMA ReadPageFollows ==
  ASSUME IndexInv, NEW j \in Job, NEW c \in Currency, ReadPage(j, c)
  PROVE  Follows'
<1> USE DEF IndexInv, Follows
<1> DEFINE x == IF Degraded(j, c) THEN [found |-> {}, active |-> {}, last |-> 0]
                ELSE [found |-> PageOf(j), active |-> {p \in PageOf(j) : row[p].active}, last |-> LastOf(j)]
           g == [page[j] EXCEPT ![c] = x]
<1>1. /\ jpc[j] = "read" /\ Running(j) /\ page' = [page EXCEPT ![j] = g]
      /\ unsure' = IF CursorGone(j) THEN Product ELSE unsure
      /\ UNCHANGED <<up, index, alias, docs, overlap, row, events, at, of, asking, got, jpc, next, cursor, buffer>>
      /\ UNCHANGED <<stocked, asked, made, cache, requestVars, raced, calls, faults>>
  BY DEF ReadPage, Running, esVars, handlerVars, vars, rowVars
<1>2. CatalogShape' /\ HandlersOK' /\ RowsOK
  BY <1>1, ReindexKeeps DEF CatalogShape
<1>3. x \in Page
  <2>1. PageOf(j) \subseteq Product /\ LastOf(j) \in Nat
    <3>1. CASE CursorGone(j)
      BY <3>1 DEF PageOf, LastOf
    <3>2. CASE ~CursorGone(j)
      BY <3>2, PageFacts
    <3> QED
      BY <3>1, <3>2
  <2> QED
    BY <2>1 DEF Page
<1> HIDE DEF x
<1>4. JobsOK' /\ page'[j] = g /\ page[j] \in [Currency -> Page]
  <2>1. g \in [Currency -> Page] /\ docs' \in [0..MaxIndex -> [Product -> Doc]] /\ jpc'[j] = "read"
    BY <1>1, <1>3 DEF JobsOK
  <2> HIDE DEF g
  <2>2. JobHolds(j, cursor[j], g, buffer[j]) /\ cursor[j] \in Nat /\ buffer[j] \in [Product -> Doc]
    BY <1>1 DEF JobHolds, JobsOK
  <2> QED
    BY <1>1, <2>1, <2>2, JobHoldsOn DEF JobsOK
<1>5. ~overlap' => DocsOK'
  BY <1>1 DEF DocsOK
<1>6. ASSUME NEW p \in Product, Sure(p)' PROVE Tracks(p)'
  <2>1. ~CursorGone(j) /\ Sure(p) /\ LiveDoc(p)' = LiveDoc(p)
    BY <1>1, <1>6 DEF Sure, LiveDoc, WriteIndex
  <2>2. ASSUME Quiet(p), p \in x.found PROVE row[p] # Absent /\ PricedIn(row[p], c) /\ p \in x.active
    <3>1. ~Degraded(j, c)
      BY <2>2 DEF x
    <3>2. p \in PageOf(j) /\ x.active = {q \in PageOf(j) : row[q].active}
      BY <2>2, <3>1 DEF x
    <3>3. row[p] # Absent /\ PricedIn(row[p], c)
      BY <2>1, <3>1, <3>2, PageFacts DEF Rest, Degraded
    <3> QED
      BY <2>2, <3>2, <3>3 DEF Quiet
  <2>3. ASSUME c = Default, row[p] # Absent, p > cursor[j], p \notin x.found PROVE x.last # 0 /\ x.last < p
    <3>1. ~Degraded(j, c)
      <4>1. \A q \in PageOf(j) : PricedIn(row[q], Default)
        BY <1>2, <2>1, PageFacts, RowFacts
      <4> QED
        BY <2>3, <4>1 DEF Degraded
    <3>2. x.last = LastOf(j) /\ x.found = PageOf(j)
      BY <3>1 DEF x
    <3>3. p \in Rest(j) \ PageOf(j)
      BY <2>3, <3>2 DEF Rest
    <3> QED
      BY <2>1, <3>2, <3>3, PageFacts
  <2>4. page'[j][c] = x /\ \A d \in Currency \ {c} : page'[j][d] = page[j][d]
    BY <1>4
  <2>5. ASSUME Quiet(p), Built(j, p) PROVE Built(j, p)'
    <3>1. PageTells(j, p)
      BY <1>1, <2>5 DEF Built
    <3>2. ASSUME NEW d \in Currency, page'[j][d] # NoPage, p \in page'[j][d].found
          PROVE  row'[p] # Absent /\ PricedIn(row'[p], d) /\ p \in page'[j][d].active
      <4>1. CASE d = c
        BY <1>1, <2>2, <2>4, <2>5, <3>2, <4>1
      <4>2. CASE d # c
        BY <1>1, <2>4, <3>1, <3>2, <4>2 DEF PageTells
      <4> QED
        BY <4>1, <4>2
    <3>3. ASSUME row'[p] # Absent, page'[j][Default] # NoPage, p > cursor'[j], p \notin page'[j][Default].found
          PROVE  page'[j][Default].last # 0 /\ page'[j][Default].last < p
      <4>1. CASE Default = c
        BY <1>1, <2>3, <2>4, <3>3, <4>1
      <4>2. CASE Default # c
        BY <1>1, <2>4, <3>1, <3>3, <4>2, CatalogAssumption DEF PageTells
      <4> QED
        BY <4>1, <4>2
    <3>4. PageTells(j, p)'
      BY <3>2, <3>3 DEF PageTells, NoPage
    <3>5. Truth(p)' = Truth(p)
      BY <1>1 DEF Truth, Document, Answers, PricedIn
    <3> QED
      BY <1>1, <2>5, <3>4, <3>5 DEF Built
  <2>6. Building(j)' => Building(j)
    BY <1>1 DEF Building
  <2> QED
    BY <1>1, <2>1, <2>5, <2>6, OneReindex
<1> QED
  BY <1>2, <1>4, <1>5, <1>6

(* The documents of a page: pages that agree tell the truth in every currency. *)
LEMMA NextPageFollows ==
  ASSUME IndexInv, NEW j \in Job, NextPage(j)
  PROVE  Follows'
<1> USE DEF IndexInv, Follows
<1> DEFINE D == page[j][Default]
           b == [p \in Product |->
                   IF p \in D.found
                   THEN [prices |-> {c \in Currency : p \in page[j][c].found}, active |-> p \in D.active]
                   ELSE buffer[j][p]]
           a == IF D.last = 0 THEN "flush" ELSE "read"
           g == [c \in Currency |-> NoPage]
<1>1. /\ jpc[j] = "read" /\ Running(j) /\ \A c \in Currency : page[j][c] # NoPage
      /\ buffer' = [buffer EXCEPT ![j] = b] /\ cursor' = [cursor EXCEPT ![j] = D.last]
      /\ page' = [page EXCEPT ![j] = g] /\ jpc' = [jpc EXCEPT ![j] = a]
      /\ unsure' = unsure \union UNION {D.found \ page[j][c].found : c \in Currency}
      /\ UNCHANGED <<up, index, alias, docs, overlap, row, events, at, of, asking, got, next>>
      /\ UNCHANGED <<stocked, asked, made, cache, requestVars, raced, calls, faults>>
  BY DEF NextPage, JobGoto, Running, esVars, handlerVars, vars, rowVars, JobsOK
<1>2. CatalogShape' /\ HandlersOK' /\ RowsOK
  BY <1>1, ReindexKeeps DEF CatalogShape
<1>3. jpc'[j] = a /\ \A k \in Job \ {j} : jpc'[k] = jpc[k]
  BY <1>1 DEF AliasInv, NamesOK
<1>4. D.last \in Nat /\ b \in [Product -> Doc] /\ g \in [Currency -> Page]
  <2>1. D \in Page /\ D # NoPage
    BY <1>1, CatalogAssumption DEF JobsOK
  <2>2. buffer[j] \in [Product -> Doc]
    BY DEF JobsOK
  <2> QED
    BY <2>1, <2>2 DEF Page, Doc
<1>5. JobsOK' /\ cursor'[j] = D.last /\ page'[j] = g /\ buffer'[j] = b
  <2>1. docs' \in [0..MaxIndex -> [Product -> Doc]] /\ JobsOK /\ jpc'[j] \notin {"idle", "create"}
    BY <1>1, <1>3 DEF JobsOK
  <2> HIDE DEF b, g, D, a
  <2>2. JobHolds(j, D.last, g, b)
    BY <1>1 DEF JobHolds
  <2> QED
    BY <1>3, <1>4, <2>1, <2>2, JobHoldsOn
<1>6. ~overlap' => DocsOK'
  BY <1>1, <1>3 DEF DocsOK
<1>7. ASSUME NEW p \in Product, Sure(p)' PROVE Tracks(p)'
  <2>1. /\ Sure(p) /\ LiveDoc(p)' = LiveDoc(p) /\ Truth(p)' = Truth(p)
        /\ \A c \in Currency : p \in D.found => p \in page[j][c].found
    BY <1>1, <1>7 DEF Sure, LiveDoc, WriteIndex, Truth, Document, Answers, PricedIn
  <2>2. ASSUME Quiet(p), Built(j, p) PROVE Built(j, p)'
    <3>1. PageTells(j, p) /\ (row[p] = Absent \/ p <= cursor[j] => buffer[j][p] = Truth(p))
      BY <1>1, <2>2 DEF Built
    <3>2. ASSUME p \in D.found PROVE b[p] = Truth(p)
      <4>1. /\ row[p] # Absent /\ p \in D.active
            /\ \A c \in Currency : PricedIn(row[p], c) /\ p \in page[j][c].found
        BY <1>1, <2>1, <3>1, <3>2, CatalogAssumption DEF PageTells
      <4>2. \A c \in Currency : Answers(row[p], c)
        BY <2>2, <4>1 DEF Answers, Quiet
      <4>3. {c \in Currency : p \in page[j][c].found} = Currency /\ {c \in Currency : Answers(row[p], c)} = Currency
        BY <4>1, <4>2
      <4>4. b[p] = [prices |-> Currency, active |-> TRUE]
        BY <3>2, <4>1, <4>3
      <4>5. Truth(p) = [prices |-> Currency, active |-> TRUE]
        BY <4>1, <4>3 DEF Truth, Document
      <4> QED
        BY <4>4, <4>5
    <3>3. ASSUME p \notin D.found, row[p] = Absent \/ p <= D.last \/ D.last = 0 PROVE b[p] = Truth(p)
      <4>1. b[p] = buffer[j][p]
        BY <3>3
      <4>2. row[p] # Absent /\ p > cursor[j] => D.last # 0 /\ D.last < p
        BY <1>1, <3>1, <3>3, CatalogAssumption DEF PageTells
      <4>3. row[p] = Absent \/ p <= cursor[j]
        <5>1. p \in Nat /\ cursor[j] \in Nat
          BY SearchAssumption DEF JobsOK
        <5> HIDE DEF D
        <5> QED
          BY <1>4, <3>3, <4>2, <5>1
      <4> QED
        BY <3>1, <4>1, <4>3
    <3> HIDE DEF b, D
    <3>4. jpc'[j] = "read" => PageTells(j, p)'
      BY <1>5, CatalogAssumption DEF PageTells, NoPage
    <3>5. row[p] = Absent \/ p <= D.last \/ D.last = 0 => b[p] = Truth(p)
      BY <3>2, <3>3
    <3>6. jpc'[j] = IF D.last = 0 THEN "flush" ELSE "read"
      BY <1>3
    <3> QED
      BY <1>1, <1>5, <2>1, <3>4, <3>5, <3>6 DEF Built
  <2>3. Building(j)' => Building(j)
    BY <1>1 DEF Building
  <2> QED
    BY <1>1, <1>3, <2>1, <2>2, <2>3, OneReindex
<1> QED
  BY <1>2, <1>5, <1>6, <1>7

(* The index that a reindex builds is not the one that is read. *)
LEMMA FlushFollows ==
  ASSUME IndexInv, NEW j \in Job, Flush(j)
  PROVE  Follows'
<1> USE DEF IndexInv, Follows
<1>1. /\ jpc[j] = "flush" /\ Running(j) /\ jpc' = [jpc EXCEPT ![j] = "flushed"] /\ (faults' = faults \/ Fault)
      /\ UNCHANGED <<up, index, alias, overlap, row, events, at, of, asking, got, next, cursor, page, buffer>>
      /\ UNCHANGED <<stocked, asked, made, cache, requestVars, raced, calls>>
  BY DEF Flush, JobGoto, Running, handlerVars, rowVars
<1>2. CatalogShape' /\ HandlersOK'
  BY <1>1, ReindexKeeps
<1>3. jpc'[j] = "flushed" /\ \A k \in Job \ {j} : jpc'[k] = jpc[k]
  BY <1>1 DEF AliasInv, NamesOK
<1>4. PICK b \in [Product -> Doc] :
        /\ docs' = [docs EXCEPT ![next[j]] = b]
        /\ unsure \subseteq unsure' /\ \A p \in Product : p \notin unsure' => b[p] = buffer[j][p]
  <2>1. buffer[j] \in [Product -> Doc]
    BY DEF JobsOK
  <2>2. CASE docs' = [docs EXCEPT ![next[j]] = buffer[j]] /\ UNCHANGED <<unsure, faults>>
    BY <2>1, <2>2
  <2>3. ASSUME NEW q \in Product, docs' = [docs EXCEPT ![next[j]] = [buffer[j] EXCEPT ![q] = NoDoc]],
               unsure' = unsure \union {q}
        PROVE  \E b \in [Product -> Doc] :
                 /\ docs' = [docs EXCEPT ![next[j]] = b]
                 /\ unsure \subseteq unsure' /\ \A p \in Product : p \notin unsure' => b[p] = buffer[j][p]
    <3> DEFINE b == [buffer[j] EXCEPT ![q] = NoDoc]
    <3>1. b \in [Product -> Doc] /\ \A p \in Product : p # q => b[p] = buffer[j][p]
      BY <2>1, DocFacts
    <3>2. docs' = [docs EXCEPT ![next[j]] = b]
      BY <2>3
    <3> HIDE DEF b
    <3> QED
      BY <2>3, <3>1, <3>2
  <2> QED
    BY <2>2, <2>3 DEF Flush
<1>5. /\ docs' \in [0..MaxIndex -> [Product -> Doc]] /\ next[j] \in 0..MaxIndex /\ next[j] # 0
      /\ docs'[next[j]] = b /\ \A i \in 0..MaxIndex : i # next[j] => docs'[i] = docs[i]
  BY <1>1, <1>4 DEF JobsOK, AliasInv, NamesOK
<1>6. JobsOK'
  BY <1>1, <1>3, <1>5 DEF JobsOK
<1>7. ASSUME ~overlap' PROVE DocsOK'
  <2>1. DocsOK /\ next[j] \in index /\ up # "created"
    BY <1>1, <1>7 DEF DocsOK, AliasInv, Lone, NoJob
  <2>2. \A i \in 0..MaxIndex : i \notin index' => docs'[i] = NoDocs
    BY <1>1, <1>5, <2>1 DEF DocsOK
  <2> QED
    BY <1>1, <1>3, <2>1, <2>2 DEF DocsOK
<1>8. ASSUME NEW p \in Product, Sure(p)' PROVE Tracks(p)'
  <2>1. Sure(p) /\ Lone /\ b[p] = buffer[j][p] /\ Truth(p)' = Truth(p)
    BY <1>1, <1>4, <1>8 DEF Sure, AliasInv, Truth, Document, Answers, PricedIn
  <2>2. LiveDoc(p)' = LiveDoc(p)
    <3>1. WriteIndex' = WriteIndex
      BY <1>1 DEF WriteIndex
    <3>2. WriteIndex # next[j] /\ WriteIndex \in 0..MaxIndex
      <4>1. next[j] \notin alias
        BY <1>1, <2>1 DEF Lone, LoneJob, Preparing
      <4>2. alias = {} => WriteIndex = 0
        BY DEF WriteIndex
      <4> QED
        BY <1>5, <4>1, <4>2, WriteIndexFacts DEF AliasInv
    <3> QED
      BY <1>5, <3>1, <3>2 DEF LiveDoc
  <2>3. Built(j, p) => Built(j, p)'
    BY <1>1, <1>3, <1>5, <2>1 DEF Built
  <2>4. Building(j)' => Building(j)
    BY <1>1 DEF Building
  <2> QED
    BY <1>1, <1>3, <2>1, <2>2, <2>3, <2>4, OneReindex
<1> QED
  BY <1>2, <1>6, <1>7, <1>8

(* The alias comes to stand for what the reindex has written. *)
LEMMA SwapFollows ==
  ASSUME IndexInv, NEW j \in Job, SwapAliasTo(j)
  PROVE  Follows'
<1>1. /\ jpc[j] = "swap" /\ Running(j)
      /\ UNCHANGED <<up, index, docs, unsure, overlap, row, events, at, of, asking, got>>
      /\ UNCHANGED <<stocked, asked, made, cache, requestVars, raced, calls, faults>>
  BY DEF SwapAliasTo, Running, handlerVars, vars, rowVars
<1>2. CatalogShape' /\ HandlersOK'
  BY <1>1, ReindexKeeps DEF IndexInv, Follows
<1> DEFINE refused == Taken \/ ~(({live[j]} \ {0}) \union {next[j]} \subseteq index)
<1>3. CASE refused
  <2>1. EndJob(j) /\ alias' = alias
    BY <1>3 DEF SwapAliasTo
  <2> QED
    BY <1>1, <1>2, <2>1, EndJobFollows
<1>4. CASE ~refused
  <2> USE DEF IndexInv, Follows
  <2>1. /\ alias' = (alias \ {live[j]}) \union {next[j]} /\ jpc' = [jpc EXCEPT ![j] = "swapped"]
        /\ UNCHANGED <<next, cursor, page, buffer, live>>
    BY <1>4 DEF SwapAliasTo, JobGoto
  <2> HIDE DEF refused
  <2>2. jpc'[j] = "swapped" /\ \A k \in Job \ {j} : jpc'[k] = jpc[k]
    BY <2>1 DEF AliasInv, NamesOK
  <2>3. JobsOK' /\ (~overlap' => DocsOK')
    BY <1>1, <2>1, <2>2 DEF JobsOK, DocsOK
  <2>4. ASSUME NEW p \in Product, Sure(p)' PROVE Tracks(p)'
    <3>1. Sure(p) /\ Lone
      BY <1>1, <2>4 DEF Sure, AliasInv
    <3>2. alias' = {next[j]}
      BY <1>1, <2>1, <3>1 DEF Lone, LoneJob
    <3>3. WriteIndex' = next[j]
      BY <3>2 DEF WriteIndex
    <3>4. Quiet(p) /\ Built(j, p) => LiveDoc(p)' = Truth(p)
      BY <1>1, <3>3 DEF Built, LiveDoc
    <3>5. Built(j, p)' /\ ~Building(j)'
      BY <2>2 DEF Built, Building
    <3> QED
      BY <1>1, <2>2, <3>1, <3>4, <3>5, OneReindex
  <2> QED
    BY <1>2, <2>3, <2>4
<1> QED
  BY <1>3, <1>4

(* The index that goes is not the one that is read. *)
LEMMA DeleteIndexFollows ==
  ASSUME IndexInv, NEW j \in Job, DeleteIndex(j)
  PROVE  Follows'
<1> USE DEF IndexInv, Follows
<1>1. /\ jpc[j] = "swapped" /\ Running(j) /\ EndJob(j)
      /\ index' = index \ ({live[j]} \ {0}) /\ alias' = alias \ {live[j]}
      /\ docs' = IF live[j] = 0 THEN docs ELSE [docs EXCEPT ![live[j]] = NoDocs]
      /\ UNCHANGED <<up, unsure, overlap, row, events, at, of, asking, got>>
      /\ UNCHANGED <<stocked, asked, made, cache, requestVars, raced, calls, faults>>
  BY DEF DeleteIndex, Running, handlerVars, vars, rowVars
<1>2. CatalogShape' /\ HandlersOK'
  BY <1>1, ReindexKeeps
<1>3. jpc'[j] = "idle" /\ \A k \in Job \ {j} : jpc'[k] = jpc[k] /\ next'[k] = next[k]
  BY <1>1 DEF EndJob, JobGoto, AliasInv, NamesOK
<1>4. /\ docs' \in [0..MaxIndex -> [Product -> Doc]] /\ next[j] \in 0..MaxIndex /\ live[j] \in 0..MaxIndex
      /\ \A i \in 0..MaxIndex : docs'[i] = IF i = live[j] /\ i # 0 THEN NoDocs ELSE docs[i]
  <2>1. NoDocs \in [Product -> Doc] /\ docs \in [0..MaxIndex -> [Product -> Doc]]
    BY DocFacts DEF JobsOK
  <2>2. next[j] \in 0..MaxIndex /\ live[j] \in 0..MaxIndex
    BY DEF AliasInv, NamesOK
  <2> QED
    BY <1>1, <2>1, <2>2
<1>5. JobsOK'
  <2>1. JobHolds(j, 0, [c \in Currency |-> NoPage], NoDocs)
        /\ 0 \in Nat /\ [c \in Currency |-> NoPage] \in [Currency -> Page] /\ NoDocs \in [Product -> Doc]
    BY <1>1, JobHoldsNothing
  <2> QED
    BY <1>3, <1>4, <2>1, JobHoldsOn
<1>6. ASSUME ~overlap' PROVE DocsOK'
  <2>1. DocsOK /\ up # "created" /\ \A k \in Job : jpc'[k] = "idle"
    BY <1>1, <1>3, <1>6 DEF AliasInv, Lone, NoJob, Running
  <2>2. \A i \in 0..MaxIndex : i \notin index' => docs'[i] = NoDocs
    BY <1>1, <1>4, <2>1 DEF DocsOK
  <2> QED
    BY <1>1, <2>1, <2>2 DEF DocsOK
<1>7. ASSUME NEW p \in Product, Sure(p)' PROVE Tracks(p)'
  <2>1. Sure(p) /\ Lone
    BY <1>1, <1>7 DEF Sure, AliasInv
  <2>2. alias = {next[j]} /\ live[j] # next[j] /\ alias' = alias
    BY <1>1, <2>1 DEF Lone, LoneJob
  <2>3. WriteIndex = next[j] /\ WriteIndex' = next[j]
    BY <2>2 DEF WriteIndex
  <2>4. LiveDoc(p)' = LiveDoc(p)
    BY <1>4, <2>2, <2>3 DEF LiveDoc
  <2>5. Built(j, p)' /\ ~Building(j)'
    BY <1>3 DEF Built, Building
  <2> QED
    BY <1>1, <1>3, <2>1, <2>4, <2>5, OneReindex
<1> QED
  BY <1>2, <1>5, <1>6, <1>7

LEMMA ReindexFollows ==
  ASSUME IndexInv, NEW j \in Job, Reindex(j)
  PROVE  Follows'
BY ChooseNextFollows, CreateIndexFollows, NextPageFollows, FlushFollows, ReadPageFollows,
   ReadAliasFollows, SwapFollows, DeleteIndexFollows, JobFailsFollows DEF Reindex

LEMMA FollowsStep == IndexInv /\ [SearchNext]_allVars => IndexInv'
<1> SUFFICES ASSUME IndexInv, [SearchNext]_allVars PROVE IndexInv'
  OBVIOUS
<1>1. AliasInv'
  BY AliasStep DEF IndexInv
<1>2. Follows'
  <2>1. CASE UNCHANGED allVars
    <3>1. [Next]_vars /\ UNCHANGED searchVars
      BY <2>1 DEF allVars
    <3> QED
      BY <3>1, CatalogFollows
  <2>2. CASE Next /\ UNCHANGED searchVars
    BY <2>2, CatalogFollows
  <2>3. CASE EnsureAlias
    BY <2>3, EnsureAliasFollows
  <2>4. CASE PutAlias
    BY <2>4, PutAliasFollows
  <2>5. CASE EnsureAliasFails \/ ConnectionLost
    BY <2>5, DeafFollows
  <2>6. CASE Crash \/ Restart
    BY <2>6, RestartFollows
  <2>7. ASSUME NEW h \in Handler, Handle(h) PROVE Follows'
    BY <2>7, HandleFollows
  <2>8. ASSUME NEW j \in Job, Reindex(j) PROVE Follows'
    BY <2>8, ReindexFollows
  <2> QED
    BY <2>1, <2>2, <2>3, <2>4, <2>5, <2>6, <2>7, <2>8 DEF SearchNext
<1> QED
  BY <1>1, <1>2 DEF IndexInv

LEMMA FollowsInit == SearchInit => IndexInv
<1> SUFFICES ASSUME SearchInit PROVE Follows
  BY AliasInit DEF IndexInv
<1>1. /\ up = "down" /\ index = {} /\ alias = {} /\ docs = [i \in 0..MaxIndex |-> NoDocs]
      /\ at = [h \in Handler |-> "idle"] /\ of = [h \in Handler |-> 0]
      /\ asking = [h \in Handler |-> {}] /\ got = [h \in Handler |-> {}]
      /\ jpc = [j \in Job |-> "idle"] /\ cursor = [j \in Job |-> 0]
      /\ page = [j \in Job |-> [c \in Currency |-> NoPage]] /\ buffer = [j \in Job |-> NoDocs]
  BY DEF SearchInit
<1>2. CatalogShape /\ RowsOK
  BY ShapeInit DEF SearchInit, CatalogShape
<1>3. HandlersOK
  BY <1>1 DEF HandlersOK, Idle
<1>4. JobsOK
  <2>1. NoDocs \in [Product -> Doc] /\ [c \in Currency |-> NoPage] \in [Currency -> Page] /\ 0 \in Nat
    BY DocFacts DEF Page
  <2> QED
    BY <1>1, <2>1 DEF JobsOK
<1>5. DocsOK
  BY <1>1 DEF DocsOK
<1>6. ASSUME NEW p \in Product PROVE Tracks(p)
  <2>1. p # 0 /\ \A h \in Handler : of[h] # p
    BY <1>1, SearchAssumption
  <2>2. OneHandler(p) /\ \A j \in Job : Built(j, p)
    BY <1>1, <2>1 DEF OneHandler, Built
  <2>3. ASSUME Quiet(p) PROVE row[p] = Absent
    <3>1. row[p] # Absent => events[p]["UPSERT"] = 1
      BY DEF SearchInit, Init, NoEvents
    <3>2. events[p] = NoEvents => events[p]["UPSERT"] = 0
      BY DEF NoEvents
    <3> QED
      BY <2>3, <3>1, <3>2 DEF Quiet
  <2>4. LiveDoc(p) = NoDoc
    <3>1. WriteIndex = 0 /\ 0 \in 0..MaxIndex
      BY <1>1, SearchAssumption DEF WriteIndex
    <3> QED
      BY <1>1, <3>1 DEF LiveDoc, NoDocs
  <2>5. Quiet(p) => Followed(p)
    BY <2>1, <2>3, <2>4 DEF Followed, Truth
  <2> QED
    BY <2>2, <2>5 DEF Tracks
<1> QED
  BY <1>2, <1>3, <1>4, <1>5, <1>6 DEF Follows

(* For any number of handlers, reindexes, requests and products, whatever crashes, is sent    *)
(* twice or handled out of order: once all that concerns a product is done, and none of the    *)
(* known causes has come between, the index that is read says of it what the row says, in      *)
(* every currency.                                                                             *)
THEOREM IndexFollows == SearchSpec => []IndexFollowsCatalog
<1>1. IndexInv => IndexFollowsCatalog
  <2> SUFFICES ASSUME IndexInv, NEW p \in Product, NEW c \in Currency,
                      Sure(p), Settled(p), row[p] = Absent \/ row[p].active
               PROVE  /\ p \in Hits(c, FALSE) <=> row[p] # Absent
                      /\ p \in Suggestions <=> row[p] # Absent
                      /\ p \in Hits(c, TRUE) <=> Answers(row[p], c)
                      /\ p \in ShownFree(c) <=> row[p] # Absent /\ ~Answers(row[p], c)
    BY DEF IndexFollowsCatalog
  <2>1. Quiet(p)
    <3>1. events[p]["DELETE"] = 0
      BY DEF Settled, NoEvents
    <3> QED
      BY <3>1 DEF Settled, Quiet
  <2>2. LiveDoc(p) = Truth(p)
    BY <2>1 DEF IndexInv, Follows, Tracks, Followed, Settled
  <2>3. CASE row[p] = Absent
    <3>1. LiveDoc(p) = NoDoc /\ ~NoDoc.active /\ ~Answers(row[p], c)
      BY <2>2, <2>3 DEF Truth, NoDoc, Answers
    <3> QED
      BY <2>3, <3>1 DEF Hits, Suggestions, ShownFree
  <2>4. CASE row[p] # Absent
    <3>1. LiveDoc(p) = Document(row[p]) /\ Document(row[p]) # NoDoc
      BY <2>2, <2>4, DocFacts DEF Truth
    <3>2. LiveDoc(p).active /\ (c \in LiveDoc(p).prices <=> Answers(row[p], c))
      BY <3>1 DEF Document
    <3> QED
      BY <2>4, <3>1, <3>2 DEF Hits, Suggestions, ShownFree
  <2> QED
    BY <2>3, <2>4
<1> QED
  BY <1>1, FollowsInit, FollowsStep, PTL DEF SearchSpec
================================================================================
