------------------------------- MODULE CartsProofs -------------------------------
(***************************************************************************)
(* Proofs about Carts, for any number of users, guests, skus, currencies,    *)
(* requests and failures: whatever requests overlap and overwrite each       *)
(* other, a stored cart is well formed and holds one currency.  A request    *)
(* writes what it made of one cart it has read, and never of two readings,   *)
(* so that the aggregate's own checks are enough.                            *)
(*                                                                         *)
(* And the account of the units: while no cart was used by two requests at   *)
(* once (Apart), each request still knows its carts as they are (InStep),    *)
(* and what the carts and orders hold, less what a request has yet to        *)
(* delete or write, is what was put in, or more after a failure (Balanced).  *)
(***************************************************************************)
EXTENDS Carts, Sums, TLAPS

(* A cart as the aggregate keeps it. *)
WellFormed(c) ==
  /\ c \in Cart
  /\ IsEmpty(c) <=> c.cur = NoCurrency
  /\ c.added \subseteq {c.cur}

LEMMA EmptyWellFormed == WellFormed(EmptyCart)
BY DEF WellFormed, EmptyCart, None, IsEmpty, Cart

LEMMA AddWellFormed ==
  ASSUME NEW c, WellFormed(c), NEW s \in Sku, NEW n \in 1..MaxN, NEW cur \in Currency,
         CanAdd(c, cur)
  PROVE  WellFormed(AddItem(c, s, n, cur))
<1> DEFINE d == AddItem(c, s, n, cur)
<1>1. d.qty \in [Sku -> Nat] /\ d.qty[s] > 0 /\ d.cur = cur
  BY CartsAssumption DEF WellFormed, Cart, AddItem
<1>2. ~IsEmpty(d) /\ d.cur # NoCurrency
  BY <1>1, CartsAssumption DEF IsEmpty, None
<1>3. d.added \subseteq {cur}
  BY CartsAssumption DEF WellFormed, Cart, CanAdd, AddItem
<1>4. d \in Cart
  BY <1>1, <1>3 DEF AddItem, Cart
<1> QED
  BY <1>1, <1>2, <1>3, <1>4 DEF WellFormed

LEMMA SetWellFormed ==
  ASSUME NEW c, WellFormed(c), NEW s \in Sku, c.qty[s] > 0, NEW n \in Nat
  PROVE  WellFormed(UpdateQuantity(c, s, n)) /\ WellFormed(RemoveItem(c, s))
<1>1. c.cur # NoCurrency
  BY DEF WellFormed, IsEmpty, None
<1>2. ASSUME NEW m \in Nat
      PROVE  WellFormed(Normal([c EXCEPT !.qty[s] = m]))
  <2> DEFINE d == [c EXCEPT !.qty[s] = m]
  <2>1. d \in Cart /\ d.cur = c.cur /\ d.added = c.added
    BY <1>2 DEF WellFormed, Cart
  <2>2. CASE IsEmpty(d)
    BY <2>2, EmptyWellFormed DEF Normal
  <2>3. CASE ~IsEmpty(d)
    BY <1>1, <2>1, <2>3 DEF Normal, WellFormed
  <2> QED
    BY <2>2, <2>3
<1> QED
  BY <1>2 DEF UpdateQuantity, RemoveItem

LEMMA MergeWellFormed ==
  ASSUME NEW c, WellFormed(c), NEW g, WellFormed(g)
  PROVE  WellFormed(Merge(c, g))
<1>1. CASE IsEmpty(g) \/ Conflict(c, g)
  BY <1>1 DEF Merge
<1>2. CASE ~IsEmpty(g) /\ ~Conflict(c, g)
  <2> DEFINE d == [cur |-> g.cur, qty |-> Plus(c.qty, g.qty), added |-> c.added \union g.added]
  <2>1. d = Merge(c, g)
    BY <1>2 DEF Merge
  <2>2. g.cur # NoCurrency /\ g.cur \in Currency
    BY <1>2 DEF WellFormed, Cart
  <2>3. c.added \subseteq {g.cur}
    <3>1. c.cur = NoCurrency \/ c.cur = g.cur
      BY <1>2 DEF Conflict, WellFormed
    <3> QED
      BY <3>1, CartsAssumption DEF WellFormed, Cart
  <2>4. d \in Cart
    BY <2>2, <2>3 DEF WellFormed, Cart, Plus
  <2>5. PICK s \in Sku : g.qty[s] # 0
    BY <1>2 DEF WellFormed, Cart, IsEmpty, None
  <2>6. d.qty[s] # 0
    BY <2>5 DEF WellFormed, Cart, Plus
  <2>7. ~IsEmpty(d)
    BY <2>6 DEF IsEmpty, None
  <2> QED
    BY <2>1, <2>2, <2>3, <2>4, <2>7 DEF WellFormed
<1> QED
  BY <1>1, <1>2
--------------------------------------------------------------------------------
(* What the calls of the API carry. *)
LEMMA CallFields ==
  ASSUME NEW c \in Call
  PROVE  /\ c.op \in {"get", "clear", "checkout", "merge", "add", "update", "remove"}
         /\ c.op = "merge" => c.guest \in Guest
         /\ c.op = "add" => c.sku \in Sku /\ c.n \in 1..MaxN /\ c.cur \in Currency
         /\ c.op = "update" => c.sku \in Sku /\ c.n \in 0..MaxN
         /\ c.op = "remove" => c.sku \in Sku
         /\ Keys(c) \subseteq Key
BY DEF Call, Keys, Served, Key

(* A request at work is one that was served, and what it found its cart accepted. *)
AtWork(r) ==
  /\ pc[r] \notin AtRest =>
       call[r] \in Call /\ SessionKey(call[r]) \in Key
  /\ pc[r] \in {"guestFound", "merged"} => call[r].op = "merge"
  /\ pc[r] = "found" => Accepts(call[r], seen[r])
  /\ pc[r] = "placed" => call[r].op = "checkout"

IInv ==
  /\ TypeOK
  /\ \A k \in Key : WellFormed(cart[k])
  /\ \A r \in Request : WellFormed(seen[r]) /\ WellFormed(guest[r]) /\ AtWork(r)

LEMMA InvInit == Init => IInv
<1> SUFFICES ASSUME Init
             PROVE  IInv
  OBVIOUS
<1>1. WellFormed(EmptyCart) /\ EmptyCart \in Cart
  BY EmptyWellFormed DEF WellFormed
<1>2. TypeOK
  <2>1. None \in [Sku -> Nat] /\ None \in [Sku -> Int]
    BY DEF None
  <2> QED
    BY <1>1, <2>1, CartsAssumption DEF Init, TypeOK, AtRest, WellFormed
<1> QED
  BY <1>1, <1>2 DEF Init, IInv, AtWork, AtRest

(* The save of a well-formed cart under the key of a request keeps the carts well formed. *)
LEMMA StoreWellFormed ==
  ASSUME IInv, NEW k \in Key, NEW c, WellFormed(c), Store(k, c)
  PROVE  /\ cart' \in [Key -> Cart]
         /\ \A j \in Key : WellFormed(cart'[j])
BY DEF IInv, TypeOK, Store, WellFormed

(* Arithmetic of quantities. *)
LEMMA QuantityTypes ==
  ASSUME NEW p \in [Sku -> Nat], NEW q \in [Sku -> Nat], NEW w \in [Sku -> Int]
  PROVE  /\ Plus(p, q) \in [Sku -> Nat]
         /\ Less(w, p) \in [Sku -> Int]
         /\ Plus(w, Less(p, q)) \in [Sku -> Int]
BY DEF Plus, Less

LEMMA PersistKeeps ==
  ASSUME IInv, NEW r \in Request, NEW new, WellFormed(new), Persist(r, new)
  PROVE  IInv'
<1>1. SessionKey(call[r]) \in Key
  BY DEF IInv, AtWork, Persist, AtRest
<1>2. cart' \in [Key -> Cart] /\ \A k \in Key : WellFormed(cart'[k])
  BY <1>1, StoreWellFormed DEF Persist
<1>3. owed' \in [Sku -> Int]
  BY QuantityTypes DEF IInv, TypeOK, WellFormed, Cart, Persist
<1>4. \A q \in Request : WellFormed(seen'[q]) /\ WellFormed(guest'[q]) /\ AtWork(q)'
  BY DEF IInv, TypeOK, Persist, AtWork, AtRest
<1>5. TypeOK'
  BY <1>2, <1>3 DEF IInv, TypeOK, Persist, WellFormed, AtRest
<1> QED
  BY <1>2, <1>4, <1>5 DEF IInv

LEMMA InvStep == IInv /\ [Next]_vars => IInv'
<1> SUFFICES ASSUME IInv, [Next]_vars
             PROVE  IInv'
  OBVIOUS
<1> USE CartsAssumption DEF cartVars, requestVars
<1>1. ASSUME NEW r \in Request, NEW c \in Call, Send(r, c)
      PROVE  IInv'
  <2>1. Keys(c) \subseteq Key
    BY CallFields
  <2>2. raced' \subseteq Key
    BY <1>1, <2>1 DEF Send, IInv, TypeOK
  <2>3. TypeOK'
    BY <1>1, <2>2 DEF Send, IInv, TypeOK, AtRest
  <2>4. \A q \in Request : AtWork(q)'
    BY <1>1 DEF Send, IInv, TypeOK, AtWork, AtRest, Served
  <2> QED
    BY <1>1, <2>3, <2>4 DEF Send, IInv
<1>2. ASSUME NEW r \in Request, Close(r)
      PROVE  IInv'
  <2>1. TypeOK'
    BY <1>2, EmptyWellFormed DEF Close, IInv, TypeOK, AtRest, WellFormed
  <2> QED
    BY <1>2, <2>1, EmptyWellFormed DEF Close, IInv, TypeOK, AtWork, AtRest
<1>3. ASSUME NEW r \in Request, FindGuest(r)
      PROVE  IInv'
  <2>1. cart[call[r].guest] \in Cart /\ WellFormed(cart[call[r].guest])
    BY <1>3, CallFields DEF FindGuest, IInv, TypeOK, AtWork, AtRest, Key, WellFormed
  <2>2. TypeOK'
    BY <1>3, <2>1 DEF FindGuest, IInv, TypeOK, AtRest
  <2> QED
    BY <1>3, <2>1, <2>2 DEF FindGuest, IInv, TypeOK, AtWork, AtRest
<1>4. ASSUME NEW r \in Request, Find(r)
      PROVE  IInv'
  <2> DEFINE found == cart[SessionKey(call[r])]
  <2>1. /\ pc[r] \in {"sent", "guestFound"} /\ call[r] \in Call /\ SessionKey(call[r]) \in Key
        /\ found \in Cart /\ WellFormed(found)
    BY <1>4 DEF Find, IInv, TypeOK, AtWork, AtRest, WellFormed
  <2>2. /\ seen' = [seen EXCEPT ![r] = found]
        /\ pc' = [pc EXCEPT ![r] = IF ~Accepts(call[r], found) THEN "error"
                                   ELSE IF call[r].op = "get" THEN "ok" ELSE "found"]
        /\ UNCHANGED <<cart, ordered, owed, call, guest, raced, calls, faults>>
    BY <1>4 DEF Find
  <2>3. TypeOK'
    BY <2>1, <2>2 DEF IInv, TypeOK, AtRest
  <2> QED
    BY <2>1, <2>2, <2>3 DEF IInv, TypeOK, AtWork, AtRest
<1>5. ASSUME NEW r \in Request, CatalogRefuses(r) \/ RequestFails(r)
      PROVE  IInv'
  <2>1. TypeOK'
    BY <1>5 DEF CatalogRefuses, RequestFails, IInv, TypeOK, AtRest
  <2> QED
    BY <1>5, <2>1 DEF CatalogRefuses, RequestFails, IInv, TypeOK, AtWork, AtRest
<1>6. ASSUME NEW r \in Request, AddToCart(r)
      PROVE  IInv'
  <2>1. call[r] \in Call /\ WellFormed(seen[r]) /\ CanAdd(seen[r], call[r].cur)
    BY <1>6 DEF AddToCart, Persist, IInv, AtWork, AtRest, Accepts
  <2> QED
    BY <1>6, <2>1, CallFields, AddWellFormed, PersistKeeps DEF AddToCart
<1>7. ASSUME NEW r \in Request, UpdateCartQuantity(r) \/ RemoveFromCart(r)
      PROVE  IInv'
  <2>1. call[r] \in Call /\ WellFormed(seen[r]) /\ call[r].op \in {"update", "remove"}
    BY <1>7 DEF UpdateCartQuantity, RemoveFromCart, Persist, IInv, AtWork, AtRest
  <2>2. seen[r].qty[call[r].sku] > 0
    BY <1>7, <2>1 DEF UpdateCartQuantity, RemoveFromCart, Persist, IInv, AtWork, Accepts
  <2>3. CASE UpdateCartQuantity(r)
    BY <2>1, <2>2, <2>3, CallFields, SetWellFormed, PersistKeeps DEF UpdateCartQuantity
  <2>4. CASE RemoveFromCart(r)
    <3>1. 0 \in Nat
      OBVIOUS
    <3> QED
      BY <2>1, <2>2, <2>4, <3>1, CallFields, SetWellFormed, PersistKeeps DEF RemoveFromCart
  <2> QED
    BY <1>7, <2>3, <2>4
<1>8. ASSUME NEW r \in Request, Clear(r)
      PROVE  IInv'
  <2>1. SessionKey(call[r]) \in Key
    BY <1>8 DEF Clear, IInv, AtWork, AtRest
  <2>2. cart' \in [Key -> Cart] /\ \A k \in Key : WellFormed(cart'[k])
    BY <1>8, <2>1, StoreWellFormed, EmptyWellFormed DEF Clear
  <2>3. owed' \in [Sku -> Int]
    BY <1>8, <2>1, QuantityTypes DEF Clear, IInv, TypeOK, Cart
  <2>4. TypeOK'
    BY <1>8, <2>2, <2>3 DEF Clear, IInv, TypeOK, AtRest, WellFormed
  <2> QED
    BY <1>8, <2>2, <2>4 DEF Clear, IInv, TypeOK, AtWork, AtRest
<1>9. ASSUME NEW r \in Request, SaveMerged(r)
      PROVE  IInv'
  <2> DEFINE new == Merge(seen[r], guest[r])
  <2>1. SessionKey(call[r]) \in Key /\ WellFormed(seen[r]) /\ WellFormed(guest[r])
    BY <1>9 DEF SaveMerged, IInv, AtWork, AtRest
  <2>2. WellFormed(new)
    BY <2>1, MergeWellFormed
  <2>3. cart' \in [Key -> Cart] /\ \A k \in Key : WellFormed(cart'[k])
    BY <1>9, <2>1, <2>2, StoreWellFormed DEF SaveMerged
  <2>4. owed' \in [Sku -> Int]
    BY <1>9, QuantityTypes DEF SaveMerged, IInv, TypeOK, Cart
  <2>5. /\ seen' = [seen EXCEPT ![r] = new]
        /\ pc' = [pc EXCEPT ![r] = IF IsEmpty(guest[r]) THEN "ok" ELSE "merged"]
        /\ call[r].op = "merge"
        /\ UNCHANGED <<ordered, call, guest, raced, calls, faults>>
    BY <1>9 DEF SaveMerged, IInv, TypeOK
  <2>6. TypeOK'
    BY <2>2, <2>3, <2>4, <2>5 DEF IInv, TypeOK, AtRest, WellFormed
  <2>7. \A q \in Request : WellFormed(seen'[q]) /\ WellFormed(guest'[q]) /\ AtWork(q)'
    BY <1>9, <2>2, <2>5 DEF SaveMerged, IInv, TypeOK, AtWork, AtRest
  <2> QED
    BY <2>3, <2>6, <2>7 DEF IInv
<1>10. ASSUME NEW r \in Request, DeleteGuest(r) \/ DeleteOrdered(r)
       PROVE  IInv'
  <2>1. PICK k \in Key : Store(k, EmptyCart)
    BY <1>10, CallFields DEF DeleteGuest, DeleteOrdered, IInv, AtWork, AtRest, Key
  <2>2. cart' \in [Key -> Cart] /\ \A j \in Key : WellFormed(cart'[j])
    BY <2>1, StoreWellFormed, EmptyWellFormed
  <2>3. TypeOK'
    BY <1>10, <2>2 DEF DeleteGuest, DeleteOrdered, IInv, TypeOK, AtRest, WellFormed
  <2> QED
    BY <1>10, <2>2, <2>3 DEF DeleteGuest, DeleteOrdered, IInv, TypeOK, AtWork, AtRest
<1>11. ASSUME NEW r \in Request, PlaceOrder(r)
       PROVE  IInv'
  <2>1. ordered' \in [Sku -> Nat]
    BY <1>11, QuantityTypes DEF PlaceOrder, IInv, TypeOK, Cart
  <2>2. TypeOK'
    BY <1>11, <2>1 DEF PlaceOrder, IInv, TypeOK, AtRest
  <2> QED
    BY <1>11, <2>2 DEF PlaceOrder, IInv, TypeOK, AtWork, AtRest
<1>12. ASSUME NEW k \in Key, Expire(k)
       PROVE  IInv'
  <2>1. cart' \in [Key -> Cart] /\ \A j \in Key : WellFormed(cart'[j])
    BY <1>12, StoreWellFormed, EmptyWellFormed DEF Expire
  <2>2. owed' \in [Sku -> Int]
    BY <1>12, QuantityTypes DEF Expire, IInv, TypeOK, Cart
  <2>3. TypeOK'
    BY <1>12, <2>1, <2>2 DEF Expire, IInv, TypeOK, WellFormed
  <2> QED
    BY <1>12, <2>1, <2>3 DEF Expire, IInv, AtWork
<1>13. CASE UNCHANGED vars
  <2>1. TypeOK'
    BY <1>13 DEF vars, IInv, TypeOK
  <2> QED
    BY <1>13, <2>1 DEF vars, IInv, AtWork
<1> QED
  BY <1>1, <1>2, <1>3, <1>4, <1>5, <1>6, <1>7, <1>8, <1>9, <1>10, <1>11, <1>12, <1>13
     DEF Next, Serve

LEMMA InvAlways == Spec => []IInv
BY InvInit, InvStep, PTL DEF Spec

(* Every stored cart is one the aggregate could have made: it has a currency as long as it *)
(* has a line, and no longer.                                                               *)
THEOREM TypeCorrect == Spec => []TypeOK
<1>1. IInv => TypeOK
  BY DEF IInv
<1> QED
  BY <1>1, InvAlways, PTL

(* All lines of a cart were added in the currency it has, whatever requests overlap, *)
(* overwrite each other or die half way.                                              *)
THEOREM OneCurrencyPerCart == Spec => []OneCurrency
<1>1. IInv => OneCurrency
  BY DEF IInv, WellFormed, OneCurrency
<1> QED
  BY <1>1, InvAlways, PTL
--------------------------------------------------------------------------------
(* The units of the carts, while no two requests have used one cart at once. *)

(* Units that stand in a cart and elsewhere: a merge has added the guest's to the user's cart *)
(* and not yet deleted the guest's, a checkout has ordered those of a cart it has to delete.   *)
Waiting(r) ==
  IF pc[r] = "merged" THEN guest[r].qty
  ELSE IF pc[r] = "placed" THEN seen[r].qty ELSE None

Pending(s) == [r \in Request |-> Waiting(r)[s]]

Surplus(s) == Units(s) - (SumFunction(Pending(s)) + owed[s])

Balanced == \A s \in Sku : Surplus(s) >= 0 /\ (faults = 0 => Surplus(s) = 0)

(* No cart has two requests, *)
Apart == \A q, r \in Request : q # r => Keys(call[q]) \intersect Keys(call[r]) = {}

(* so that what a request has read is still what is stored. *)
InStep(r) ==
  /\ pc[r] \notin AtRest => Served(call[r])
  /\ pc[r] \in {"found", "placed"} => seen[r] = cart[SessionKey(call[r])]
  /\ pc[r] \in {"guestFound", "merged"} \/ (pc[r] = "found" /\ call[r].op = "merge")
       => guest[r] = cart[call[r].guest]

Calm == raced = {} => Apart /\ (\A r \in Request : InStep(r)) /\ Balanced

(* The keys of a request at work are its own. *)
LEMMA KeysAtWork ==
  ASSUME IInv, NEW r \in Request, InStep(r), pc[r] \notin AtRest
  PROVE  /\ call[r] \in Call /\ SessionKey(call[r]) \in Keys(call[r]) /\ SessionKey(call[r]) \in Key
         /\ call[r].op = "merge" => /\ call[r].guest \in Keys(call[r])
                                    /\ call[r].guest \in Key
                                    /\ SessionKey(call[r]) # call[r].guest
<1>1. call[r] \in Call /\ SessionKey(call[r]) \in Key /\ Served(call[r])
  BY DEF IInv, AtWork, InStep
<1>2. call[r] # NoCall
  <2>1. call[r].op # "none"
    BY <1>1, CallFields
  <2> QED
    BY <2>1 DEF NoCall
<1>3. SessionKey(call[r]) \in Keys(call[r])
  BY <1>1, <1>2 DEF Keys
<1>4. ASSUME call[r].op = "merge"
      PROVE  /\ call[r].guest \in Keys(call[r])
             /\ call[r].guest \in Key
             /\ SessionKey(call[r]) # call[r].guest
  <2>1. call[r].guest \in Guest
    BY <1>1, <1>4, CallFields
  <2>2. SessionKey(call[r]) = call[r].bearer /\ call[r].bearer \in User \union {NoUser}
    BY <1>1, <1>4 DEF SessionKey, Guarded, Call, Bearer
  <2>3. call[r].bearer # NoUser
    BY <1>1 DEF Served, PassesGateway
  <2> QED
    BY <1>1, <1>2, <1>4, <2>1, <2>2, <2>3, CartsAssumption DEF Keys, Key
<1> QED
  BY <1>1, <1>3, <1>4

(* A request writes a cart of its own: what the others have read is still stored. *)
LEMMA OthersInStep ==
  ASSUME IInv, Apart, NEW r \in Request, NEW q \in Request, q # r, InStep(q),
         \A j \in Key : j \notin Keys(call[r]) => cart'[j] = cart[j],
         UNCHANGED call, pc'[q] = pc[q], seen'[q] = seen[q], guest'[q] = guest[q]
  PROVE  InStep(q)'
<1>1. CASE pc[q] \in AtRest
  BY <1>1 DEF InStep, AtRest
<1>2. CASE pc[q] \notin AtRest
  <2>1. /\ call[q] \in Call /\ SessionKey(call[q]) \in Key /\ SessionKey(call[q]) \in Keys(call[q])
        /\ call[q].op = "merge" => call[q].guest \in Keys(call[q]) /\ call[q].guest \in Key
    BY <1>2, KeysAtWork
  <2>2. Keys(call[q]) \intersect Keys(call[r]) = {}
    BY DEF Apart
  <2>3. cart'[SessionKey(call[q])] = cart[SessionKey(call[q])]
    BY <2>1, <2>2
  <2>4. call[q].op = "merge" => cart'[call[q].guest] = cart[call[q].guest]
    BY <2>1, <2>2
  <2>5. pc[q] \in {"guestFound", "merged"} => call[q].op = "merge"
    BY DEF IInv, AtWork
  <2>6. /\ Served(call[q])
        /\ pc[q] \in {"found", "placed"} => seen[q] = cart[SessionKey(call[q])]
        /\ pc[q] \in {"guestFound", "merged"} \/ (pc[q] = "found" /\ call[q].op = "merge")
             => guest[q] = cart[call[q].guest]
    BY <1>2 DEF InStep
  <2> QED
    BY <2>3, <2>4, <2>5, <2>6 DEF InStep
<1> QED
  BY <1>1, <1>2

(* A request that begins while all is calm begins on carts that nobody uses. *)
LEMMA ApartStep ==
  ASSUME IInv, Apart, [Next]_vars, raced' = {}
  PROVE  Apart'
<1> USE DEF cartVars, requestVars
<1>1. ASSUME NEW r \in Request, NEW c \in Call, Send(r, c)
      PROVE  Apart'
  <2>1. call' = [call EXCEPT ![r] = c]
    BY <1>1 DEF Send
  <2>2. \A q \in Request \ {r} : Keys(c) \intersect Keys(call[q]) = {}
    BY <1>1 DEF Send
  <2>3. \A q \in Request : call'[q] = IF q = r THEN c ELSE call[q]
    BY <2>1 DEF IInv, TypeOK
  <2> QED
    BY <2>2, <2>3 DEF Apart
<1>2. ASSUME NEW r \in Request, Close(r)
      PROVE  Apart'
  <2>1. \A q \in Request : call'[q] = IF q = r THEN NoCall ELSE call[q]
    BY <1>2 DEF Close, IInv, TypeOK
  <2>2. Keys(NoCall) = {}
    BY DEF Keys
  <2> QED
    BY <2>1, <2>2 DEF Apart
<1>3. ASSUME UNCHANGED call
      PROVE  Apart'
  BY <1>3 DEF Apart
<1>4. ASSUME NEW r \in Request, Serve(r) \/ CatalogRefuses(r) \/ RequestFails(r)
      PROVE  UNCHANGED call
  BY <1>4
     DEF Serve, FindGuest, Find, CatalogRefuses, RequestFails, AddToCart, UpdateCartQuantity,
         RemoveFromCart, Persist, Clear, SaveMerged, DeleteGuest, PlaceOrder, DeleteOrdered
<1>5. ASSUME NEW k \in Key, Expire(k)
      PROVE  UNCHANGED call
  BY <1>5 DEF Expire
<1>6. CASE UNCHANGED vars
  BY <1>3, <1>6 DEF vars
<1> QED
  BY <1>1, <1>2, <1>3, <1>4, <1>5, <1>6 DEF Next

(* One step of a request at work leaves it, and every other, in step. *)
LEMMA InStepStep ==
  ASSUME IInv, Apart, \A r \in Request : InStep(r), [Next]_vars, raced' = {}
  PROVE  \A r \in Request : InStep(r)'
<1> USE DEF cartVars, requestVars
<1>1. ASSUME NEW r \in Request, NEW c \in Call, Send(r, c)
      PROVE  \A q \in Request : InStep(q)'
  <2>1. /\ \A q \in Request \ {r} : pc'[q] = pc[q] /\ call'[q] = call[q]
        /\ pc'[r] = (IF Served(c) THEN "sent" ELSE "turnedAway") /\ call'[r] = c
        /\ UNCHANGED <<cart, seen, guest>>
    BY <1>1 DEF Send, IInv, TypeOK
  <2> QED
    BY <2>1 DEF InStep, AtRest
<1>2. ASSUME NEW r \in Request, Close(r)
      PROVE  \A q \in Request : InStep(q)'
  <2>1. /\ \A q \in Request \ {r} : /\ pc'[q] = pc[q] /\ call'[q] = call[q]
                                    /\ seen'[q] = seen[q] /\ guest'[q] = guest[q]
        /\ pc'[r] = "idle" /\ UNCHANGED cart
    BY <1>2 DEF Close, IInv, TypeOK
  <2> QED
    BY <2>1 DEF InStep, AtRest
<1>3. ASSUME NEW r \in Request, FindGuest(r) \/ Find(r) \/ CatalogRefuses(r) \/ RequestFails(r)
      PROVE  \A q \in Request : InStep(q)'
  <2>1. /\ pc[r] \notin AtRest /\ UNCHANGED <<cart, call>>
        /\ \A q \in Request \ {r} : /\ pc'[q] = pc[q] /\ seen'[q] = seen[q] /\ guest'[q] = guest[q]
    BY <1>3 DEF FindGuest, Find, CatalogRefuses, RequestFails, IInv, TypeOK, AtRest
  <2>2. \A q \in Request \ {r} : InStep(q)'
    BY <2>1 DEF InStep
  <2>3. InStep(r)'
    <3>1. CASE FindGuest(r)
      BY <3>1, <2>1 DEF FindGuest, InStep, IInv, TypeOK, AtRest
    <3>2. CASE Find(r)
      <4>1. /\ pc'[r] \in {"error", "ok", "found"} /\ UNCHANGED guest
            /\ seen'[r] = cart[SessionKey(call[r])]
            /\ call[r].op = "merge" => pc[r] = "guestFound"
        BY <3>2 DEF Find, IInv, TypeOK
      <4> QED
        BY <4>1, <2>1 DEF InStep, AtRest
    <3>3. CASE CatalogRefuses(r) \/ RequestFails(r)
      <4>1. pc'[r] = "error"
        BY <3>3 DEF CatalogRefuses, RequestFails, IInv, TypeOK
      <4> QED
        BY <4>1, <2>1 DEF InStep, AtRest
    <3> QED
      BY <1>3, <3>1, <3>2, <3>3
  <2> QED
    BY <2>2, <2>3
<1>4. ASSUME NEW r \in Request, NEW new, Persist(r, new)
      PROVE  \A q \in Request : InStep(q)'
  <2>1. /\ pc[r] = "found" /\ pc'[r] = "ok" /\ UNCHANGED <<call, guest>>
        /\ cart' = [cart EXCEPT ![SessionKey(call[r])] = new]
        /\ \A q \in Request \ {r} : pc'[q] = pc[q] /\ seen'[q] = seen[q]
    BY <1>4 DEF Persist, Store, IInv, TypeOK
  <2>2. SessionKey(call[r]) \in Keys(call[r])
    BY <2>1, KeysAtWork DEF AtRest
  <2>3. \A j \in Key : j \notin Keys(call[r]) => cart'[j] = cart[j]
    BY <2>1, <2>2 DEF IInv, TypeOK
  <2>4. \A q \in Request \ {r} : InStep(q)'
    BY <2>1, <2>3, OthersInStep
  <2>5. InStep(r)'
    BY <2>1 DEF InStep, AtRest
  <2> QED
    BY <2>4, <2>5
<1>5. ASSUME NEW r \in Request, Clear(r) \/ DeleteOrdered(r) \/ DeleteGuest(r)
      PROVE  \A q \in Request : InStep(q)'
  <2>1. /\ pc[r] \notin AtRest /\ pc'[r] = "ok" /\ UNCHANGED <<call, guest, seen>>
        /\ \A q \in Request \ {r} : pc'[q] = pc[q]
        /\ DeleteGuest(r) => call[r].op = "merge"
    BY <1>5 DEF Clear, DeleteOrdered, DeleteGuest, IInv, TypeOK, AtRest, AtWork
  <2>2. PICK k \in Keys(call[r]) : cart' = [cart EXCEPT ![k] = EmptyCart]
    BY <1>5, <2>1, KeysAtWork DEF Clear, DeleteOrdered, DeleteGuest, Store
  <2>3. \A j \in Key : j \notin Keys(call[r]) => cart'[j] = cart[j]
    BY <2>2 DEF IInv, TypeOK
  <2>4. \A q \in Request \ {r} : InStep(q)'
    BY <2>1, <2>3, OthersInStep
  <2>5. InStep(r)'
    BY <2>1 DEF InStep, AtRest
  <2> QED
    BY <2>4, <2>5
<1>6. ASSUME NEW r \in Request, SaveMerged(r)
      PROVE  \A q \in Request : InStep(q)'
  <2> DEFINE k == SessionKey(call[r])
  <2>1. /\ pc[r] = "found" /\ call[r].op = "merge" /\ pc'[r] \in {"ok", "merged"}
        /\ UNCHANGED <<call, guest>>
        /\ cart' = [cart EXCEPT ![k] = Merge(seen[r], guest[r])]
        /\ \A q \in Request \ {r} : pc'[q] = pc[q] /\ seen'[q] = seen[q]
    BY <1>6 DEF SaveMerged, Store, IInv, TypeOK
  <2>2. /\ k \in Keys(call[r]) /\ k \in Key /\ call[r].guest \in Key /\ call[r].guest # k
    BY <2>1, KeysAtWork DEF AtRest
  <2>3. \A j \in Key : j # k => cart'[j] = cart[j]
    BY <2>1 DEF IInv, TypeOK
  <2>4. \A q \in Request \ {r} : InStep(q)'
    BY <2>1, <2>2, <2>3, OthersInStep
  <2>5. InStep(r)'
    <3>1. Served(call[r]) /\ guest[r] = cart[call[r].guest]
      BY <2>1 DEF InStep, AtRest
    <3>2. guest'[r] = cart'[call[r].guest]
      BY <2>1, <2>2, <2>3, <3>1
    <3> QED
      BY <2>1, <3>1, <3>2 DEF InStep, AtRest
  <2> QED
    BY <2>4, <2>5
<1>7. ASSUME NEW r \in Request, PlaceOrder(r)
      PROVE  \A q \in Request : InStep(q)'
  <2>1. /\ \A q \in Request \ {r} : pc'[q] = pc[q]
        /\ pc[r] = "found" /\ pc'[r] = "placed" /\ UNCHANGED <<cart, call, seen, guest>>
    BY <1>7 DEF PlaceOrder, IInv, TypeOK
  <2> QED
    BY <2>1 DEF InStep, AtRest
<1>8. ASSUME NEW k \in Key, Expire(k)
      PROVE  \A q \in Request : InStep(q)'
  <2>1. /\ \A q \in Request : k \notin Keys(call[q])
        /\ UNCHANGED <<pc, call, seen, guest>>
        /\ \A j \in Key : j # k => cart'[j] = cart[j]
    BY <1>8 DEF Expire, Store, IInv, TypeOK
  <2>2. ASSUME NEW q \in Request PROVE InStep(q)'
    <3>1. CASE pc[q] \in AtRest
      BY <2>1, <3>1 DEF InStep, AtRest
    <3>2. CASE pc[q] \notin AtRest
      <4>1. /\ Served(call[q]) /\ cart'[SessionKey(call[q])] = cart[SessionKey(call[q])]
            /\ call[q].op = "merge" => cart'[call[q].guest] = cart[call[q].guest]
        BY <2>1, <3>2, KeysAtWork DEF InStep
      <4>2. pc[q] \in {"guestFound", "merged"} => call[q].op = "merge"
        BY DEF IInv, AtWork
      <4>3. /\ pc[q] \in {"found", "placed"} => seen[q] = cart[SessionKey(call[q])]
            /\ pc[q] \in {"guestFound", "merged"} \/ (pc[q] = "found" /\ call[q].op = "merge")
                 => guest[q] = cart[call[q].guest]
        BY DEF InStep
      <4> QED
        BY <2>1, <4>1, <4>2, <4>3 DEF InStep
    <3> QED
      BY <3>1, <3>2
  <2> QED
    BY <2>2
<1>9. CASE UNCHANGED vars
  BY <1>9 DEF vars, InStep
<1> QED
  BY <1>1, <1>2, <1>3, <1>4, <1>5, <1>6, <1>7, <1>8, <1>9
     DEF Next, Serve, AddToCart, UpdateCartQuantity, RemoveFromCart
--------------------------------------------------------------------------------
LEMMA KeysFinite == IsFiniteSet(Key)
BY CartsAssumption, FS_Union DEF Key

LEMMA QuantitiesOfNone == None \in [Sku -> Nat] /\ \A s \in Sku : None[s] = 0
BY DEF None

LEMMA WaitingType ==
  ASSUME IInv, NEW r \in Request
  PROVE  Waiting(r) \in [Sku -> Nat]
BY QuantitiesOfNone DEF Waiting, IInv, TypeOK, Cart

LEMMA UnitTypes ==
  ASSUME IInv, NEW s \in Sku
  PROVE  /\ \A k \in Key : Held(s)[k] = cart[k].qty[s] /\ Held(s)[k] \in Int
         /\ \A r \in Request : Pending(s)[r] = Waiting(r)[s] /\ Pending(s)[r] \in Int
         /\ SumFunction(Held(s)) = SumFunctionOnSet(Held(s), Key)
         /\ SumFunction(Pending(s)) = SumFunctionOnSet(Pending(s), Request)
         /\ SumFunction(Held(s)) \in Int /\ SumFunction(Pending(s)) \in Int
         /\ ordered[s] \in Int /\ owed[s] \in Int
<1>1. \A k \in Key : Held(s)[k] = cart[k].qty[s] /\ Held(s)[k] \in Int
  BY DEF Held, IInv, TypeOK, Cart
<1>2. \A r \in Request : Pending(s)[r] = Waiting(r)[s] /\ Pending(s)[r] \in Int
  BY WaitingType DEF Pending
<1>3. DOMAIN Held(s) = Key /\ DOMAIN Pending(s) = Request
  BY DEF Held, Pending
<1>4. /\ SumFunction(Held(s)) = SumFunctionOnSet(Held(s), Key)
      /\ SumFunction(Pending(s)) = SumFunctionOnSet(Pending(s), Request)
  BY <1>3 DEF SumFunction
<1>5. /\ SumFunctionOnSet(Held(s), Key) \in Int
      /\ SumFunctionOnSet(Pending(s), Request) \in Int
  BY <1>1, <1>2, KeysFinite, CartsAssumption, SumType
<1> QED
  BY <1>1, <1>2, <1>4, <1>5 DEF IInv, TypeOK

(* What a step books is balanced when the units it puts into carts and orders are those it *)
(* owes and those it leaves waiting.                                                         *)
LEMMA Booked ==
  ASSUME IInv, IInv', Balanced, NEW gain \in [Sku -> Int], NEW due \in [Sku -> Int],
         \A s \in Sku : /\ SumFunction(Held(s))' = SumFunction(Held(s)) + gain[s]
                        /\ SumFunction(Pending(s))' = SumFunction(Pending(s)) + due[s],
         faults' = 0 => faults = 0,
         \A s \in Sku :
           LET brought == gain[s] + (ordered'[s] - ordered[s])
               asked   == due[s] + (owed'[s] - owed[s])
           IN  brought >= asked /\ (faults' = 0 => brought = asked)
  PROVE  Balanced'
<1> SUFFICES ASSUME NEW s \in Sku
             PROVE  Surplus(s)' >= 0 /\ (faults' = 0 => Surplus(s)' = 0)
  BY DEF Balanced
<1> DEFINE h == SumFunction(Held(s))
           p == SumFunction(Pending(s))
<1>1. h \in Int /\ p \in Int /\ ordered[s] \in Int /\ owed[s] \in Int
  BY UnitTypes
<1>2. ordered'[s] \in Int /\ owed'[s] \in Int
  BY DEF IInv, TypeOK
<1>3. h' = h + gain[s] /\ p' = p + due[s] /\ gain[s] \in Int /\ due[s] \in Int
  OBVIOUS
<1>4. /\ Surplus(s) = (h + ordered[s]) - (p + owed[s])
      /\ Surplus(s)' = (h' + ordered'[s]) - (p' + owed'[s])
  BY DEF Surplus, Units
<1>5. Surplus(s) >= 0 /\ (faults = 0 => Surplus(s) = 0)
  BY DEF Balanced
<1>6. LET brought == gain[s] + (ordered'[s] - ordered[s])
          asked   == due[s] + (owed'[s] - owed[s])
      IN  brought >= asked /\ (faults' = 0 => brought = asked)
  OBVIOUS
<1> HIDE DEF h, p
<1> QED
  BY <1>1, <1>2, <1>3, <1>4, <1>5, <1>6

(* The sums where one cart is written, or none. *)
LEMMA HeldMoves ==
  ASSUME IInv, IInv', NEW k \in Key, \A j \in Key : j # k => cart'[j] = cart[j],
         NEW s \in Sku
  PROVE  SumFunction(Held(s))' = SumFunction(Held(s)) + (cart'[k].qty[s] - cart[k].qty[s])
<1> DEFINE f == Held(s)
           g == [j \in Key |-> cart'[j].qty[s]]
<1>1. /\ \A j \in Key : f[j] = cart[j].qty[s] /\ f[j] \in Int
      /\ SumFunction(f) = SumFunctionOnSet(f, Key)
  BY UnitTypes
<1>2. /\ \A j \in Key : g[j] = cart'[j].qty[s] /\ g[j] \in Int
      /\ SumFunction(g) = SumFunctionOnSet(g, Key)
  BY DEF IInv, TypeOK, Cart, SumFunction
<1>3. SumFunction(Held(s))' = SumFunction(g)
  BY DEF Held
<1> HIDE DEF f, g
<1>4. /\ \A j \in Key \ {k} : f[j] = g[j]
      /\ \A j \in Key : f[j] \in Int /\ g[j] \in Int
  BY <1>1, <1>2
<1>5. SumFunctionOnSet(g, Key) = SumFunctionOnSet(f, Key) + (g[k] - f[k])
  BY <1>4, KeysFinite, SumChanges
<1> QED
  BY <1>1, <1>2, <1>3, <1>5 DEF f

LEMMA PendingMoves ==
  ASSUME IInv, IInv', NEW r \in Request, \A q \in Request : q # r => Waiting(q)' = Waiting(q),
         NEW s \in Sku
  PROVE  SumFunction(Pending(s))' = SumFunction(Pending(s)) + (Waiting(r)'[s] - Waiting(r)[s])
<1> DEFINE f == Pending(s)
           g == [q \in Request |-> Waiting(q)'[s]]
<1>1. /\ \A q \in Request : f[q] = Waiting(q)[s] /\ f[q] \in Int
      /\ SumFunction(f) = SumFunctionOnSet(f, Request)
  BY UnitTypes
<1>2. \A q \in Request : Waiting(q)' \in [Sku -> Nat]
  BY QuantitiesOfNone DEF Waiting, IInv, TypeOK, Cart
<1>3. /\ \A q \in Request : g[q] = Waiting(q)'[s] /\ g[q] \in Int
      /\ SumFunction(g) = SumFunctionOnSet(g, Request)
  BY <1>2 DEF SumFunction
<1>4. SumFunction(Pending(s))' = SumFunction(g)
  BY DEF Pending
<1> HIDE DEF f, g
<1>5. /\ \A q \in Request \ {r} : f[q] = g[q]
      /\ \A q \in Request : f[q] \in Int /\ g[q] \in Int
      /\ IsFiniteSet(Request)
  BY <1>1, <1>3, CartsAssumption
<1>6. SumFunctionOnSet(g, Request) = SumFunctionOnSet(f, Request) + (g[r] - f[r])
  BY <1>5, SumChanges
<1> QED
  BY <1>1, <1>3, <1>4, <1>6 DEF f

(* A request writes one cart. *)
LEMMA BookedAt ==
  ASSUME IInv, IInv', Balanced, NEW r \in Request, NEW k \in Key,
         \A q \in Request :
           q # r => pc'[q] = pc[q] /\ seen'[q] = seen[q] /\ guest'[q] = guest[q],
         \A j \in Key : j # k => cart'[j] = cart[j],
         faults' = faults,
         \A s \in Sku :
           (cart'[k].qty[s] - cart[k].qty[s]) + (ordered'[s] - ordered[s])
             = (Waiting(r)'[s] - Waiting(r)[s]) + (owed'[s] - owed[s])
  PROVE  Balanced'
<1> DEFINE gain == [s \in Sku |-> cart'[k].qty[s] - cart[k].qty[s]]
           due == [s \in Sku |-> Waiting(r)'[s] - Waiting(r)[s]]
<1>1. gain \in [Sku -> Int]
  BY DEF IInv, TypeOK, Cart
<1>2. Waiting(r) \in [Sku -> Nat] /\ Waiting(r)' \in [Sku -> Nat]
  BY QuantitiesOfNone DEF Waiting, IInv, TypeOK, Cart
<1>3. due \in [Sku -> Int]
  BY <1>2
<1>4. \A q \in Request : q # r => Waiting(q)' = Waiting(q)
  BY DEF Waiting
<1>5. ASSUME NEW s \in Sku
      PROVE  /\ SumFunction(Held(s))' = SumFunction(Held(s)) + (cart'[k].qty[s] - cart[k].qty[s])
             /\ SumFunction(Pending(s))' = SumFunction(Pending(s)) + (Waiting(r)'[s] - Waiting(r)[s])
  BY <1>4, HeldMoves, PendingMoves
<1>6. \A s \in Sku : /\ SumFunction(Held(s))' = SumFunction(Held(s)) + gain[s]
                     /\ SumFunction(Pending(s))' = SumFunction(Pending(s)) + due[s]
  BY <1>5
<1>7. \A s \in Sku : gain[s] + (ordered'[s] - ordered[s]) = due[s] + (owed'[s] - owed[s])
  OBVIOUS
<1>8. \A s \in Sku : owed'[s] \in Int /\ owed[s] \in Int
  BY DEF IInv, TypeOK
<1> HIDE DEF gain, due
<1>9. \A s \in Sku :
        LET brought == gain[s] + (ordered'[s] - ordered[s])
            asked   == due[s] + (owed'[s] - owed[s])
        IN  brought >= asked /\ (faults' = 0 => brought = asked)
  BY <1>3, <1>7, <1>8
<1> QED
  BY <1>1, <1>3, <1>6, <1>9, Booked

(* A request writes no cart. *)
LEMMA BookedElsewhere ==
  ASSUME IInv, IInv', Balanced, NEW r \in Request,
         \A q \in Request :
           q # r => pc'[q] = pc[q] /\ seen'[q] = seen[q] /\ guest'[q] = guest[q],
         UNCHANGED <<cart, owed>>,
         faults' = 0 => faults = 0,
         \A s \in Sku :
           LET placed == ordered'[s] - ordered[s]
               waits  == Waiting(r)'[s] - Waiting(r)[s]
           IN  placed >= waits /\ (faults' = 0 => placed = waits)
  PROVE  Balanced'
<1> DEFINE gain == [s \in Sku |-> 0]
           due == [s \in Sku |-> Waiting(r)'[s] - Waiting(r)[s]]
<1>1. gain \in [Sku -> Int]
  OBVIOUS
<1>2. Waiting(r) \in [Sku -> Nat] /\ Waiting(r)' \in [Sku -> Nat]
  BY QuantitiesOfNone DEF Waiting, IInv, TypeOK, Cart
<1>3. due \in [Sku -> Int]
  BY <1>2
<1>4. \A q \in Request : q # r => Waiting(q)' = Waiting(q)
  BY DEF Waiting
<1>5. ASSUME NEW s \in Sku
      PROVE  /\ SumFunction(Held(s))' = SumFunction(Held(s)) /\ SumFunction(Held(s)) \in Int
             /\ SumFunction(Pending(s))' = SumFunction(Pending(s)) + (Waiting(r)'[s] - Waiting(r)[s])
  <2>1. Held(s)' = Held(s)
    BY DEF Held
  <2> QED
    BY <2>1, <1>4, PendingMoves, UnitTypes
<1>6. \A s \in Sku : /\ SumFunction(Held(s))' = SumFunction(Held(s)) + gain[s]
                     /\ SumFunction(Pending(s))' = SumFunction(Pending(s)) + due[s]
  BY <1>5
<1>7. \A s \in Sku :
        LET placed == ordered'[s] - ordered[s]
        IN  /\ placed >= due[s] /\ (faults' = 0 => placed = due[s])
            /\ gain[s] = 0
  OBVIOUS
<1>8. \A s \in Sku : /\ owed'[s] = owed[s] /\ owed[s] \in Int
                     /\ ordered'[s] \in Int /\ ordered[s] \in Int
  BY DEF IInv, TypeOK
<1> HIDE DEF gain, due
<1>9. \A s \in Sku :
        LET brought == gain[s] + (ordered'[s] - ordered[s])
            asked   == due[s] + (owed'[s] - owed[s])
        IN  brought >= asked /\ (faults' = 0 => brought = asked)
  BY <1>3, <1>7, <1>8
<1> QED
  BY <1>1, <1>3, <1>6, <1>9, Booked

LEMMA PersistBalances ==
  ASSUME IInv, IInv', Balanced, NEW r \in Request, InStep(r), NEW new, new \in Cart,
         Persist(r, new)
  PROVE  Balanced'
<1> DEFINE k == SessionKey(call[r])
<1>1. /\ pc[r] = "found" /\ pc'[r] = "ok" /\ UNCHANGED <<ordered, faults>>
      /\ cart' = [cart EXCEPT ![k] = new] /\ owed' = Plus(owed, Less(new.qty, seen[r].qty))
      /\ \A q \in Request : q # r => pc'[q] = pc[q] /\ seen'[q] = seen[q] /\ guest'[q] = guest[q]
  BY DEF Persist, Store, IInv, TypeOK
<1>2. k \in Key /\ seen[r] = cart[k]
  BY <1>1, KeysAtWork DEF InStep, AtRest
<1> HIDE DEF k
<1>3. cart'[k] = new /\ \A j \in Key : j # k => cart'[j] = cart[j]
  BY <1>1, <1>2 DEF IInv, TypeOK
<1>4. Waiting(r) = None /\ Waiting(r)' = None
  BY <1>1 DEF Waiting
<1>5. ASSUME NEW s \in Sku
      PROVE  (cart'[k].qty[s] - cart[k].qty[s]) + (ordered'[s] - ordered[s])
               = (Waiting(r)'[s] - Waiting(r)[s]) + (owed'[s] - owed[s])
  <2>1. owed'[s] = owed[s] + (new.qty[s] - cart[k].qty[s])
    BY <1>1, <1>2 DEF Plus, Less
  <2>2. /\ owed[s] \in Int /\ new.qty[s] \in Int /\ cart[k].qty[s] \in Int /\ ordered[s] \in Int
        /\ None[s] = 0
    BY <1>2, QuantitiesOfNone DEF IInv, TypeOK, Cart
  <2> QED
    BY <1>1, <1>3, <1>4, <2>1, <2>2
<1> QED
  BY <1>1, <1>2, <1>3, <1>5, BookedAt

(* Every step keeps the balance; a failure in the middle leaves a surplus. *)
LEMMA BalancedStep ==
  ASSUME IInv, IInv', Balanced, \A r \in Request : InStep(r), [Next]_vars
  PROVE  Balanced'
<1> USE DEF cartVars, requestVars
<1>1. ASSUME NEW r \in Request,
             \/ \E c \in Call : Send(r, c)
             \/ Close(r) \/ FindGuest(r) \/ Find(r) \/ CatalogRefuses(r)
      PROVE  Balanced'
  <2>1. /\ UNCHANGED <<cart, owed, ordered, faults>>
        /\ \A q \in Request : q # r => pc'[q] = pc[q] /\ seen'[q] = seen[q] /\ guest'[q] = guest[q]
        /\ pc[r] \notin {"merged", "placed"} /\ pc'[r] \notin {"merged", "placed"}
    BY <1>1 DEF Send, Close, FindGuest, Find, CatalogRefuses, IInv, TypeOK
  <2>2. Waiting(r) = None /\ Waiting(r)' = None
    BY <2>1 DEF Waiting
  <2>3. \A s \in Sku : None[s] = 0 /\ ordered[s] \in Int
    BY QuantitiesOfNone DEF IInv, TypeOK
  <2>4. \A s \in Sku :
          LET placed == ordered'[s] - ordered[s]
              waits  == Waiting(r)'[s] - Waiting(r)[s]
          IN  placed >= waits /\ (faults' = 0 => placed = waits)
    BY <2>1, <2>2, <2>3
  <2> QED
    BY <2>1, <2>4, BookedElsewhere
<1>2. ASSUME NEW r \in Request, RequestFails(r)
      PROVE  Balanced'
  <2>1. /\ UNCHANGED <<cart, owed, ordered>> /\ faults' # 0
        /\ \A q \in Request : q # r => pc'[q] = pc[q] /\ seen'[q] = seen[q] /\ guest'[q] = guest[q]
        /\ pc'[r] = "error"
    BY <1>2, CartsAssumption DEF RequestFails, IInv, TypeOK
  <2>2. Waiting(r)' = None /\ Waiting(r) \in [Sku -> Nat]
    BY <2>1, WaitingType DEF Waiting
  <2>3. \A s \in Sku : None[s] = 0 /\ ordered[s] \in Int
    BY QuantitiesOfNone DEF IInv, TypeOK
  <2>4. \A s \in Sku :
          LET placed == ordered'[s] - ordered[s]
              waits  == Waiting(r)'[s] - Waiting(r)[s]
          IN  placed >= waits /\ (faults' = 0 => placed = waits)
    BY <2>1, <2>2, <2>3
  <2> QED
    BY <2>1, <2>4, BookedElsewhere
<1>3. ASSUME NEW r \in Request, AddToCart(r)
      PROVE  Balanced'
  <2>1. call[r] \in Call /\ WellFormed(seen[r]) /\ CanAdd(seen[r], call[r].cur)
    BY <1>3 DEF AddToCart, Persist, IInv, AtWork, AtRest, Accepts
  <2>2. WellFormed(AddItem(seen[r], call[r].sku, call[r].n, call[r].cur))
    BY <1>3, <2>1, CallFields, AddWellFormed DEF AddToCart
  <2> QED
    BY <1>3, <2>2, PersistBalances DEF AddToCart, WellFormed
<1>4. ASSUME NEW r \in Request, UpdateCartQuantity(r) \/ RemoveFromCart(r)
      PROVE  Balanced'
  <2>1. call[r] \in Call /\ WellFormed(seen[r]) /\ call[r].op \in {"update", "remove"}
    BY <1>4 DEF UpdateCartQuantity, RemoveFromCart, Persist, IInv, AtWork, AtRest
  <2>2. seen[r].qty[call[r].sku] > 0
    BY <1>4, <2>1 DEF UpdateCartQuantity, RemoveFromCart, Persist, IInv, AtWork, Accepts
  <2>3. CASE UpdateCartQuantity(r)
    <3>1. WellFormed(UpdateQuantity(seen[r], call[r].sku, call[r].n))
      BY <2>1, <2>2, <2>3, CallFields, SetWellFormed DEF UpdateCartQuantity
    <3> QED
      BY <2>3, <3>1, PersistBalances DEF UpdateCartQuantity, WellFormed
  <2>4. CASE RemoveFromCart(r)
    <3>1. 0 \in Nat
      OBVIOUS
    <3>2. WellFormed(RemoveItem(seen[r], call[r].sku))
      BY <2>1, <2>2, <2>4, <3>1, CallFields, SetWellFormed DEF RemoveFromCart
    <3> QED
      BY <2>4, <3>2, PersistBalances DEF RemoveFromCart, WellFormed
  <2> QED
    BY <1>4, <2>3, <2>4
<1>5. ASSUME NEW r \in Request, Clear(r) \/ DeleteOrdered(r) \/ DeleteGuest(r)
      PROVE  Balanced'
  <2> DEFINE k == IF DeleteGuest(r) THEN call[r].guest ELSE SessionKey(call[r])
  <2>1. /\ UNCHANGED <<ordered, faults>>
        /\ \A q \in Request : q # r => pc'[q] = pc[q] /\ seen'[q] = seen[q] /\ guest'[q] = guest[q]
        /\ pc'[r] = "ok" /\ pc[r] \notin AtRest
        /\ cart' = [cart EXCEPT ![k] = EmptyCart]
    BY <1>5 DEF Clear, DeleteOrdered, DeleteGuest, Store, IInv, TypeOK, AtRest
  <2>2. k \in Key
    <3>1. DeleteGuest(r) => call[r].op = "merge"
      BY DEF DeleteGuest, IInv, AtWork
    <3> QED
      BY <2>1, <3>1, KeysAtWork
  <2>3. /\ Waiting(r)' = None
        /\ \/ Waiting(r) = None /\ owed' = Less(owed, cart[k].qty)
           \/ Waiting(r) = cart[k].qty /\ owed' = owed
    <3>1. Waiting(r)' = None
      BY <2>1 DEF Waiting
    <3>2. CASE DeleteGuest(r)
      BY <3>1, <3>2 DEF DeleteGuest, Waiting, InStep
    <3>3. CASE DeleteOrdered(r)
      BY <3>1, <3>3 DEF DeleteOrdered, DeleteGuest, Waiting, InStep
    <3>4. CASE Clear(r)
      BY <3>1, <3>4 DEF Clear, DeleteGuest, Waiting
    <3> QED
      BY <1>5, <3>2, <3>3, <3>4
  <2> HIDE DEF k
  <2>4. cart'[k] = EmptyCart /\ \A j \in Key : j # k => cart'[j] = cart[j]
    BY <2>1, <2>2 DEF IInv, TypeOK
  <2>5. ASSUME NEW s \in Sku
        PROVE  (cart'[k].qty[s] - cart[k].qty[s]) + (ordered'[s] - ordered[s])
                 = (Waiting(r)'[s] - Waiting(r)[s]) + (owed'[s] - owed[s])
    <3>1. EmptyCart.qty[s] = 0 /\ None[s] = 0
      BY DEF EmptyCart, None
    <3>2. owed[s] \in Int /\ cart[k].qty[s] \in Int /\ ordered[s] \in Int
      BY <2>2 DEF IInv, TypeOK, Cart
    <3>3. cart'[k].qty[s] = 0 /\ ordered'[s] = ordered[s] /\ Waiting(r)'[s] = 0
      BY <2>1, <2>3, <2>4, <3>1
    <3>4. \/ Waiting(r)[s] = 0 /\ owed'[s] = owed[s] - cart[k].qty[s]
          \/ Waiting(r)[s] = cart[k].qty[s] /\ owed'[s] = owed[s]
      BY <2>3, <3>1 DEF Less
    <3> QED
      BY <3>2, <3>3, <3>4
  <2> QED
    BY <2>1, <2>2, <2>4, <2>5, BookedAt
<1>6. ASSUME NEW r \in Request, SaveMerged(r)
      PROVE  Balanced'
  <2> DEFINE k == SessionKey(call[r])
             g == guest[r]
             old == cart[k]
  <2>1. /\ UNCHANGED <<ordered, faults, guest>>
        /\ \A q \in Request : q # r => pc'[q] = pc[q] /\ seen'[q] = seen[q] /\ guest'[q] = guest[q]
        /\ pc[r] = "found" /\ pc'[r] = IF IsEmpty(g) THEN "ok" ELSE "merged"
        /\ cart' = [cart EXCEPT ![k] = Merge(seen[r], g)]
        /\ owed' = IF Conflict(seen[r], g) THEN Less(owed, g.qty) ELSE owed
    BY <1>6 DEF SaveMerged, Store, IInv, TypeOK
  <2>2. k \in Key /\ seen[r] = old
    BY <2>1, KeysAtWork DEF InStep, AtRest
  <2>3. Waiting(r) = None /\ Waiting(r)' = IF IsEmpty(g) THEN None ELSE g.qty
    BY <2>1 DEF Waiting
  <2>4. cart'[k] = Merge(old, g) /\ \A j \in Key : j # k => cart'[j] = cart[j]
    BY <2>1, <2>2 DEF IInv, TypeOK
  <2>5. g \in Cart /\ old \in Cart
    BY <2>2 DEF IInv, TypeOK
  <2>6. owed' = IF Conflict(old, g) THEN Less(owed, g.qty) ELSE owed
    BY <2>1, <2>2
  <2> HIDE DEF k, g, old
  <2>7. ASSUME NEW s \in Sku
        PROVE  (cart'[k].qty[s] - old.qty[s]) + (ordered'[s] - ordered[s])
                 = (Waiting(r)'[s] - Waiting(r)[s]) + (owed'[s] - owed[s])
    <3>1. /\ None[s] = 0 /\ owed[s] \in Int /\ ordered[s] \in Int
          /\ old.qty[s] \in Int /\ g.qty[s] \in Int
          /\ Waiting(r)[s] = 0 /\ ordered'[s] = ordered[s]
      BY <2>1, <2>3, <2>5, QuantitiesOfNone DEF IInv, TypeOK, Cart
    <3>2. CASE IsEmpty(g)
      <4>1. cart'[k] = old /\ owed' = owed /\ Waiting(r)' = None
        BY <2>3, <2>4, <2>6, <3>2 DEF Merge, Conflict
      <4>2. cart'[k].qty[s] = old.qty[s] /\ owed'[s] = owed[s] /\ Waiting(r)'[s] = 0
        BY <3>1, <4>1
      <4> QED
        BY <3>1, <4>2
    <3>3. CASE ~IsEmpty(g) /\ Conflict(old, g)
      <4>1. cart'[k] = old /\ owed' = Less(owed, g.qty) /\ Waiting(r)' = g.qty
        BY <2>3, <2>4, <2>6, <3>3 DEF Merge
      <4>2. /\ cart'[k].qty[s] = old.qty[s] /\ owed'[s] = owed[s] - g.qty[s]
            /\ Waiting(r)'[s] = g.qty[s]
        BY <4>1 DEF Less
      <4> QED
        BY <3>1, <4>2
    <3>4. CASE ~IsEmpty(g) /\ ~Conflict(old, g)
      <4>1. /\ cart'[k].qty = Plus(old.qty, g.qty) /\ owed' = owed /\ Waiting(r)' = g.qty
        BY <2>3, <2>4, <2>6, <3>4 DEF Merge
      <4>2. /\ cart'[k].qty[s] = old.qty[s] + g.qty[s] /\ owed'[s] = owed[s]
            /\ Waiting(r)'[s] = g.qty[s]
        BY <4>1 DEF Plus
      <4> QED
        BY <3>1, <4>2
    <3> QED
      BY <3>2, <3>3, <3>4
  <2>8. \A s \in Sku : (cart'[k].qty[s] - cart[k].qty[s]) + (ordered'[s] - ordered[s])
                         = (Waiting(r)'[s] - Waiting(r)[s]) + (owed'[s] - owed[s])
    BY <2>7 DEF old
  <2> QED
    BY <2>1, <2>2, <2>4, <2>8, BookedAt
<1>7. ASSUME NEW r \in Request, PlaceOrder(r)
      PROVE  Balanced'
  <2>1. /\ UNCHANGED <<cart, owed, faults>> /\ ordered' = Plus(ordered, seen[r].qty)
        /\ \A q \in Request : q # r => pc'[q] = pc[q] /\ seen'[q] = seen[q] /\ guest'[q] = guest[q]
        /\ pc[r] = "found" /\ pc'[r] = "placed" /\ seen' = seen
    BY <1>7 DEF PlaceOrder, IInv, TypeOK
  <2>2. Waiting(r) = None /\ Waiting(r)' = seen[r].qty
    BY <2>1 DEF Waiting
  <2>3. \A s \in Sku : /\ None[s] = 0 /\ ordered[s] \in Int /\ seen[r].qty[s] \in Int
                       /\ ordered'[s] = ordered[s] + seen[r].qty[s]
    BY <2>1, QuantitiesOfNone DEF IInv, TypeOK, Cart, Plus
  <2>4. \A s \in Sku :
          LET placed == ordered'[s] - ordered[s]
              waits  == Waiting(r)'[s] - Waiting(r)[s]
          IN  placed >= waits /\ (faults' = 0 => placed = waits)
    BY <2>2, <2>3
  <2> QED
    BY <2>1, <2>4, BookedElsewhere
<1>8. ASSUME NEW k \in Key, Expire(k)
      PROVE  Balanced'
  <2> DEFINE gain == [s \in Sku |-> -cart[k].qty[s]]
             due == [s \in Sku |-> 0]
  <2>1. /\ UNCHANGED <<ordered, faults, pc, seen, guest>> /\ owed' = Less(owed, cart[k].qty)
        /\ cart'[k] = EmptyCart /\ \A j \in Key : j # k => cart'[j] = cart[j]
    BY <1>8 DEF Expire, Store, IInv, TypeOK
  <2>2. gain \in [Sku -> Int] /\ due \in [Sku -> Int]
    BY DEF IInv, TypeOK, Cart
  <2>3. ASSUME NEW s \in Sku
        PROVE  /\ SumFunction(Held(s))' = SumFunction(Held(s)) + gain[s]
               /\ SumFunction(Pending(s))' = SumFunction(Pending(s)) + due[s]
    <3>1. SumFunction(Held(s))' = SumFunction(Held(s)) + (cart'[k].qty[s] - cart[k].qty[s])
      BY <2>1, HeldMoves
    <3>2. EmptyCart.qty[s] = 0 /\ cart[k].qty[s] \in Int /\ SumFunction(Held(s)) \in Int
      BY UnitTypes DEF EmptyCart, None, IInv, TypeOK, Cart
    <3>3. SumFunction(Pending(s))' = SumFunction(Pending(s)) /\ SumFunction(Pending(s)) \in Int
      <4>1. Pending(s)' = Pending(s)
        BY <2>1 DEF Pending, Waiting
      <4> QED
        BY <4>1, UnitTypes
    <3> QED
      BY <2>1, <3>1, <3>2, <3>3
  <2>4. ASSUME NEW s \in Sku
        PROVE  LET brought == gain[s] + (ordered'[s] - ordered[s])
                   asked   == due[s] + (owed'[s] - owed[s])
               IN  brought >= asked /\ (faults' = 0 => brought = asked)
    <3>1. /\ owed'[s] = owed[s] - cart[k].qty[s] /\ owed[s] \in Int
          /\ cart[k].qty[s] \in Int /\ ordered[s] \in Int
      BY <2>1 DEF Less, IInv, TypeOK, Cart
    <3> QED
      BY <2>1, <3>1
  <2> HIDE DEF gain, due
  <2> QED
    BY <2>1, <2>2, <2>3, <2>4, Booked
<1>9. CASE UNCHANGED vars
  BY <1>9 DEF vars, Balanced, Surplus, Units, Held, Pending, Waiting
<1> QED
  BY <1>1, <1>2, <1>3, <1>4, <1>5, <1>6, <1>7, <1>8, <1>9 DEF Next, Serve

LEMMA CalmAlways == Spec => []Calm
<1>1. Init => Calm
  <2> SUFFICES ASSUME Init PROVE Calm
    OBVIOUS
  <2>1. IInv
    BY InvInit
  <2>2. Keys(NoCall) = {} /\ \A r \in Request : call[r] = NoCall /\ pc[r] = "idle"
    BY DEF Keys, Init
  <2>3. Apart /\ \A r \in Request : InStep(r)
    BY <2>2 DEF Apart, InStep, AtRest
  <2>4. ASSUME NEW s \in Sku PROVE Surplus(s) = 0
    <3>1. /\ \A k \in Key : Held(s)[k] = 0
          /\ \A r \in Request : Pending(s)[r] = 0
          /\ ordered[s] = 0 /\ owed[s] = 0
      BY <2>2 DEF Held, Pending, Waiting, Init, EmptyCart, None
    <3>2. SumFunction(Held(s)) = 0 /\ SumFunction(Pending(s)) = 0
      BY <2>1, <3>1, UnitTypes, KeysFinite, CartsAssumption, SumOfZeros
    <3> QED
      BY <3>1, <3>2 DEF Surplus, Units
  <2> QED
    BY <2>3, <2>4 DEF Calm, Balanced
<1>2. IInv /\ IInv' /\ Calm /\ [Next]_vars => Calm'
  <2> SUFFICES ASSUME IInv, IInv', Calm, [Next]_vars, raced' = {}
               PROVE  Apart' /\ (\A r \in Request : InStep(r)') /\ Balanced'
    BY DEF Calm
  <2>1. raced = {}
    <3>1. ASSUME NEW r \in Request, NEW c \in Call, Send(r, c) PROVE raced \subseteq raced'
      BY <3>1 DEF Send
    <3>2. ASSUME NEW r \in Request, Close(r) \/ CatalogRefuses(r) \/ RequestFails(r) \/ Serve(r)
          PROVE  raced \subseteq raced'
      BY <3>2
         DEF Close, Serve, FindGuest, Find, CatalogRefuses, RequestFails, AddToCart,
             UpdateCartQuantity, RemoveFromCart, Persist, Clear, SaveMerged, DeleteGuest,
             PlaceOrder, DeleteOrdered
    <3>3. ASSUME NEW k \in Key, Expire(k) PROVE raced \subseteq raced'
      BY <3>3 DEF Expire
    <3>4. CASE UNCHANGED vars
      BY <3>4 DEF vars
    <3>5. raced \subseteq raced'
      BY <3>1, <3>2, <3>3, <3>4 DEF Next
    <3> QED
      BY <3>5
  <2>2. Apart /\ (\A r \in Request : InStep(r)) /\ Balanced
    BY <2>1 DEF Calm
  <2> QED
    BY <2>2, ApartStep, InStepStep, BalancedStep
<1> QED
  BY <1>1, <1>2, InvAlways, PTL DEF Spec

(* No unit of a cart is lost and none comes out of nothing, for any number of customers, guests *)
(* and requests, as long as no two requests use one cart at once: what stands in carts and       *)
(* orders is what was put there, and after a failure in the middle of a merge or a checkout it   *)
(* is more, never less.                                                                           *)
THEOREM UnitsKept == Spec => []UnitsAccountedFor
<1>1. IInv /\ Calm => UnitsAccountedFor
  <2> SUFFICES ASSUME IInv, Calm, Quiet, raced = {}, NEW s \in Sku
               PROVE  Units(s) >= owed[s] /\ (faults = 0 => Units(s) = owed[s])
    BY DEF UnitsAccountedFor
  <2>1. \A r \in Request : Pending(s)[r] = 0
    BY DEF Quiet, AtRest, Pending, Waiting, None
  <2>2. SumFunction(Pending(s)) = 0
    BY <2>1, UnitTypes, CartsAssumption, SumOfZeros
  <2>3. Units(s) \in Int /\ owed[s] \in Int
    BY UnitTypes DEF Units
  <2>4. Surplus(s) >= 0 /\ (faults = 0 => Surplus(s) = 0)
    BY DEF Calm, Balanced
  <2> QED
    BY <2>2, <2>3, <2>4 DEF Surplus
<1> QED
  BY <1>1, InvAlways, CalmAlways, PTL
==================================================================================
