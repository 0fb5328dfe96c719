--------------------------------- MODULE Carts ----------------------------------
(***************************************************************************)
(* Carts of the order service: one Redis value per session key, and the     *)
(* requests of CartController and of the checkout that read it, change it   *)
(* in memory and write it back.  Nothing compares what is overwritten with  *)
(* what was read, so requests on one key may undo each other.               *)
(*                                                                         *)
(* Requests come through the gateway, whose guard wants a bearer token on   *)
(* every cart route.  In the order service only the merge and the checkout  *)
(* have a guard that sets authUser; the other routes know a cart by the     *)
(* X-Guest-Session header alone.                                            *)
(***************************************************************************)
EXTENDS Integers, FiniteSets, Functions

CONSTANTS
  User, Guest,    \* session keys user:{sub} and guest:{uuid}
  NoUser, NoGuest,
  Sku,
  Currency, NoCurrency,
  Request,    \* requests in flight at once
  MaxN,       \* bound: the quantity of one request
  MaxCalls,   \* bound: requests
  MaxFaults   \* bound: crashes and lost connections

ASSUME CartsAssumption ==
  /\ NoCurrency \notin Currency
  /\ User \intersect Guest = {} /\ NoUser \notin User /\ NoGuest \notin Guest
  /\ MaxN \in Nat /\ MaxCalls \in Nat /\ MaxFaults \in Nat
  /\ IsFiniteSet(User) /\ IsFiniteSet(Guest) /\ IsFiniteSet(Request)

Key == User \union Guest

VARIABLES
  cart,     \* cart[k]: the stored value; a key without value is an empty cart
  pc,       \* pc[r]: where request r is
  call,     \* call[r]: what r asks
  seen,     \* seen[r]: the cart r read, and later the one it answers
  guest,    \* guest[r]: the guest cart a merge read
  ordered,  \* ordered[s]: units in placed orders
  owed,     \* owed[s]: units the saved operations put into carts, less those they took out
  raced,    \* keys that two requests used at once
  calls,    \* requests so far
  faults

cartVars == <<cart, ordered, owed>>
requestVars == <<pc, call, seen, guest>>
vars == <<cartVars, requestVars, raced, calls, faults>>

(* A cart: its currency, the quantity of each line (0: no such line), and the currencies its *)
(* lines were added in, which the code does not keep.                                        *)
None == [s \in Sku |-> 0]
EmptyCart == [cur |-> NoCurrency, qty |-> None, added |-> {}]

IsEmpty(c) == c.qty = None
Plus(q1, q2) == [s \in Sku |-> q1[s] + q2[s]]
Less(q1, q2) == [s \in Sku |-> q1[s] - q2[s]]

(* A request: its route, the user of its token, and the guest its header (for a merge, its *)
(* body) names.                                                                            *)
Bearer == User \union {NoUser}
Header == Guest \union {NoGuest}
Call ==
  [op : {"get", "clear", "checkout"}, bearer : Bearer, guest : Header]
  \union [op : {"merge"}, bearer : Bearer, guest : Guest]
  \union [op : {"add"}, bearer : Bearer, guest : Header, sku : Sku, n : 1..MaxN, cur : Currency]
  \union [op : {"update"}, bearer : Bearer, guest : Header, sku : Sku, n : 0..MaxN]
  \union [op : {"remove"}, bearer : Bearer, guest : Header, sku : Sku]
NoCall == [op |-> "none"]

Guarded(c) == c.op \in {"merge", "checkout"}

(* JwtAuthGuard of the gateway: no cart route is public. *)
PassesGateway(c) == c.bearer # NoUser

(* resolveSessionKey, which finds authUser only behind JwtAuthGuard. *)
SessionKey(c) == IF Guarded(c) THEN c.bearer ELSE c.guest

Served(c) == PassesGateway(c) /\ SessionKey(c) \in Key

Keys(c) ==
  IF c = NoCall \/ ~Served(c) THEN {}
  ELSE IF c.op = "merge" THEN {SessionKey(c), c.guest} ELSE {SessionKey(c)}

Init ==
  /\ cart = [k \in Key |-> EmptyCart]
  /\ pc = [r \in Request |-> "idle"]
  /\ call = [r \in Request |-> NoCall]
  /\ seen = [r \in Request |-> EmptyCart]
  /\ guest = [r \in Request |-> EmptyCart]
  /\ ordered = None
  /\ owed = None
  /\ raced = {}
  /\ calls = 0
  /\ faults = 0

(* 401 of the gateway, 400 MISSING_SESSION of the order service, or the use case. *)
Send(r, c) ==
  /\ pc[r] = "idle"
  /\ calls < MaxCalls /\ calls' = calls + 1
  /\ pc' = [pc EXCEPT ![r] = IF Served(c) THEN "sent" ELSE "turnedAway"]
  /\ call' = [call EXCEPT ![r] = c]
  /\ raced' = raced \union UNION {Keys(c) \intersect Keys(call[q]) : q \in Request \ {r}}
  /\ UNCHANGED <<cartVars, seen, guest, faults>>

(* The client has the answer, or is gone. *)
Close(r) ==
  /\ pc[r] \in {"ok", "error", "turnedAway"}
  /\ pc' = [pc EXCEPT ![r] = "idle"]
  /\ call' = [call EXCEPT ![r] = NoCall]
  /\ seen' = [seen EXCEPT ![r] = EmptyCart]
  /\ guest' = [guest EXCEPT ![r] = EmptyCart]
  /\ UNCHANGED <<cartVars, raced, calls, faults>>
--------------------------------------------------------------------------------
(* The aggregate. *)

Normal(c) == IF IsEmpty(c) THEN EmptyCart ELSE c

(* Mutant: the currency is not locked. *)
CanAddAny(c, cur) == TRUE

CanAdd(c, cur) == c.cur \in {NoCurrency, cur}

AddItem(c, s, n, cur) ==
  [cur |-> cur, qty |-> [c.qty EXCEPT ![s] = @ + n], added |-> c.added \union {cur}]

UpdateQuantity(c, s, n) == Normal([c EXCEPT !.qty[s] = n])

RemoveItem(c, s) == Normal([c EXCEPT !.qty[s] = 0])

Conflict(user, g) == ~IsEmpty(user) /\ ~IsEmpty(g) /\ user.cur # g.cur

(* Mutant: the lines of the guest replace those of the user. *)
MergeReplacing(user, g) ==
  IF IsEmpty(g) \/ Conflict(user, g) THEN user ELSE g

Merge(user, g) ==
  IF IsEmpty(g) \/ Conflict(user, g) THEN user
  ELSE [cur |-> g.cur, qty |-> Plus(user.qty, g.qty), added |-> user.added \union g.added]

(* What the aggregate refuses: a second currency, a line that is not there, an empty checkout. *)
Accepts(c, old) ==
  CASE c.op = "add"                  -> CanAdd(old, c.cur)
    [] c.op \in {"update", "remove"} -> old.qty[c.sku] > 0
    [] c.op = "checkout"             -> ~IsEmpty(old)
    [] OTHER                         -> TRUE

(* Where the code asks the catalog, which may say no or not answer. *)
AsksCatalog(c, at, old) ==
  \/ c.op = "add" /\ at = "sent"
  \/ c.op = "update" /\ at = "found" /\ c.n > old.qty[c.sku]
  \/ c.op = "checkout" /\ at = "found"
--------------------------------------------------------------------------------
(* The use cases, one Redis command at a time. *)

FindGuest(r) ==
  /\ pc[r] = "sent" /\ call[r].op = "merge"
  /\ pc' = [pc EXCEPT ![r] = "guestFound"]
  /\ guest' = [guest EXCEPT ![r] = cart[call[r].guest]]
  /\ UNCHANGED <<cartVars, call, seen, raced, calls, faults>>

(* findBySessionKey, and what the aggregate says to what it found; GET answers it. *)
Find(r) ==
  LET c == call[r]
      found == cart[SessionKey(c)]
  IN
    /\ pc[r] = IF c.op = "merge" THEN "guestFound" ELSE "sent"
    /\ c.op # "clear"
    /\ seen' = [seen EXCEPT ![r] = found]
    /\ pc' = [pc EXCEPT ![r] = IF ~Accepts(c, found) THEN "error"
                               ELSE IF c.op = "get" THEN "ok" ELSE "found"]
    /\ UNCHANGED <<cartVars, call, guest, raced, calls, faults>>

CatalogRefuses(r) ==
  /\ pc[r] \in {"sent", "found"}
  /\ AsksCatalog(call[r], pc[r], seen[r])
  /\ pc' = [pc EXCEPT ![r] = "error"]
  /\ UNCHANGED <<cartVars, call, seen, guest, raced, calls, faults>>

Store(k, c) == cart' = [cart EXCEPT ![k] = c]

(* The save of the changed cart, and the answer. *)
Persist(r, new) ==
  /\ pc[r] = "found"
  /\ Store(SessionKey(call[r]), new)
  /\ owed' = Plus(owed, Less(new.qty, seen[r].qty))
  /\ seen' = [seen EXCEPT ![r] = new]
  /\ pc' = [pc EXCEPT ![r] = "ok"]
  /\ UNCHANGED <<ordered, call, guest, raced, calls, faults>>

AddToCart(r) ==
  /\ call[r].op = "add"
  /\ Persist(r, AddItem(seen[r], call[r].sku, call[r].n, call[r].cur))

UpdateCartQuantity(r) ==
  /\ call[r].op = "update"
  /\ Persist(r, UpdateQuantity(seen[r], call[r].sku, call[r].n))

RemoveFromCart(r) ==
  /\ call[r].op = "remove"
  /\ Persist(r, RemoveItem(seen[r], call[r].sku))

Clear(r) ==
  /\ pc[r] = "sent" /\ call[r].op = "clear"
  /\ Store(SessionKey(call[r]), EmptyCart)
  /\ owed' = Less(owed, cart[SessionKey(call[r])].qty)
  /\ pc' = [pc EXCEPT ![r] = "ok"]
  /\ UNCHANGED <<ordered, call, seen, guest, raced, calls, faults>>

SaveMerged(r) ==
  /\ pc[r] = "found" /\ call[r].op = "merge"
  /\ Store(SessionKey(call[r]), Merge(seen[r], guest[r]))
  /\ pc' = [pc EXCEPT ![r] = IF IsEmpty(guest[r]) THEN "ok" ELSE "merged"]
  /\ seen' = [seen EXCEPT ![r] = Merge(@, guest[r])]
  /\ owed' = IF Conflict(seen[r], guest[r]) THEN Less(owed, guest[r].qty) ELSE owed
  /\ UNCHANGED <<ordered, call, guest, raced, calls, faults>>

(* The guest cart goes, merged or dropped. *)
DeleteGuest(r) ==
  /\ pc[r] = "merged"
  /\ Store(call[r].guest, EmptyCart)
  /\ pc' = [pc EXCEPT ![r] = "ok"]
  /\ UNCHANGED <<ordered, owed, call, seen, guest, raced, calls, faults>>

(* StartCheckoutUseCase saves the order of what it read. *)
PlaceOrder(r) ==
  /\ pc[r] = "found" /\ call[r].op = "checkout"
  /\ ordered' = Plus(ordered, seen[r].qty)
  /\ pc' = [pc EXCEPT ![r] = "placed"]
  /\ UNCHANGED <<cart, owed, call, seen, guest, raced, calls, faults>>

DeleteOrdered(r) ==
  /\ pc[r] = "placed"
  /\ Store(SessionKey(call[r]), EmptyCart)
  /\ pc' = [pc EXCEPT ![r] = "ok"]
  /\ UNCHANGED <<ordered, owed, call, seen, guest, raced, calls, faults>>

AtRest == {"idle", "ok", "error", "turnedAway"}

(* Redis or the process fails between two commands. *)
RequestFails(r) ==
  /\ pc[r] \notin AtRest
  /\ faults < MaxFaults /\ faults' = faults + 1
  /\ pc' = [pc EXCEPT ![r] = "error"]
  /\ UNCHANGED <<cartVars, call, seen, guest, raced, calls>>

(* CART_TTL_SECONDS after the last save. *)
Expire(k) ==
  /\ cart[k] # EmptyCart
  /\ Store(k, EmptyCart)
  /\ owed' = Less(owed, cart[k].qty)
  /\ raced' = IF \E r \in Request : k \in Keys(call[r]) THEN raced \union {k} ELSE raced
  /\ UNCHANGED <<ordered, requestVars, calls, faults>>

Serve(r) ==
  \/ FindGuest(r) \/ Find(r) \/ AddToCart(r) \/ UpdateCartQuantity(r) \/ RemoveFromCart(r)
  \/ Clear(r) \/ SaveMerged(r) \/ DeleteGuest(r) \/ PlaceOrder(r) \/ DeleteOrdered(r)

Next ==
  \/ \E r \in Request :
       \/ \E c \in Call : Send(r, c)
       \/ Serve(r) \/ CatalogRefuses(r) \/ RequestFails(r) \/ Close(r)
  \/ \E k \in Key : Expire(k)

Spec == Init /\ [][Next]_vars
--------------------------------------------------------------------------------
Cart == [cur : Currency \union {NoCurrency}, qty : [Sku -> Nat], added : SUBSET Currency]

(* Type correctness: an empty cart has no currency, and the other way round. *)
TypeOK ==
  /\ cart \in [Key -> Cart] /\ \A k \in Key : IsEmpty(cart[k]) <=> cart[k].cur = NoCurrency
  /\ pc \in [Request -> AtRest \union {"sent", "guestFound", "found", "merged", "placed"}]
  /\ call \in [Request -> Call \union {NoCall}]
  /\ seen \in [Request -> Cart] /\ guest \in [Request -> Cart]
  /\ ordered \in [Sku -> Nat] /\ owed \in [Sku -> Int]
  /\ raced \subseteq Key
  /\ calls \in 0..MaxCalls /\ faults \in 0..MaxFaults

(* A cart holds one currency (docs/project-overview-pdr.md:149): all its lines were added in  *)
(* the currency it has, whatever requests overlap, overwrite each other or die half way.      *)
OneCurrency == \A k \in Key : cart[k].added \subseteq {cart[k].cur}

Quiet == \A r \in Request : pc[r] \in AtRest

Held(s) == [k \in Key |-> cart[k].qty[s]]

(* Units of s in all carts and orders. *)
Units(s) == SumFunction(Held(s)) + ordered[s]

(* Adding, changing, merging and checking out neither lose units nor make more of them, as    *)
(* long as no two requests use one cart at once.  A failure in the middle of a merge or of a  *)
(* checkout can only leave units behind a second time, never lose one.                        *)
UnitsAccountedFor ==
  Quiet /\ raced = {} =>
    \A s \in Sku : Units(s) >= owed[s] /\ (faults = 0 => Units(s) = owed[s])
================================================================================
