--------------------------------- MODULE CartTab ---------------------------------
(***************************************************************************)
(* The cart in one tab of the storefront: the store, the hooks of the       *)
(* header that read the cart and merge a guest's into it, the buttons that  *)
(* change it, and the calls they make, whose answers come in any order.     *)
(*                                                                         *)
(* The order service does what a call asks or refuses it; Carts has the     *)
(* steps it does that in, and whom it turns away.                           *)
(***************************************************************************)
EXTENDS Naturals

CONSTANTS
  Item, NoItem,
  Slot,         \* calls under way at one time, at most (a bound)
  MaxUnits,     \* bound: units of one item
  MaxClicks,    \* bound: clicks, and pages left
  MaxMishaps    \* bound: lost answers, renewed tokens, other sessions

ASSUME CartTabAssumption == MaxUnits \in Nat /\ MaxClicks \in Nat /\ MaxMishaps \in Nat

VARIABLES
  kept,      \* kept[k]: the cart the order service keeps for key k
  shopper,   \* the session: "unknown" until the page has read it, then its key
  items,     \* the store: what the tab shows
  phase,     \* its status
  merged,    \* its hasMergedOnLogin
  due,       \* effects of the two hooks that have to run
  slot,      \* slot[c]: a call under way
  busy,      \* busy[v]: the item whose buttons view v disables
  unpaid,    \* an order was placed in this tab and is being paid
  strayed,   \* calls crossed, or their answer was lost, since a call last ran alone
  clicks, mishaps

storeVars == <<items, phase, merged>>
tabVars == <<kept, shopper, items, phase, merged, due, slot, busy, unpaid, strayed, clicks, mishaps>>

CartKey == {"guest", "user"}
Panel == {"drawer", "page", "other"}
Bare == [i \in Item |-> 0]
NoSlot == [at |-> "idle"]

Click == clicks < MaxClicks /\ clicks' = clicks + 1
Mishap == mishaps < MaxMishaps /\ mishaps' = mishaps + 1

(* baseOptions: until the session is read, a customer is a guest. *)
KeyOf(s) == IF s = "user" THEN "user" ELSE "guest"

(* The carts may come from another browser, the flag from an earlier session of this one. *)
TabInit ==
  /\ kept \in [CartKey -> {Bare, [i \in Item |-> 1]}]
  /\ shopper = "unknown"
  /\ items = Bare /\ phase = "idle" /\ merged \in BOOLEAN
  /\ due = {}
  /\ slot = [c \in Slot |-> NoSlot]
  /\ busy = [v \in Panel |-> NoItem]
  /\ unpaid = FALSE /\ strayed = FALSE
  /\ clicks = 0 /\ mishaps = 0
--------------------------------------------------------------------------------
(* The store. *)

(* Mutant: a line the answer does not have stays. *)
HydrateKeeping(view) ==
  /\ items' = [i \in Item |-> IF view[i] = 0 THEN items[i] ELSE view[i]]
  /\ phase' = "ready"

Hydrate(view) == items' = view /\ phase' = "ready"

(* INITIAL_STATE is without the flag too, so the merge hook runs again. *)
Reset ==
  /\ items' = Bare /\ phase' = "idle" /\ merged' = FALSE
  /\ due' = IF merged /\ shopper = "user" THEN due \union {"merge"} ELSE due
--------------------------------------------------------------------------------
(* The page and the two hooks. *)

(* A reload, or the redirect that signs in or out: localStorage keeps the items and the flag, *)
(* and calls under way go on unheard.                                                         *)
Unheard(x) ==
  IF x = NoSlot \/ x.at # "sent" \/ x.op = "get" THEN NoSlot ELSE [x EXCEPT !.heard = FALSE]

LeavePage ==
  /\ shopper' = "unknown" /\ phase' = "idle" /\ due' = {} /\ unpaid' = FALSE
  /\ busy' = [v \in Panel |-> NoItem]

LoadPage ==
  /\ Click
  /\ LeavePage
  /\ slot' = [c \in Slot |-> Unheard(slot[c])]
  /\ UNCHANGED <<kept, items, merged, strayed, mishaps>>

LearnShopper(k) ==
  /\ shopper = "unknown"
  /\ shopper' = k
  /\ due' = IF k = "user" /\ ~merged THEN {"get", "merge"} ELSE {"get"}
  /\ UNCHANGED <<kept, storeVars, slot, busy, unpaid, strayed, clicks, mishaps>>

(* The cleanup of the effects: nobody hears the answers of their calls. *)
CleanUp ==
  /\ slot' = [c \in Slot |-> IF slot[c] # NoSlot /\ slot[c].op \in {"get", "merge"}
                             THEN Unheard(slot[c]) ELSE slot[c]]
  /\ strayed' = (strayed \/ \E c \in Slot : slot[c].at = "served" /\ slot[c].op = "merge")

(* A new access token: the key is the same, so only the merge is asked for again. *)
RenewToken ==
  /\ shopper = "user"
  /\ Mishap
  /\ CleanUp
  /\ due' = IF merged THEN due ELSE due \union {"merge"}
  /\ UNCHANGED <<kept, shopper, storeVars, busy, unpaid, clicks>>

(* The customer signed in or out in another tab, of which SessionProvider hears. *)
ChangeShopper(k) ==
  /\ shopper \in CartKey \ {k}
  /\ Mishap
  /\ shopper' = k
  /\ CleanUp
  /\ due' = IF k = "user" /\ ~merged THEN {"get", "merge"} ELSE {"get"}
  /\ UNCHANGED <<kept, storeVars, busy, unpaid, clicks>>

Crossed(x) == IF x = NoSlot THEN NoSlot ELSE [x EXCEPT !.alone = FALSE]

(* A call begins; it runs alone when nothing else is under way till it is answered. *)
Begin(c, op, i, n, v) ==
  /\ slot[c] = NoSlot
  /\ slot' = [[d \in Slot |-> Crossed(slot[d])] EXCEPT ![c] =
       [at |-> "sent", op |-> op, item |-> i, n |-> n, by |-> v, key |-> KeyOf(shopper),
        view |-> Bare, heard |-> TRUE, alone |-> \A e \in Slot : slot[e] = NoSlot]]

Sync(c) ==
  /\ "get" \in due
  /\ due' = due \ {"get"}
  /\ phase' = "loading"
  /\ Begin(c, "get", NoItem, 0, "other")
  /\ UNCHANGED <<kept, shopper, items, merged, busy, unpaid, strayed, clicks, mishaps>>

MergeOnLogin(c) ==
  /\ "merge" \in due
  /\ due' = due \ {"merge"}
  /\ Begin(c, "merge", NoItem, 0, "other")
  /\ UNCHANGED <<kept, shopper, storeVars, busy, unpaid, strayed, clicks, mishaps>>
--------------------------------------------------------------------------------
(* The buttons. *)

Press(c, op, i, n, v) ==
  /\ Click
  /\ Begin(c, op, i, n, v)
  /\ busy' = IF v = "other" THEN busy ELSE [busy EXCEPT ![v] = i]
  /\ UNCHANGED <<kept, shopper, storeVars, due, unpaid, strayed, mishaps>>

(* The button stays enabled while its call is under way. *)
PressAdd(c, i) == Press(c, "add", i, 1, "other")

(* One more or one less than what is shown. *)
StepQuantity(c, i, v) ==
  /\ items[i] > 0 /\ busy[v] # i
  /\ \/ Press(c, "set", i, items[i] - 1, v)
     \/ items[i] < MaxUnits /\ Press(c, "set", i, items[i] + 1, v)

(* On the page the button is not disabled. *)
RemoveLine(c, i, v) ==
  /\ items[i] > 0 /\ (v = "drawer" => busy[v] # i)
  /\ Press(c, "remove", i, 0, v)

ClearCart(c) == items # Bare /\ Press(c, "clear", NoItem, 0, "other")

(* Confirmed in the dialog; with an empty cart it only loads the page again. *)
SwitchCurrency(c) == items # Bare /\ Press(c, "switch", NoItem, 0, "other")

(* The checkout deletes the cart; the tab empties the store when the order is confirmed. *)
OrderPlaced ==
  /\ shopper = "user" /\ kept["user"] # Bare
  /\ Click
  /\ kept' = [kept EXCEPT !["user"] = Bare]
  /\ slot' = [c \in Slot |-> Crossed(slot[c])]
  /\ unpaid' = TRUE /\ strayed' = TRUE
  /\ UNCHANGED <<shopper, storeVars, due, busy, mishaps>>

SeeConfirmed ==
  /\ unpaid /\ unpaid' = FALSE
  /\ Reset
  /\ UNCHANGED <<kept, shopper, slot, busy, strayed, clicks, mishaps>>
--------------------------------------------------------------------------------
(* The order service. *)

Accepted(x) ==
  CASE x.op = "add"              -> kept[x.key][x.item] < MaxUnits
    [] x.op \in {"set", "remove"} -> kept[x.key][x.item] > 0
    [] OTHER                     -> TRUE

After(x) ==
  CASE x.op = "add"    -> [kept EXCEPT ![x.key][x.item] = @ + 1]
    [] x.op = "set"    -> [kept EXCEPT ![x.key][x.item] = x.n]
    [] x.op = "remove" -> [kept EXCEPT ![x.key][x.item] = 0]
    [] x.op \in {"clear", "switch"} -> [kept EXCEPT ![x.key] = Bare]
    [] x.op = "merge"  -> [guest |-> Bare,
                           user |-> [i \in Item |-> kept["guest"][i] + kept["user"][i]]]
    [] x.op = "get"    -> kept

(* A merge keeps no more than MaxUnits: a bound. *)
Grant(c) ==
  LET x == slot[c]
      after == After(x)
  IN
    /\ x.at = "sent" /\ Accepted(x)
    /\ \A k \in CartKey, i \in Item : after[k][i] <= MaxUnits
    /\ kept' = after
    /\ slot' = [slot EXCEPT ![c] = IF x.heard THEN [x EXCEPT !.at = "served", !.view = after[x.key]]
                                   ELSE NoSlot]
    /\ strayed' = (strayed \/ ~x.heard)
    /\ UNCHANGED <<shopper, storeVars, due, busy, unpaid, clicks, mishaps>>

(* Refused by the cart, the catalog or the gateway; or it never arrives. *)
Refuse(c) ==
  /\ slot[c].at = "sent"
  /\ slot' = [slot EXCEPT ![c] = IF slot[c].heard THEN [slot[c] EXCEPT !.at = "refused"] ELSE NoSlot]
  /\ UNCHANGED <<kept, shopper, storeVars, due, busy, unpaid, strayed, clicks, mishaps>>

LoseAnswer(c) ==
  /\ slot[c].at = "served"
  /\ Mishap
  /\ slot' = [slot EXCEPT ![c].at = "refused"]
  /\ strayed' = TRUE
  /\ UNCHANGED <<kept, shopper, storeVars, due, busy, unpaid, clicks>>
--------------------------------------------------------------------------------
(* The answers. *)

(* The finally of a button clears its view's busySkuId, whichever item that is. *)
Free(v) == busy' = [busy EXCEPT ![v] = NoItem]

Hear(c) ==
  LET x == slot[c] IN
    /\ x.at = "served"
    /\ CASE x.op = "clear" ->
              /\ Reset /\ Free(x.by)
              /\ slot' = [slot EXCEPT ![c] = NoSlot]
              /\ UNCHANGED <<shopper, unpaid, strayed>>
         [] x.op = "switch" ->
              /\ items' = Bare /\ merged' = FALSE
              /\ LeavePage
              /\ slot' = [[d \in Slot |-> Unheard(slot[d])] EXCEPT ![c] = NoSlot]
              /\ UNCHANGED strayed
         [] OTHER ->
              /\ Hydrate(x.view) /\ Free(x.by)
              /\ merged' = (merged \/ x.op = "merge")
              /\ slot' = [slot EXCEPT ![c] = NoSlot]
              /\ strayed' = ~x.alone
              /\ UNCHANGED <<shopper, due, unpaid>>
    /\ UNCHANGED <<kept, clicks, mishaps>>

(* A failed read or add is shown; a failed merge counts as merged; nobody catches the rest. *)
HearRefusal(c) ==
  LET x == slot[c] IN
    /\ x.at = "refused"
    /\ phase' = IF x.op \in {"get", "add"} THEN "error" ELSE phase
    /\ merged' = (merged \/ x.op = "merge")
    /\ Free(x.by)
    /\ slot' = [slot EXCEPT ![c] = NoSlot]
    /\ UNCHANGED <<kept, shopper, items, due, unpaid, strayed, clicks, mishaps>>

TabNext ==
  \/ LoadPage \/ RenewToken \/ OrderPlaced \/ SeeConfirmed
  \/ \E k \in CartKey : LearnShopper(k) \/ ChangeShopper(k)
  \/ \E c \in Slot :
       \/ Sync(c) \/ MergeOnLogin(c) \/ ClearCart(c) \/ SwitchCurrency(c)
       \/ \E i \in Item :
            \/ PressAdd(c, i)
            \/ \E v \in {"drawer", "page"} : StepQuantity(c, i, v) \/ RemoveLine(c, i, v)
       \/ Grant(c) \/ Refuse(c) \/ LoseAnswer(c) \/ Hear(c) \/ HearRefusal(c)

TabSpec == TabInit /\ [][TabNext]_tabVars
--------------------------------------------------------------------------------
Cart == [Item -> Nat]
CallOp == {"get", "merge", "add", "set", "remove", "clear", "switch"}
TabCall == [at : {"sent", "served", "refused"}, op : CallOp, item : Item \union {NoItem}, n : Nat,
            by : Panel, key : CartKey, view : Cart, heard : BOOLEAN, alone : BOOLEAN]

(* Type correctness of the tab, with what the calls about one item and the answers fix. *)
TabTypeOK ==
  /\ kept \in [CartKey -> Cart]
  /\ shopper \in CartKey \union {"unknown"}
  /\ items \in Cart /\ phase \in {"idle", "loading", "ready", "error"} /\ merged \in BOOLEAN
  /\ due \subseteq {"get", "merge"}
  /\ slot \in [Slot -> {NoSlot} \union TabCall]
  /\ \A c \in Slot : /\ slot[c] # NoSlot /\ slot[c].op \in {"add", "set", "remove"} => slot[c].item \in Item
                     /\ slot[c].at \in {"served", "refused"} => slot[c].heard
  /\ busy \in [Panel -> Item \union {NoItem}]
  /\ unpaid \in BOOLEAN /\ strayed \in BOOLEAN
  /\ clicks \in 0..MaxClicks /\ mishaps \in 0..MaxMishaps

Calm == due = {} /\ \A c \in Slot : slot[c] = NoSlot

(* "Server is the source of truth" (lib/store/cart-store.ts:40): when nothing is under way and *)
(* the store is ready, it shows the cart kept for its customer, unless calls crossed, an       *)
(* answer was lost or the cart was ordered, and no call has run alone since.                   *)
RestingCartIsTrue == Calm /\ phase = "ready" /\ ~strayed => items = kept[KeyOf(shopper)]
================================================================================
