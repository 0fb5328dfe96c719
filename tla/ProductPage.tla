------------------------------- MODULE ProductPage -------------------------------
(***************************************************************************)
(* The product pages a customer has open in the tabs of one browser, and     *)
(* the currency their prices are in.  The choice of a currency is kept       *)
(* twice: a cookie for the server that renders the prices, localStorage for  *)
(* the switcher in the header.  The cart has a currency too, which the order *)
(* service locks while the cart is not empty; a tab knows it from the last   *)
(* answer it heard, or from what a tab left in localStorage.                 *)
(*                                                                         *)
(* CartTab has the lines of the cart and the order of the answers.           *)
(***************************************************************************)
EXTENDS Naturals

CONSTANTS
  Tab, NoTab,
  Currency, NoCurrency,
  Default,              \* DEFAULT_CURRENCY
  Sku,                  \* the variants of the product, in the order the catalog lists them
  Price,                \* Price[s]: the currencies s has a price in
  InStock,              \* the variants with stock left
  Attribute,            \* the attributes of the variants, or only their code if they have none
  Look,                 \* Look[s][a]: the value of attribute a of s
  MaxMoves              \* bound: what the customer does, and cookies that lapse

ASSUME ProductPageAssumption ==
  /\ NoTab \notin Tab
  /\ NoCurrency \notin Currency /\ Default \in Currency
  /\ Sku \subseteq Nat /\ Sku # {}
  /\ Price \in [Sku -> SUBSET Currency] /\ InStock \subseteq Sku
  /\ MaxMoves \in Nat

VARIABLES
  jar,         \* the cookie jcool_currency
  remembered,  \* jcool.currency in localStorage
  cart,        \* the currency the cart is locked to; none while it is empty
  cached,      \* the currency of the cart jcool.cart in localStorage shows
  calls,       \* adds and clears under way
  priced,      \* priced[t]: the currency of the page in t; none while t is closed
  switcher,    \* switcher[t]: the currency its switcher marks
  shows,       \* shows[t]: the currency of the cart it shows; none when that is empty
  unsynced,    \* tabs whose first GET /cart is not answered
  picked,      \* picked[t]: selectedSkuId
  wanted,      \* wanted[t][a]: the value of a last clicked in t
  asks,        \* asks[t]: the currency its dialog asks about
  overtaken,   \* tabs open since before another one chose a currency
  slips,       \* how the cart and the choice may have come apart
  moves

tabVariables == <<priced, switcher, shows, unsynced, picked, wanted, asks, overtaken>>
pageVars == <<jar, remembered, cart, cached, calls, tabVariables, slips, moves>>

Open(t) == priced[t] # NoCurrency
Move == moves < MaxMoves /\ moves' = moves + 1
None == [a \in Attribute |-> {}]

OrDefault(c) == IF c = NoCurrency THEN Default ELSE c
Chosen == OrDefault(jar)
--------------------------------------------------------------------------------
(* What the page offers. *)

FirstOf(S) == CHOOSE s \in S : \A r \in S : s <= r
Purchasable(c) == {s \in Sku : c \in Price[s]}
DefaultSku(c) == FirstOf(IF Purchasable(c) = {} THEN Sku ELSE Purchasable(c))

(* The button adds the variant picked if it has a price, and else the first that has one. *)
Target(t) ==
  IF picked[t] \in Purchasable(priced[t]) THEN picked[t] ELSE FirstOf(Purchasable(priced[t]))

PageInit ==
  /\ jar = NoCurrency /\ remembered = NoCurrency
  /\ cart = NoCurrency /\ cached = NoCurrency
  /\ calls = {}
  /\ priced = [t \in Tab |-> NoCurrency]
  /\ switcher = [t \in Tab |-> Default]
  /\ shows = [t \in Tab |-> NoCurrency]
  /\ unsynced = {}
  /\ picked = [t \in Tab |-> DefaultSku(Default)]
  /\ wanted = [t \in Tab |-> None]
  /\ asks = [t \in Tab |-> NoCurrency]
  /\ overtaken = {}
  /\ slips = {}
  /\ moves = 0

(* The page of the product is rendered anew in t. *)
Render(t, c) ==
  /\ priced' = [priced EXCEPT ![t] = c]
  /\ picked' = [picked EXCEPT ![t] = DefaultSku(c)]
  /\ wanted' = [wanted EXCEPT ![t] = None]

(* A document is loaded in t: its stores start from localStorage, nobody hears its old calls. *)
LoadDocument(t, c, choice, leftover) ==
  /\ Render(t, c)
  /\ switcher' = [switcher EXCEPT ![t] = OrDefault(choice)]
  /\ shows' = [shows EXCEPT ![t] = leftover]
  /\ unsynced' = unsynced \union {t}
  /\ asks' = [asks EXCEPT ![t] = NoCurrency]
  /\ calls' = {IF x.by = t THEN [x EXCEPT !.by = NoTab] ELSE x : x \in calls}

Visit(t) ==
  /\ Move
  /\ LoadDocument(t, Chosen, remembered, cached)
  /\ overtaken' = overtaken \ {t}
  /\ UNCHANGED <<jar, remembered, cart, cached, slips>>

(* A link to another product: the server reads the cookie again, or the router has kept a page *)
(* rendered before; the stores stay.                                                           *)
Follow(t) ==
  /\ Open(t) /\ asks[t] = NoCurrency
  /\ Move
  /\ \E c \in {Chosen, priced[t]} : Render(t, c)
  /\ UNCHANGED <<jar, remembered, cart, cached, calls, switcher, shows, unsynced, asks, overtaken, slips>>

Show(t, c) == shows' = [shows EXCEPT ![t] = c] /\ cached' = c

(* The answer to useCartSync's GET. *)
Synced(t) ==
  /\ t \in unsynced
  /\ unsynced' = unsynced \ {t}
  /\ Show(t, cart)
  /\ UNCHANGED <<jar, remembered, cart, calls, priced, switcher, picked, wanted, asks, overtaken, slips, moves>>
--------------------------------------------------------------------------------
(* The chips of VariantSelector, one for every value of an attribute: skus.find picks the first *)
(* variant with that value, whatever its other values.                                          *)
PickValue(t, a, v) ==
  LET s == FirstOf({r \in Sku : Look[r][a] = v}) IN
    /\ Open(t) /\ asks[t] = NoCurrency
    /\ s \in InStock
    /\ Move
    /\ picked' = [picked EXCEPT ![t] = s]
    /\ wanted' = [wanted EXCEPT ![t][a] = {v}]
    /\ UNCHANGED <<jar, remembered, cart, cached, calls, priced, switcher, shows, unsynced, asks,
                   overtaken, slips>>
--------------------------------------------------------------------------------
(* AddToCartButton and the cart. *)

ClickAdd(t) ==
  /\ Open(t) /\ asks[t] = NoCurrency
  /\ Purchasable(priced[t]) # {} /\ Target(t) \in InStock
  /\ Move
  /\ calls' = calls \union {[op |-> "add", by |-> t, currency |-> priced[t], at |-> "sent"]}
  /\ slips' = IF priced[t] = Chosen THEN slips ELSE slips \union {"oldPage"}
  /\ UNCHANGED <<jar, remembered, cart, cached, tabVariables>>

Answered(x) == [x EXCEPT !.at = "answered"]
Finish(x) == calls' = calls \ {x}

ServeAdd(x) ==
  /\ x.op = "add" /\ x.at = "sent"
  /\ cart \in {NoCurrency, x.currency}
  /\ cart' = x.currency
  /\ calls' = (calls \ {x}) \union {Answered(x)}
  /\ UNCHANGED <<jar, remembered, cached, tabVariables, slips, moves>>

HearAdd(x) ==
  /\ x.op = "add" /\ x.at = "answered"
  /\ Finish(x)
  /\ IF x.by = NoTab THEN UNCHANGED <<shows, cached>> ELSE Show(x.by, x.currency)
  /\ UNCHANGED <<jar, remembered, cart, priced, switcher, unsynced, picked, wanted, asks, overtaken,
                 slips, moves>>

(* Another currency than the cart's, any other refusal, or a lost answer: setStatus writes what *)
(* this tab shows to localStorage.                                                              *)
AddFails(x) ==
  /\ x.op = "add"
  /\ Finish(x)
  /\ cached' = IF x.by = NoTab THEN cached ELSE shows[x.by]
  /\ UNCHANGED <<jar, remembered, cart, tabVariables, slips, moves>>

(* The last line is removed, the cart cleared or ordered, in a tab or a browser that hears of it. *)
EmptyCart(t) ==
  /\ Open(t) /\ asks[t] = NoCurrency
  /\ shows[t] # NoCurrency
  /\ Move
  /\ cart' = NoCurrency
  /\ Show(t, NoCurrency)
  /\ UNCHANGED <<jar, remembered, calls, priced, switcher, unsynced, picked, wanted, asks, overtaken, slips>>
--------------------------------------------------------------------------------
(* CurrencySwitcher. *)

(* The cart has, or will have, another currency than next, and a tab that shows seen cannot tell. *)
Overlooked(seen, next) ==
  \/ cart \notin {NoCurrency, next, seen}
  \/ \E x \in calls : x.op = "add" /\ x.at = "sent" /\ x.currency # next

SetCurrency(next) == jar' = next /\ remembered' = next

(* setCurrency, and the page loads again. *)
Choose(t, next, seen, leftover) ==
  /\ SetCurrency(next)
  /\ LoadDocument(t, OrDefault(jar'), remembered', leftover)
  /\ overtaken' = Tab \ {t}
  /\ slips' = IF Overlooked(seen, next) THEN slips \union {"unseen"} ELSE slips

(* Mutant: the dialog is left out. *)
SelectAtOnce(t, next) ==
  /\ Open(t) /\ asks[t] = NoCurrency
  /\ next # switcher[t]
  /\ Move
  /\ Choose(t, next, shows[t], cached)
  /\ UNCHANGED <<cart, cached>>

(* The dialog only opens when the tab shows a cart in another currency. *)
Select(t, next) ==
  /\ Open(t) /\ asks[t] = NoCurrency
  /\ next # switcher[t]
  /\ Move
  /\ IF shows[t] \in {NoCurrency, next}
     THEN Choose(t, next, shows[t], cached)
     ELSE /\ asks' = [asks EXCEPT ![t] = next]
          /\ UNCHANGED <<jar, remembered, calls, priced, switcher, shows, unsynced, picked, wanted,
                         overtaken, slips>>
  /\ UNCHANGED <<cart, cached>>

Cancel(t) ==
  /\ asks[t] # NoCurrency
  /\ asks' = [asks EXCEPT ![t] = NoCurrency]
  /\ UNCHANGED <<jar, remembered, cart, cached, calls, priced, switcher, shows, unsynced, picked, wanted,
                 overtaken, slips, moves>>

(* The dialog stays open, and can be cancelled, while the clear is under way. *)
Confirm(t) ==
  /\ asks[t] # NoCurrency
  /\ Move
  /\ calls' = calls \union {[op |-> "clear", by |-> t, currency |-> asks[t], at |-> "sent"]}
  /\ UNCHANGED <<jar, remembered, cart, cached, tabVariables, slips>>

ServeClear(x) ==
  /\ x.op = "clear" /\ x.at = "sent"
  /\ cart' = NoCurrency
  /\ calls' = (calls \ {x}) \union {Answered(x)}
  /\ UNCHANGED <<jar, remembered, cached, tabVariables, slips, moves>>

(* confirmSwitch goes on. *)
HearClear(x) ==
  /\ x.op = "clear" /\ x.at = "answered" /\ x.by # NoTab
  /\ cached' = NoCurrency
  /\ Choose(x.by, x.currency, NoCurrency, NoCurrency)
  /\ UNCHANGED <<cart, moves>>

(* The await throws, or nobody awaits it any more. *)
ClearFails(x) ==
  /\ x.op = "clear"
  /\ Finish(x)
  /\ UNCHANGED <<jar, remembered, cart, cached, tabVariables, slips, moves>>

(* The cookie's year is over, or the browser caps it; localStorage stays. *)
Lapse ==
  /\ jar # NoCurrency
  /\ Move
  /\ jar' = NoCurrency
  /\ slips' = slips \union {"lapsed"}
  /\ UNCHANGED <<remembered, cart, cached, calls, tabVariables>>

PageNext ==
  \/ \E t \in Tab :
       \/ Visit(t) \/ Follow(t) \/ Synced(t)
       \/ \E a \in Attribute : \E s \in Sku : PickValue(t, a, Look[s][a])
       \/ ClickAdd(t) \/ EmptyCart(t)
       \/ \E next \in Currency : Select(t, next)
       \/ Cancel(t) \/ Confirm(t)
  \/ \E x \in calls :
       \/ ServeAdd(x) \/ HearAdd(x) \/ AddFails(x)
       \/ ServeClear(x) \/ HearClear(x) \/ ClearFails(x)
  \/ Lapse

PageSpec == PageInit /\ [][PageNext]_pageVars
--------------------------------------------------------------------------------
Call ==
  [op : {"add", "clear"}, by : Tab \union {NoTab}, currency : Currency, at : {"sent", "answered"}]

(* Type correctness. *)
PageTypeOK ==
  /\ jar \in Currency \union {NoCurrency} /\ remembered \in Currency \union {NoCurrency}
  /\ cart \in Currency \union {NoCurrency} /\ cached \in Currency \union {NoCurrency}
  /\ calls \subseteq Call
  /\ priced \in [Tab -> Currency \union {NoCurrency}] /\ switcher \in [Tab -> Currency]
  /\ shows \in [Tab -> Currency \union {NoCurrency}] /\ asks \in [Tab -> Currency \union {NoCurrency}]
  /\ unsynced \subseteq Tab /\ overtaken \subseteq Tab
  /\ picked \in [Tab -> Sku]
  /\ slips \subseteq {"oldPage", "unseen", "lapsed"}
  /\ moves \in 0..MaxMoves

(* "Cart: Single-currency (switching currency clears cart)" (docs/system-architecture.md:530): *)
(* the cart is in the currency chosen, in however many tabs the customer adds and switches,    *)
(* unless a switch overlooked a cart its tab had not heard of or an add still under way, an    *)
(* add came from a page older than the choice, or the cookie lapsed.                           *)
CartFollowsTheChoice == slips = {} => cart \in {NoCurrency, Chosen}

(* The switcher names the currency of the prices below it, which the server took from another *)
(* place, unless another tab has chosen since the document was loaded or the cookie lapsed.    *)
SwitcherNamesThePrices ==
  \A t \in Tab : Open(t) /\ t \notin overtaken /\ "lapsed" \notin slips => priced[t] = switcher[t]

(* "Picks variants by SKU attributes when present (e.g. {size, color})"                       *)
(* (components/variant-selector.tsx:13): while some variant has every value last clicked, the  *)
(* one picked has them.                                                                        *)
ChipsAddUp ==
  \A t \in Tab :
    LET fits(s) == \A a \in Attribute : wanted[t][a] \subseteq {Look[s][a]}
    IN (\E s \in Sku : fits(s)) => fits(picked[t])
================================================================================
