----------------------------- MODULE BrowserProofs -----------------------------
(***************************************************************************)
(* Proofs about what a customer's browser holds, for any number of tabs,    *)
(* currencies, variants, clients, tokens, items and calls.                  *)
(*                                                                         *)
(* ProductPage: the cart and the adds still to reach it are in the currency  *)
(* chosen (Following), unless a switch overlooked one of them.               *)
(*                                                                         *)
(* Sessions: unless two requests met with one token, a token that has       *)
(* bought a pair, or is about to, is blocked until it expires               *)
(* (BuyersAreSpent), and one that passed the blocklist has bought none      *)
(* (NotYetBought); so a token forks only by overlap.  An API caller keeps   *)
(* the last pair it was given, and nobody else has it (Unshared), so what   *)
(* it has in flight presents just that (InStep).                            *)
(*                                                                         *)
(* CartTab: a call that runs alone answers with the cart that is kept       *)
(* (Unmixed), and what a tab shows once all has been heard is that (Shown). *)
(***************************************************************************)
EXTENDS ProductPage, Sessions, CartTab, WellFoundedInduction, TLAPS

(* Among some variants there is a first one. *)
LEMMA FirstIsOne ==
  ASSUME NEW S, S \subseteq Sku, S # {}
  PROVE  FirstOf(S) \in S
<1>1. IsWellFoundedOn({p \in Nat \X Nat : p[1] < p[2]}, Nat)
  BY NatLessThanWellFounded DEF OpToRel
<1>2. S \subseteq Nat
  BY ProductPageAssumption
<1>3. PICK x \in S : \A y \in S : <<y, x>> \notin {p \in Nat \X Nat : p[1] < p[2]}
  BY <1>1, <1>2, WFMin
<1>4. \A m, n \in Nat : <<m, n>> \notin {p \in Nat \X Nat : p[1] < p[2]} => n <= m
  OBVIOUS
<1>5. \A y \in S : x <= y
  BY <1>2, <1>3, <1>4
<1> QED
  BY <1>5 DEF FirstOf

LEMMA DefaultIsSku == ASSUME NEW c PROVE DefaultSku(c) \in Sku
BY FirstIsOne, ProductPageAssumption DEF DefaultSku, Purchasable
--------------------------------------------------------------------------------
(* A call stays one when its tab is forgotten or its answer is given. *)
LEMMA CallChanges ==
  ASSUME NEW x \in Call
  PROVE  /\ [x EXCEPT !.by = NoTab] \in Call
         /\ [x EXCEPT !.by = NoTab].op = x.op
         /\ [x EXCEPT !.by = NoTab].at = x.at
         /\ [x EXCEPT !.by = NoTab].currency = x.currency
         /\ Answered(x) \in Call
         /\ Answered(x).at = "answered"
BY DEF Call, Answered

(* What a load of the document keeps in shape. *)
LEMMA LoadTypes ==
  ASSUME PageTypeOK, NEW t \in Tab, NEW c \in Currency, NEW choice \in Currency \union {NoCurrency},
         NEW leftover \in Currency \union {NoCurrency}, LoadDocument(t, c, choice, leftover)
  PROVE  /\ priced' \in [Tab -> Currency \union {NoCurrency}]
         /\ switcher' \in [Tab -> Currency]
         /\ shows' \in [Tab -> Currency \union {NoCurrency}]
         /\ asks' \in [Tab -> Currency \union {NoCurrency}]
         /\ unsynced' \subseteq Tab
         /\ picked' \in [Tab -> Sku]
         /\ calls' \subseteq Call
<1>1. calls' \subseteq Call
  <2> SUFFICES ASSUME NEW y \in calls'
               PROVE  y \in Call
    OBVIOUS
  <2>1. PICK x \in calls : y = IF x.by = t THEN [x EXCEPT !.by = NoTab] ELSE x
    BY DEF LoadDocument
  <2>2. x \in Call
    BY DEF PageTypeOK
  <2> QED
    BY <2>1, <2>2, CallChanges
<1>2. OrDefault(choice) \in Currency
  BY ProductPageAssumption DEF OrDefault
<1> QED
  BY <1>1, <1>2, DefaultIsSku DEF LoadDocument, Render, PageTypeOK

LEMMA ChooseTypes ==
  ASSUME PageTypeOK, NEW t \in Tab, NEW next \in Currency, NEW seen,
         NEW leftover \in Currency \union {NoCurrency}, Choose(t, next, seen, leftover)
  PROVE  /\ jar' = next /\ remembered' = next /\ OrDefault(jar') = next
         /\ LoadDocument(t, next, next, leftover)
         /\ overtaken' \subseteq Tab
         /\ slips' \subseteq {"oldPage", "unseen", "lapsed"}
<1>1. OrDefault(next) = next
  BY ProductPageAssumption DEF OrDefault
<1>2. jar' = next /\ remembered' = next
  BY DEF Choose, SetCurrency
<1>3. LoadDocument(t, next, next, leftover)
  BY <1>1, <1>2 DEF Choose
<1> QED
  BY <1>1, <1>2, <1>3 DEF Choose, PageTypeOK

LEMMA PageTypeStep == PageTypeOK /\ [PageNext]_pageVars => PageTypeOK'
<1> SUFFICES ASSUME PageTypeOK, [PageNext]_pageVars
             PROVE  PageTypeOK'
  OBVIOUS
<1> USE ProductPageAssumption DEF Move
<1>0. Chosen \in Currency
  BY DEF Chosen, OrDefault, PageTypeOK
<1>1. ASSUME NEW t \in Tab, Visit(t)
      PROVE  PageTypeOK'
  BY <1>0, <1>1, LoadTypes DEF Visit, PageTypeOK
<1>2. ASSUME NEW t \in Tab, Follow(t)
      PROVE  PageTypeOK'
  BY <1>0, <1>2, DefaultIsSku DEF Follow, Render, Open, PageTypeOK
<1>3. ASSUME NEW t \in Tab, Synced(t)
      PROVE  PageTypeOK'
  BY <1>3 DEF Synced, Show, PageTypeOK
<1>4. ASSUME NEW t \in Tab, NEW a \in Attribute, NEW s \in Sku, PickValue(t, a, Look[s][a])
      PROVE  PageTypeOK'
  BY <1>4 DEF PickValue, PageTypeOK
<1>5. ASSUME NEW t \in Tab, ClickAdd(t)
      PROVE  PageTypeOK'
  <2>1. [op |-> "add", by |-> t, currency |-> priced[t], at |-> "sent"] \in Call
    BY <1>5 DEF ClickAdd, Open, Call, PageTypeOK
  <2> QED
    BY <1>5, <2>1 DEF ClickAdd, tabVariables, PageTypeOK
<1>6. ASSUME NEW t \in Tab, EmptyCart(t)
      PROVE  PageTypeOK'
  BY <1>6 DEF EmptyCart, Show, PageTypeOK
<1>7. ASSUME NEW t \in Tab, NEW next \in Currency, Select(t, next)
      PROVE  PageTypeOK'
  <2>1. CASE Choose(t, next, shows[t], cached)
    BY <1>7, <2>1, ChooseTypes, LoadTypes DEF Select, PageTypeOK
  <2>2. CASE asks' = [asks EXCEPT ![t] = next]
    BY <1>7, <2>2 DEF Select, PageTypeOK, Choose, LoadDocument
  <2> QED
    BY <1>7, <2>1, <2>2 DEF Select
<1>8. ASSUME NEW t \in Tab, Cancel(t)
      PROVE  PageTypeOK'
  BY <1>8 DEF Cancel, PageTypeOK
<1>9. ASSUME NEW t \in Tab, Confirm(t)
      PROVE  PageTypeOK'
  <2>1. [op |-> "clear", by |-> t, currency |-> asks[t], at |-> "sent"] \in Call
    BY <1>9 DEF Confirm, Call, PageTypeOK
  <2> QED
    BY <1>9, <2>1 DEF Confirm, tabVariables, PageTypeOK
<1>10. ASSUME NEW x \in calls, ServeAdd(x) \/ ServeClear(x)
       PROVE  PageTypeOK'
  <2>1. x \in Call /\ Answered(x) \in Call
    BY CallChanges DEF PageTypeOK
  <2>2. x.currency \in Currency
    BY <2>1 DEF Call
  <2> QED
    BY <1>10, <2>1, <2>2 DEF ServeAdd, ServeClear, tabVariables, PageTypeOK
<1>11. ASSUME NEW x \in calls, HearAdd(x) \/ AddFails(x) \/ ClearFails(x)
       PROVE  PageTypeOK'
  <2>1. x.currency \in Currency /\ x.by \in Tab \union {NoTab}
    BY DEF PageTypeOK, Call
  <2>2. CASE HearAdd(x)
    BY <2>1, <2>2 DEF HearAdd, Finish, Show, tabVariables, PageTypeOK
  <2>3. CASE AddFails(x)
    BY <2>1, <2>3 DEF AddFails, Finish, Show, tabVariables, PageTypeOK
  <2>4. CASE ClearFails(x)
    BY <2>1, <2>4 DEF ClearFails, Finish, Show, tabVariables, PageTypeOK
  <2> QED
    BY <1>11, <2>2, <2>3, <2>4
<1>12. ASSUME NEW x \in calls, HearClear(x)
       PROVE  PageTypeOK'
  <2>1. x.currency \in Currency /\ x.by \in Tab
    BY <1>12 DEF HearClear, PageTypeOK, Call
  <2>2. Choose(x.by, x.currency, NoCurrency, NoCurrency) /\ UNCHANGED <<cart, moves>>
        /\ cached' = NoCurrency
    BY <1>12 DEF HearClear
  <2> QED
    BY <2>1, <2>2, ChooseTypes, LoadTypes DEF PageTypeOK
<1>13. CASE Lapse
  BY <1>13 DEF Lapse, tabVariables, PageTypeOK
<1>14. CASE UNCHANGED pageVars
  BY <1>14 DEF pageVars, tabVariables, PageTypeOK
<1> QED
  BY <1>1, <1>2, <1>3, <1>4, <1>5, <1>6, <1>7, <1>8, <1>9, <1>10, <1>11, <1>12, <1>13, <1>14
     DEF PageNext

(* The pages, the cart and the calls between them keep their shape. *)
THEOREM PageShape == PageSpec => []PageTypeOK
<1>1. PageInit => PageTypeOK
  BY ProductPageAssumption, DefaultIsSku DEF PageInit, PageTypeOK
<1> QED
  BY <1>1, PageTypeStep, PTL DEF PageSpec
--------------------------------------------------------------------------------
(* The adds that can still change the cart ask for the currency chosen, and so does the cart. *)
Following ==
  slips = {} =>
    /\ cart \in {NoCurrency, Chosen}
    /\ \A x \in calls : x.op = "add" /\ x.at = "sent" => x.currency = Chosen

(* Forgetting whose a call was changes nothing about it. *)
LEMMA LoadKeepsCalls ==
  ASSUME PageTypeOK, NEW t, NEW c, NEW choice, NEW leftover, LoadDocument(t, c, choice, leftover),
         NEW y \in calls'
  PROVE  \E x \in calls : x.op = y.op /\ x.at = y.at /\ x.currency = y.currency
<1>1. PICK x \in calls : y = IF x.by = t THEN [x EXCEPT !.by = NoTab] ELSE x
  BY DEF LoadDocument
<1>2. x \in Call
  BY DEF PageTypeOK
<1> QED
  BY <1>1, <1>2, CallChanges

(* A choice that overlooked nothing leaves nothing behind in another currency. *)
LEMMA ChooseFollows ==
  ASSUME PageTypeOK, Following, NEW t \in Tab, NEW next \in Currency,
         NEW seen \in {NoCurrency, next}, NEW leftover \in Currency \union {NoCurrency},
         Choose(t, next, seen, leftover), cart' = cart
  PROVE  Following'
<1> SUFFICES ASSUME slips' = {}
             PROVE  /\ cart' \in {NoCurrency, Chosen'}
                    /\ \A y \in calls' : y.op = "add" /\ y.at = "sent" => y.currency = Chosen'
  BY DEF Following
<1>1. ~Overlooked(seen, next)
  BY DEF Choose
<1>2. Chosen' = next /\ LoadDocument(t, next, next, leftover)
  BY ChooseTypes DEF Chosen
<1>3. cart' \in {NoCurrency, Chosen'}
  BY <1>1, <1>2 DEF Overlooked
<1>4. ASSUME NEW y \in calls', y.op = "add", y.at = "sent"
      PROVE  y.currency = Chosen'
  BY <1>1, <1>2, <1>4, LoadKeepsCalls DEF Overlooked
<1> QED
  BY <1>3, <1>4

LEMMA FollowingStep == PageTypeOK /\ Following /\ [PageNext]_pageVars => Following'
<1> SUFFICES ASSUME PageTypeOK, Following, [PageNext]_pageVars
             PROVE  Following'
  OBVIOUS
<1>1. ASSUME NEW t \in Tab, Visit(t)
      PROVE  Following'
  <2>1. LoadDocument(t, Chosen, remembered, cached) /\ UNCHANGED <<jar, cart, slips>>
    BY <1>1 DEF Visit
  <2> QED
    BY <2>1, LoadKeepsCalls DEF Following, Chosen
<1>2. ASSUME NEW t \in Tab, Follow(t) \/ Synced(t) \/ EmptyCart(t) \/ Cancel(t)
      PROVE  Following'
  BY <1>2 DEF Follow, Synced, EmptyCart, Cancel, Following, Chosen
<1>3. ASSUME NEW t \in Tab, NEW a \in Attribute, NEW s \in Sku, PickValue(t, a, Look[s][a])
      PROVE  Following'
  BY <1>3 DEF PickValue, Following, Chosen
<1>4. ASSUME NEW t \in Tab, ClickAdd(t)
      PROVE  Following'
  BY <1>4 DEF ClickAdd, Following, Chosen
<1>5. ASSUME NEW t \in Tab, NEW next \in Currency, Select(t, next)
      PROVE  Following'
  <2>1. CASE shows[t] \in {NoCurrency, next}
    <3>1. Choose(t, next, shows[t], cached) /\ UNCHANGED <<cart, cached>>
      BY <1>5, <2>1 DEF Select
    <3> QED
      BY <2>1, <3>1, ChooseFollows DEF PageTypeOK
  <2>2. CASE shows[t] \notin {NoCurrency, next}
    BY <1>5, <2>2 DEF Select, Following, Chosen
  <2> QED
    BY <2>1, <2>2
<1>6. ASSUME NEW t \in Tab, Confirm(t)
      PROVE  Following'
  BY <1>6 DEF Confirm, Following, Chosen
<1>7. ASSUME NEW x \in calls, ServeAdd(x)
      PROVE  Following'
  BY <1>7, CallChanges DEF ServeAdd, Following, Chosen, PageTypeOK
<1>8. ASSUME NEW x \in calls, ServeClear(x)
      PROVE  Following'
  BY <1>8, CallChanges DEF ServeClear, Following, Chosen, PageTypeOK
<1>9. ASSUME NEW x \in calls, HearAdd(x) \/ AddFails(x) \/ ClearFails(x)
      PROVE  Following'
  BY <1>9 DEF HearAdd, AddFails, ClearFails, Finish, Following, Chosen
<1>10. ASSUME NEW x \in calls, HearClear(x)
       PROVE  Following'
  <2>1. x.currency \in Currency /\ x.by \in Tab
    BY <1>10 DEF HearClear, PageTypeOK, Call
  <2>2. Choose(x.by, x.currency, NoCurrency, NoCurrency) /\ cart' = cart
    BY <1>10 DEF HearClear
  <2> QED
    BY <2>1, <2>2, ChooseFollows
<1>11. CASE Lapse
  BY <1>11 DEF Lapse, Following
<1>12. CASE UNCHANGED pageVars
  BY <1>12 DEF pageVars, Following, Chosen
<1> QED
  BY <1>1, <1>2, <1>3, <1>4, <1>5, <1>6, <1>7, <1>8, <1>9, <1>10, <1>11, <1>12 DEF PageNext

(* The cart is in the currency chosen, in however many tabs the customer adds and switches,  *)
(* unless a switch overlooked a cart or an add, an add came from a page older than the       *)
(* choice, or the cookie lapsed.                                                             *)
THEOREM CartFollows == PageSpec => []CartFollowsTheChoice
<1>1. PageInit => Following
  BY DEF PageInit, Following
<1>2. Following => CartFollowsTheChoice
  BY DEF Following, CartFollowsTheChoice
<1> QED
  BY <1>1, <1>2, FollowingStep, PageShape, PTL DEF PageSpec
--------------------------------------------------------------------------------
(* While the cookie has not lapsed it says what localStorage says, and a document that no    *)
(* other tab has overtaken was loaded under that choice.                                     *)
Mirrored ==
  "lapsed" \notin slips =>
    /\ OrDefault(remembered) = Chosen
    /\ \A t \in Tab : Open(t) /\ t \notin overtaken => priced[t] = Chosen /\ switcher[t] = Chosen

LEMMA ChooseMirrors ==
  ASSUME PageTypeOK, NEW t \in Tab, NEW next \in Currency, NEW seen,
         NEW leftover \in Currency \union {NoCurrency}, Choose(t, next, seen, leftover)
  PROVE  Mirrored'
<1>1. jar' = next /\ remembered' = next /\ OrDefault(next) = next
  BY ChooseTypes, ProductPageAssumption DEF OrDefault
<1>2. LoadDocument(t, next, next, leftover) /\ overtaken' = Tab \ {t}
  BY ChooseTypes DEF Choose
<1>3. priced'[t] = next /\ switcher'[t] = next
  BY <1>1, <1>2 DEF LoadDocument, Render, PageTypeOK
<1>4. Chosen' = next /\ OrDefault(remembered') = next
  BY <1>1 DEF Chosen
<1> QED
  BY <1>2, <1>3, <1>4 DEF Mirrored, OrDefault

LEMMA MirroredStep == PageTypeOK /\ Mirrored /\ [PageNext]_pageVars => Mirrored'
<1> SUFFICES ASSUME PageTypeOK, Mirrored, [PageNext]_pageVars
             PROVE  Mirrored'
  OBVIOUS
<1> USE DEF OrDefault, Open
<1>1. ASSUME NEW t \in Tab, Visit(t)
      PROVE  Mirrored'
  BY <1>1 DEF Visit, LoadDocument, Render, Mirrored, Chosen, PageTypeOK
<1>2. ASSUME NEW t \in Tab, Follow(t)
      PROVE  Mirrored'
  BY <1>2 DEF Follow, Render, Mirrored, Chosen, PageTypeOK
<1>3. ASSUME NEW t \in Tab, Synced(t) \/ EmptyCart(t) \/ Cancel(t) \/ ClickAdd(t) \/ Confirm(t)
      PROVE  Mirrored'
  BY <1>3 DEF Synced, EmptyCart, Cancel, ClickAdd, Confirm, tabVariables, Mirrored, Chosen
<1>4. ASSUME NEW t \in Tab, NEW a \in Attribute, NEW s \in Sku, PickValue(t, a, Look[s][a])
      PROVE  Mirrored'
  BY <1>4 DEF PickValue, Mirrored, Chosen
<1>5. ASSUME NEW t \in Tab, NEW next \in Currency, Select(t, next)
      PROVE  Mirrored'
  <2>1. CASE shows[t] \in {NoCurrency, next}
    BY <1>5, <2>1, ChooseMirrors DEF Select, PageTypeOK
  <2>2. CASE shows[t] \notin {NoCurrency, next}
    BY <1>5, <2>2 DEF Select, Mirrored, Chosen
  <2> QED
    BY <2>1, <2>2
<1>6. ASSUME NEW x \in calls,
             ServeAdd(x) \/ ServeClear(x) \/ HearAdd(x) \/ AddFails(x) \/ ClearFails(x)
      PROVE  Mirrored'
  BY <1>6 DEF ServeAdd, ServeClear, HearAdd, AddFails, ClearFails, tabVariables, Mirrored, Chosen
<1>7. ASSUME NEW x \in calls, HearClear(x)
      PROVE  Mirrored'
  <2>1. x.currency \in Currency /\ x.by \in Tab
    BY <1>7 DEF HearClear, PageTypeOK, Call
  <2> QED
    BY <1>7, <2>1, ChooseMirrors DEF HearClear
<1>8. CASE Lapse
  BY <1>8 DEF Lapse, Mirrored
<1>9. CASE UNCHANGED pageVars
  BY <1>9 DEF pageVars, tabVariables, Mirrored, Chosen
<1> QED
  BY <1>1, <1>2, <1>3, <1>4, <1>5, <1>6, <1>7, <1>8, <1>9 DEF PageNext

(* The switcher names the currency of the prices below it, unless another tab has chosen     *)
(* since the document was loaded or the cookie lapsed.                                       *)
THEOREM SwitcherIsRight == PageSpec => []SwitcherNamesThePrices
<1>1. PageInit => Mirrored
  BY DEF PageInit, Mirrored, Chosen, OrDefault, Open
<1>2. Mirrored => SwitcherNamesThePrices
  BY DEF Mirrored, SwitcherNamesThePrices
<1> QED
  BY <1>1, <1>2, MirroredStep, PageShape, PTL DEF PageSpec
--------------------------------------------------------------------------------
(* The type of the sessions, in four parts. *)
Pair == [user : User, parent : 0..MaxPairs, iat : 0..MaxClock]

PairsOK ==
  /\ clock \in 0..MaxClock /\ accounts \subseteq User
  /\ pairs \in Seq(Pair) /\ Len(pairs) <= MaxPairs
  /\ \A t \in Token : UserOf(t) \in accounts

KeysOK ==
  /\ blocked \in [1..MaxPairs -> Nat] /\ revoked \in [User -> Nat]
  /\ contended \subseteq Token /\ faults \in 0..MaxFaults

RequestsOK ==
  /\ pc \in [Request -> Pc]
  /\ token \in [Request -> {NoToken} \union Token] /\ answer \in [Request -> {NoToken} \union Token]
  /\ \A r \in Request : (pc[r] = "idle" <=> token[r] = NoToken) /\ (pc[r] = "granted" <=> answer[r] # NoToken)

ClientsOK ==
  /\ stored \in [Client -> {NoToken} \union Token] /\ access \in [Client -> {NoToken} \union Token]
  /\ expired \in [Client -> BOOLEAN]
  /\ \A c \in Client : (stored[c] = NoToken <=> access[c] = NoToken) /\ (expired[c] => stored[c] # NoToken)

LEMMA TypeParts == TypeOK <=> PairsOK /\ KeysOK /\ RequestsOK /\ ClientsOK
BY DEF TypeOK, PairsOK, KeysOK, RequestsOK, ClientsOK, Pair

LEMMA PairShape ==
  ASSUME PairsOK
  PROVE  /\ Len(pairs) \in Nat /\ NoToken \notin Token
         /\ \A t \in Token : /\ t \in 1..MaxPairs /\ pairs[t] \in Pair
                             /\ UserOf(t) \in User /\ RefreshExp(t) \in Nat
<1>1. Len(pairs) \in Nat /\ \A t \in 1..Len(pairs) : pairs[t] \in Pair
  BY DEF PairsOK
<1>2. NoToken \notin Token /\ \A t \in Token : t \in 1..MaxPairs /\ pairs[t] \in Pair
  BY <1>1, SessionsAssumption DEF PairsOK, Token, NoToken
<1>3. \A t \in Token : pairs[t].user \in User /\ pairs[t].iat \in Nat
  BY <1>2, SessionsAssumption DEF Pair
<1> QED
  BY <1>1, <1>2, <1>3, SessionsAssumption DEF UserOf, RefreshExp

(* Signing adds one pair, and one that was there stays as it was. *)
LEMMA Signing ==
  ASSUME PairsOK, NEW u \in User, NEW parent \in {NoToken} \union Token, SignTokenPair(u, parent)
  PROVE  LET new == Len(pairs) + 1 IN
         /\ pairs' \in Seq(Pair) /\ Len(pairs') = new /\ new <= MaxPairs
         /\ Token' = Token \union {new} /\ new \notin Token /\ new # NoToken
         /\ \A t \in Token : pairs'[t] = pairs[t]
         /\ pairs'[new] = [user |-> u, parent |-> parent, iat |-> clock]
<1> DEFINE x == [user |-> u, parent |-> parent, iat |-> clock]
<1>1. parent \in 0..MaxPairs
  BY PairShape, SessionsAssumption DEF NoToken
<1>2. x \in Pair
  BY <1>1 DEF PairsOK, Pair
<1>3. pairs' = Append(pairs, x) /\ Len(pairs) < MaxPairs
  BY DEF SignTokenPair
<1> HIDE DEF x
<1>4. pairs' \in Seq(Pair) /\ Len(pairs') = Len(pairs) + 1 /\ pairs'[Len(pairs) + 1] = x
      /\ \A t \in 1..Len(pairs) : pairs'[t] = pairs[t]
  BY <1>2, <1>3 DEF PairsOK
<1>5. Token' = 1..(Len(pairs) + 1)
  BY <1>4 DEF Token
<1> QED
  BY <1>3, <1>4, <1>5, PairShape, SessionsAssumption DEF Token, NoToken, x

LEMMA PairsStep ==
  ASSUME TypeOK, [Next]_vars
  PROVE  /\ PairsOK' /\ Token \subseteq Token'
         /\ \A t \in Token : pairs'[t] = pairs[t]
         /\ accounts \subseteq accounts' /\ clock <= clock'
<1> USE TypeParts, SessionsAssumption
<1>1. ASSUME NEW u \in User, NEW parent \in {NoToken} \union Token, SignTokenPair(u, parent),
             u \in accounts', accounts \subseteq accounts', accounts' \subseteq User, clock' = clock
      PROVE  /\ PairsOK' /\ Token \subseteq Token' /\ \A t \in Token : pairs'[t] = pairs[t]
             /\ clock <= clock'
  <2> DEFINE new == Len(pairs) + 1
  <2>1. /\ pairs' \in Seq(Pair) /\ Len(pairs') = new /\ new <= MaxPairs
        /\ Token' = Token \union {new}
        /\ \A t \in Token : pairs'[t] = pairs[t]
        /\ pairs'[new] = [user |-> u, parent |-> parent, iat |-> clock]
    BY <1>1, Signing
  <2>2. \A t \in Token' : (UserOf(t))' \in accounts'
    <3>1. \A t \in Token : pairs'[t].user \in accounts'
      BY <1>1, <2>1 DEF PairsOK, UserOf
    <3>2. pairs'[new].user = u
      BY <2>1
    <3> HIDE DEF new
    <3> QED
      BY <1>1, <2>1, <3>1, <3>2 DEF UserOf
  <2>3. clock <= clock'
    BY <1>1 DEF PairsOK
  <2> QED
    BY <1>1, <2>1, <2>2, <2>3 DEF PairsOK
<1>2. ASSUME UNCHANGED pairs, accounts \subseteq accounts', accounts' \subseteq User,
             clock <= clock', clock' \in 0..MaxClock
      PROVE  PairsOK' /\ Token \subseteq Token' /\ \A t \in Token : pairs'[t] = pairs[t]
  BY <1>2 DEF PairsOK, Token, UserOf
<1>3. CASE Tick
  BY <1>2, <1>3 DEF Tick, PairsOK
<1>4. ASSUME NEW c \in Client, Register(c)
      PROVE  /\ PairsOK' /\ Token \subseteq Token' /\ \A t \in Token : pairs'[t] = pairs[t]
             /\ accounts \subseteq accounts' /\ clock <= clock'
  BY <1>1, <1>2, <1>4 DEF Register, PairsOK
<1>5. ASSUME NEW c \in Client, SignIn(c)
      PROVE  /\ PairsOK' /\ Token \subseteq Token' /\ \A t \in Token : pairs'[t] = pairs[t]
             /\ accounts \subseteq accounts' /\ clock <= clock'
  BY <1>1, <1>5 DEF SignIn, PairsOK
<1>6. ASSUME NEW r \in Request, Sign(r)
      PROVE  /\ PairsOK' /\ Token \subseteq Token' /\ \A t \in Token : pairs'[t] = pairs[t]
             /\ accounts \subseteq accounts' /\ clock <= clock'
  <2>1. token[r] \in Token
    BY <1>6 DEF Sign, Goto, RequestsOK
  <2>2. UserOf(token[r]) \in accounts /\ UserOf(token[r]) \in User
    BY <2>1, PairShape DEF PairsOK
  <2> QED
    BY <1>1, <1>6, <2>1, <2>2 DEF Sign, PairsOK
<1>7. ASSUME UNCHANGED <<clock, accounts, pairs>>
      PROVE  /\ PairsOK' /\ Token \subseteq Token' /\ \A t \in Token : pairs'[t] = pairs[t]
             /\ accounts \subseteq accounts' /\ clock <= clock'
  BY <1>2, <1>7 DEF PairsOK
<1>8. ASSUME NEW c \in Client, SignOut(c) \/ Logout(c)
      PROVE  UNCHANGED <<clock, accounts, pairs>>
  BY <1>8 DEF SignOut, Logout
<1>9. ASSUME NEW r \in Request,
             Present(r) \/ Answer(r) \/ AnswerLost(r) \/ ServerFails(r) \/ VerifyRefresh(r)
               \/ IsUserSessionRevoked(r) \/ IsBlocked(r) \/ BlockAllForUser(r) \/ Rotate(r)
      PROVE  UNCHANGED <<clock, accounts, pairs>>
  BY <1>9 DEF Present, Answer, AnswerLost, ServerFails, VerifyRefresh, IsUserSessionRevoked, IsBlocked,
              BlockAllForUser, Rotate
<1>10. CASE UNCHANGED vars
  BY <1>7, <1>10 DEF vars
<1> QED
  BY <1>3, <1>4, <1>5, <1>6, <1>7, <1>8, <1>9, <1>10 DEF Next, Execute
(* Which actions touch what: the requests, the clients' cookies and the keys. *)
LEMMA KeysStep == ASSUME TypeOK, [Next]_vars PROVE KeysOK'
<1> USE TypeParts, SessionsAssumption
<1>0. Token \subseteq Token'
  BY PairsStep
<1>1. ASSUME UNCHANGED <<blocked, revoked, contended>>, Fault \/ UNCHANGED faults
      PROVE  KeysOK'
  BY <1>0, <1>1 DEF KeysOK, Fault
<1>2. ASSUME NEW t \in Token, Block(t)
      PROVE  blocked' \in [1..MaxPairs -> Nat]
  BY <1>2, PairShape DEF Block, KeyExpiry, KeysOK
<1>3. ASSUME NEW c \in Client, Logout(c)
      PROVE  KeysOK'
  <2>1. stored[c] \in Token
    BY <1>3 DEF Logout, ClientsOK, Client
  <2> QED
    BY <1>0, <1>2, <1>3, <2>1 DEF Logout, KeysOK, Fault
<1>4. ASSUME NEW r \in Request, Present(r)
      PROVE  KeysOK'
  <2>1. stored[Asker[r]] \in Token
    BY <1>4 DEF Present, ClientsOK
  <2> QED
    BY <1>0, <1>4, <2>1 DEF Present, KeysOK
<1>5. ASSUME NEW r \in Request, BlockAllForUser(r) \/ Rotate(r)
      PROVE  KeysOK'
  <2>1. token[r] \in Token
    BY <1>5 DEF BlockAllForUser, Rotate, Goto, RequestsOK
  <2> QED
    BY <1>0, <1>2, <1>5, <2>1, PairShape DEF BlockAllForUser, Rotate, KeyExpiry, KeysOK
<1>6. ASSUME NEW c \in Client, Register(c) \/ SignIn(c) \/ SignOut(c)
      PROVE  KeysOK'
  BY <1>1, <1>6 DEF Register, SignIn, SignOut
<1>7. ASSUME NEW r \in Request,
             VerifyRefresh(r) \/ IsUserSessionRevoked(r) \/ IsBlocked(r) \/ Sign(r)
               \/ ServerFails(r) \/ Answer(r) \/ AnswerLost(r)
      PROVE  KeysOK'
  BY <1>1, <1>7 DEF VerifyRefresh, IsUserSessionRevoked, IsBlocked, Sign, ServerFails, Answer, AnswerLost
<1>8. CASE Tick \/ UNCHANGED vars
  BY <1>1, <1>8 DEF Tick, vars
<1> QED
  BY <1>3, <1>4, <1>5, <1>6, <1>7, <1>8 DEF Next, Execute

LEMMA RequestsStep == ASSUME TypeOK, [Next]_vars PROVE RequestsOK'
<1> USE TypeParts, SessionsAssumption
<1>0. Token \subseteq Token' /\ NoToken \notin Token
  BY PairsStep, PairShape
<1>1. ASSUME UNCHANGED requestVars
      PROVE  RequestsOK'
  BY <1>0, <1>1 DEF RequestsOK, requestVars
<1>2. ASSUME NEW r \in Request, Present(r)
      PROVE  RequestsOK'
  <2>1. stored[Asker[r]] \in Token
    BY <1>2 DEF Present, ClientsOK
  <2> QED
    BY <1>0, <1>2, <2>1 DEF Present, RequestsOK, Pc, InHand
<1>3. ASSUME NEW r \in Request, NEW to \in Pc \ {"idle", "granted"}, UNCHANGED <<token, answer>>,
             pc[r] \notin {"idle", "granted"}, pc' = [pc EXCEPT ![r] = to]
      PROVE  RequestsOK'
  BY <1>0, <1>3 DEF RequestsOK
<1>4. ASSUME NEW r \in Request, Execute(r) \/ ServerFails(r), ~Sign(r)
      PROVE  RequestsOK'
  BY <1>3, <1>4 DEF Execute, VerifyRefresh, IsUserSessionRevoked, IsBlocked, BlockAllForUser, Rotate,
                    ServerFails, Goto, Pc, InHand
<1>5. ASSUME NEW r \in Request, Sign(r)
      PROVE  RequestsOK'
  <2>1. token[r] \in Token
    BY <1>5 DEF Sign, Goto, RequestsOK
  <2>2. UserOf(token[r]) \in User
    BY <2>1, PairShape
  <2>3. Len(pairs) + 1 \in Token' /\ Len(pairs) + 1 # NoToken
    BY <1>5, <2>1, <2>2, Signing DEF Sign
  <2> QED
    BY <1>0, <1>5, <2>3 DEF Sign, Goto, RequestsOK, Pc
<1>6. ASSUME NEW r \in Request, Answer(r) \/ AnswerLost(r)
      PROVE  RequestsOK'
  <2>1. Return(r)
    BY <1>6 DEF Answer, AnswerLost
  <2> QED
    BY <1>0, <2>1 DEF Return, RequestsOK, Pc
<1>7. ASSUME NEW c \in Client, Register(c) \/ SignIn(c) \/ SignOut(c) \/ Logout(c)
      PROVE  RequestsOK'
  BY <1>1, <1>7 DEF Register, SignIn, SignOut, Logout
<1>8. CASE Tick \/ UNCHANGED vars
  BY <1>1, <1>8 DEF Tick, vars
<1> QED
  BY <1>2, <1>4, <1>5, <1>6, <1>7, <1>8 DEF Next, Execute

LEMMA ClientsStep == ASSUME TypeOK, [Next]_vars PROVE ClientsOK'
<1> USE TypeParts, SessionsAssumption
<1>0. Token \subseteq Token' /\ NoToken \notin Token
  BY PairsStep, PairShape
<1>1. ASSUME UNCHANGED clientVars
      PROVE  ClientsOK'
  BY <1>0, <1>1 DEF ClientsOK, clientVars
<1>2. ASSUME NEW c \in Client, Register(c)
      PROVE  ClientsOK'
  <2>1. Owner[c] \in User
    OBVIOUS
  <2>2. CASE UNCHANGED pairs
    BY <1>0, <1>2, <2>2 DEF Register, ClientsOK
  <2>3. CASE SignTokenPair(Owner[c], NoToken)
    <3>1. Len(pairs') \in Token' /\ Len(pairs') # NoToken
      BY <2>1, <2>3, Signing
    <3> QED
      BY <1>0, <1>2, <3>1 DEF Register, ClientsOK
  <2> QED
    BY <1>2, <2>2, <2>3 DEF Register
<1>3. ASSUME NEW c \in Client, SignIn(c)
      PROVE  ClientsOK'
  <2>1. Len(pairs) + 1 \in Token' /\ Len(pairs) + 1 # NoToken
    BY <1>3, Signing DEF SignIn
  <2> QED
    BY <1>0, <1>3, <2>1 DEF SignIn, ClientsOK
<1>4. ASSUME NEW c \in Client, SignOut(c) \/ Logout(c)
      PROVE  ClientsOK'
  BY <1>0, <1>4 DEF SignOut, Logout, ClientsOK
<1>5. ASSUME NEW r \in Request, Answer(r)
      PROVE  ClientsOK'
  <2> DEFINE c == Asker[r]
  <2>1. CASE pc[r] = "granted" /\ stored[c] # NoToken
    <3>1. /\ stored' = [stored EXCEPT ![c] = KeepsRefresh(c, @, answer[r])]
          /\ access' = [access EXCEPT ![c] = answer[r]]
          /\ expired' = [expired EXCEPT ![c] = FALSE]
      BY <1>5, <2>1 DEF Answer
    <3>2. c \in Client /\ answer[r] \in Token
      BY <2>1 DEF RequestsOK
    <3>3. KeepsRefresh(c, stored[c], answer[r]) \in Token
      BY <2>1, <3>2 DEF KeepsRefresh, ClientsOK
    <3> QED
      BY <1>0, <3>1, <3>2, <3>3 DEF ClientsOK
  <2>2. CASE ~(pc[r] = "granted" /\ stored[c] # NoToken)
    <3>1. expired' = [expired EXCEPT ![c] = stored[c] # NoToken] /\ UNCHANGED <<stored, access>>
      BY <1>5, <2>2 DEF Answer
    <3> QED
      BY <1>0, <3>1 DEF ClientsOK
  <2> QED
    BY <2>1, <2>2
<1>6. ASSUME NEW r \in Request, AnswerLost(r)
      PROVE  ClientsOK'
  BY <1>0, <1>6 DEF AnswerLost, ClientsOK
<1>7. ASSUME NEW r \in Request, Present(r) \/ Execute(r) \/ ServerFails(r)
      PROVE  ClientsOK'
  BY <1>1, <1>7 DEF Present, Execute, VerifyRefresh, IsUserSessionRevoked, IsBlocked, BlockAllForUser,
                    Rotate, Sign, ServerFails
<1>8. CASE Tick \/ UNCHANGED vars
  BY <1>1, <1>8 DEF Tick, vars
<1> QED
  BY <1>2, <1>3, <1>4, <1>5, <1>6, <1>7, <1>8 DEF Next
(* Tokens, requests and clients' sessions keep their shape. *)
THEOREM SessionShape == Spec => []TypeOK
<1>1. Init => TypeOK
  <2> HAVE Init
  <2>1. Token = {}
    BY DEF Init, Token
  <2>2. PairsOK
    BY <2>1, SessionsAssumption DEF Init, PairsOK
  <2>3. KeysOK
    BY SessionsAssumption DEF Init, KeysOK
  <2>4. RequestsOK
    BY DEF Init, RequestsOK, Pc
  <2>5. ClientsOK
    BY DEF Init, ClientsOK
  <2> QED
    BY <2>2, <2>3, <2>4, <2>5, TypeParts
<1>2. TypeOK /\ [Next]_vars => TypeOK'
  BY PairsStep, KeysStep, RequestsStep, ClientsStep
     DEF TypeOK, PairsOK, KeysOK, RequestsOK, ClientsOK, Pair
<1> QED
  BY <1>1, <1>2, PTL DEF Spec
--------------------------------------------------------------------------------
(* A token that can no longer buy: it has expired, or its key lives as long as it does. *)
Spent(t) == clock >= RefreshExp(t) \/ blocked[t] = RefreshExp(t)

(* Two requests with one token in flight are an overlap.                                     *)
Apart == \A r, q \in Request : r # q /\ token[r] # NoToken /\ token[r] = token[q] => token[r] \in contended

(* Without an overlap a token that has bought is spent, and so is one that is about to.      *)
BuyersAreSpent ==
  /\ \A i \in Token : /\ pairs[i].parent \in Token \union {NoToken}
                      /\ pairs[i].parent # NoToken /\ pairs[i].parent \notin contended => Spent(pairs[i].parent)
  /\ \A r \in Request : pc[r] = "rotated" => Spent(token[r])

(* A request that passed the blocklist holds a token that has not bought before it expired.  *)
NotYetBought ==
  \A r \in Request : pc[r] \in {"fresh", "rotated"} /\ token[r] \notin contended =>
    \A i \in Token : pairs[i].parent = token[r] => clock >= RefreshExp(token[r])

Forking == Apart /\ BuyersAreSpent /\ NotYetBought /\ OnlyOverlapForks

LEMMA HeldIsToken ==
  ASSUME TypeOK, NEW r \in Request, pc[r] # "idle" PROVE token[r] \in Token
BY DEF TypeOK

LEMMA ContendedGrows == [Next]_vars => contended \subseteq contended'
<1>1. ASSUME NEW c \in Client, Register(c) \/ SignIn(c) \/ SignOut(c) \/ Logout(c)
      PROVE  contended \subseteq contended'
  BY <1>1 DEF Register, SignIn, SignOut, Logout
<1>2. ASSUME NEW r \in Request,
             Present(r) \/ Execute(r) \/ ServerFails(r) \/ Answer(r) \/ AnswerLost(r)
      PROVE  contended \subseteq contended'
  BY <1>2 DEF Present, Answer, AnswerLost, ServerFails, Execute, VerifyRefresh, IsUserSessionRevoked,
              IsBlocked, BlockAllForUser, Rotate, Sign
<1> QED
  BY <1>1, <1>2 DEF Next, Tick, vars

LEMMA BlockSpends ==
  ASSUME TypeOK, NEW t \in Token, Block(t), UNCHANGED <<clock, pairs>>
  PROVE  Spent(t)' /\ \A s \in Token : Spent(s) => Spent(s)'
<1>1. RefreshExp(t) \in Nat /\ t \in DOMAIN blocked
  BY TypeParts, PairShape DEF KeysOK
<1>2. \A s \in Token : RefreshExp(s)' = RefreshExp(s) /\ clock' = clock
  BY DEF RefreshExp
<1> QED
  BY <1>1, <1>2 DEF Block, KeyExpiry, Spent, TypeOK

(* Once spent, a token stays spent. *)
LEMMA SpentStays == ASSUME TypeOK, [Next]_vars PROVE \A t \in Token : Spent(t) => Spent(t)'
<1> USE SessionsAssumption
<1>1. ASSUME UNCHANGED blocked
      PROVE  \A t \in Token : Spent(t) => Spent(t)'
  <2>1. \A t \in Token : RefreshExp(t)' = RefreshExp(t) /\ RefreshExp(t) \in Nat
    BY PairsStep, TypeParts, PairShape DEF RefreshExp
  <2>2. clock <= clock' /\ clock \in Nat /\ clock' \in Nat
    BY PairsStep, TypeParts DEF PairsOK
  <2> QED
    BY <1>1, <2>1, <2>2 DEF Spent
<1>2. ASSUME NEW c \in Client, Logout(c)
      PROVE  \A t \in Token : Spent(t) => Spent(t)'
  <2>1. stored[c] \in Token
    BY <1>2, TypeParts DEF Logout, ClientsOK
  <2> QED
    BY <1>1, <1>2, <2>1, BlockSpends DEF Logout
<1>3. ASSUME NEW r \in Request, Rotate(r)
      PROVE  \A t \in Token : Spent(t) => Spent(t)'
  <2>1. token[r] \in Token
    BY <1>3, HeldIsToken DEF Rotate, Goto
  <2> QED
    BY <1>3, <2>1, BlockSpends DEF Rotate
<1>4. ASSUME NEW c \in Client, Register(c) \/ SignIn(c) \/ SignOut(c)
      PROVE  UNCHANGED blocked
  BY <1>4 DEF Register, SignIn, SignOut
<1>5. ASSUME NEW r \in Request,
             Present(r) \/ Answer(r) \/ AnswerLost(r) \/ ServerFails(r) \/ VerifyRefresh(r)
               \/ IsUserSessionRevoked(r) \/ IsBlocked(r) \/ BlockAllForUser(r) \/ Sign(r)
      PROVE  UNCHANGED blocked
  BY <1>5 DEF Present, Answer, AnswerLost, ServerFails, VerifyRefresh, IsUserSessionRevoked, IsBlocked,
              BlockAllForUser, Sign
<1>6. CASE Tick \/ UNCHANGED vars
  BY <1>1, <1>6 DEF Tick, vars
<1> QED
  BY <1>1, <1>2, <1>3, <1>4, <1>5, <1>6 DEF Next, Execute

(* A step in which no request reaches "fresh" or "rotated", presents a token or signs a pair *)
(* for one cannot fork.                                                                      *)
LEMMA QuietStep ==
  ASSUME TypeOK, Forking, [Next]_vars,
         \A r \in Request : token'[r] \in {NoToken, token[r]},
         \A r \in Request : pc'[r] \in {"fresh", "rotated"} => pc'[r] = pc[r] /\ token'[r] = token[r],
         \A i \in Token' \ Token : pairs'[i].parent = NoToken
  PROVE  Forking'
<1> USE DEF Forking
<1>1. /\ Token \subseteq Token' /\ \A t \in Token : pairs'[t] = pairs[t]
      /\ NoToken \notin Token /\ NoToken \notin Token' /\ Token \subseteq Nat /\ Token' \subseteq Nat
      /\ \A t \in Token : RefreshExp(t)' = RefreshExp(t) /\ RefreshExp(t) \in Nat
      /\ clock \in Nat /\ clock' \in Nat /\ clock <= clock'
  <2>1. \A t \in Token : RefreshExp(t)' = RefreshExp(t) /\ RefreshExp(t) \in Nat
    BY PairsStep, TypeParts, PairShape DEF RefreshExp
  <2>2. Token \subseteq Nat /\ Token' \subseteq Nat /\ NoToken \notin Token /\ NoToken \notin Token'
    BY DEF Token, NoToken
  <2>3. clock \in Nat /\ clock' \in Nat /\ clock <= clock'
    BY PairsStep, TypeParts, SessionsAssumption DEF PairsOK
  <2> QED
    BY PairsStep, <2>1, <2>2, <2>3
<1>2. contended \subseteq contended'
  BY ContendedGrows
<1>3. Apart'
  BY <1>2 DEF Apart
<1>4. BuyersAreSpent'
  <2>1. ASSUME NEW r \in Request, pc'[r] = "rotated"
        PROVE  (Spent(token[r]))'
    <3>1. token'[r] = token[r] /\ token[r] \in Token /\ Spent(token[r])
      BY <2>1, HeldIsToken DEF BuyersAreSpent
    <3> QED
      BY <3>1, SpentStays
  <2>2. ASSUME NEW i \in Token'
        PROVE  (/\ pairs[i].parent \in Token \union {NoToken}
                /\ pairs[i].parent # NoToken /\ pairs[i].parent \notin contended => Spent(pairs[i].parent))'
    <3>1. CASE i \in Token
      BY <1>1, <1>2, <3>1, SpentStays DEF BuyersAreSpent
    <3>2. CASE i \notin Token
      BY <2>2, <3>2
    <3> QED
      BY <3>1, <3>2
  <2> QED
    BY <2>1, <2>2 DEF BuyersAreSpent
<1>5. NotYetBought'
  <2> SUFFICES ASSUME NEW r \in Request, pc'[r] \in {"fresh", "rotated"}, token'[r] \notin contended',
                      NEW i \in Token', pairs'[i].parent = token'[r]
               PROVE  (clock >= RefreshExp(token[r]))'
    BY DEF NotYetBought
  <2>1. token'[r] = token[r] /\ token[r] \in Token /\ pc[r] \in {"fresh", "rotated"}
    BY HeldIsToken
  <2>2. i \in Token
    BY <1>1, <2>1
  <2>3. clock >= RefreshExp(token[r])
    BY <1>1, <1>2, <2>1, <2>2 DEF NotYetBought
  <2> QED
    BY <1>1, <2>1, <2>3
<1>6. OnlyOverlapForks'
  <2> SUFFICES ASSUME NEW i \in Token', NEW j \in Token', i < j,
                      pairs'[i].parent = pairs'[j].parent, pairs'[i].parent # NoToken,
                      pairs'[i].parent \notin contended'
               PROVE  (pairs[j].iat >= RefreshExp(pairs[i].parent))'
    BY DEF OnlyOverlapForks
  <2>1. i \in Token /\ j \in Token
    BY <1>1
  <2>2. pairs'[i] = pairs[i] /\ pairs'[j] = pairs[j]
    BY <1>1, <2>1
  <2>3. pairs[i].parent \in Token
    BY <2>1, <2>2 DEF BuyersAreSpent
  <2>4. pairs[j].iat >= RefreshExp(pairs[i].parent)
    BY <1>2, <2>1, <2>2 DEF OnlyOverlapForks
  <2> QED
    BY <1>1, <2>2, <2>3, <2>4
<1> QED
  BY <1>3, <1>4, <1>5, <1>6
LEMMA ForkingStep == TypeOK /\ Forking /\ [Next]_vars => Forking'
<1> SUFFICES ASSUME TypeOK, Forking, [Next]_vars
             PROVE  Forking'
  OBVIOUS
<1> USE DEF Forking
<1>1. UNCHANGED pairs => Token' = Token
  BY DEF Token
<1>2. CASE Tick \/ UNCHANGED vars
  BY <1>1, <1>2, QuietStep DEF Tick, vars, requestVars
<1>3. ASSUME NEW c \in Client, Register(c) \/ SignIn(c)
      PROVE  Forking'
  <2>1. UNCHANGED requestVars
    BY <1>3 DEF Register, SignIn
  <2>2. \A i \in Token' \ Token : pairs'[i].parent = NoToken
    <3>1. CASE UNCHANGED pairs
      BY <1>1, <3>1
    <3>2. CASE SignTokenPair(Owner[c], NoToken)
      <4>1. Owner[c] \in User /\ PairsOK
        BY TypeParts, SessionsAssumption
      <4>2. /\ Token' = Token \union {Len(pairs) + 1}
            /\ pairs'[Len(pairs) + 1] = [user |-> Owner[c], parent |-> NoToken, iat |-> clock]
        BY <3>2, <4>1, Signing
      <4> QED
        BY <4>2
    <3> QED
      BY <1>3, <3>1, <3>2 DEF Register, SignIn
  <2> QED
    BY <2>1, <2>2, QuietStep DEF requestVars
<1>4. ASSUME NEW c \in Client, SignOut(c) \/ Logout(c)
      PROVE  Forking'
  BY <1>1, <1>4, QuietStep DEF SignOut, Logout, requestVars
<1>5. ASSUME NEW r \in Request, VerifyRefresh(r) \/ IsUserSessionRevoked(r) \/ BlockAllForUser(r)
                                \/ ServerFails(r)
      PROVE  Forking'
  <2>1. /\ UNCHANGED <<pairs, token>>
        /\ \E to \in {"verified", "refused", "unrevoked"} : pc' = [pc EXCEPT ![r] = to]
    BY <1>5 DEF VerifyRefresh, IsUserSessionRevoked, BlockAllForUser, ServerFails, Goto
  <2> QED
    BY <1>1, <2>1, QuietStep, TypeParts DEF RequestsOK
<1>6. ASSUME NEW r \in Request, Answer(r) \/ AnswerLost(r)
      PROVE  Forking'
  <2>1. Return(r) /\ UNCHANGED pairs
    BY <1>6 DEF Answer, AnswerLost
  <2> QED
    BY <1>1, <2>1, QuietStep, TypeParts DEF Return, RequestsOK
<1>7. ASSUME NEW r \in Request, Present(r)
      PROVE  Forking'
  <2>1. stored[Asker[r]] \in Token /\ NoToken \notin Token
    BY <1>7, TypeParts, PairShape, SessionsAssumption DEF Present, ClientsOK
  <2>2. Apart'
    BY <1>7, <2>1, ContendedGrows, TypeParts DEF Present, Apart, RequestsOK
  <2>3. /\ UNCHANGED <<clock, pairs, blocked>>
        /\ \A q \in Request : pc'[q] # "present" => pc'[q] = pc[q] /\ token'[q] = token[q]
    BY <1>7, TypeParts DEF Present, RequestsOK
  <2>4. BuyersAreSpent' /\ NotYetBought' /\ OnlyOverlapForks'
    BY <1>1, <2>3, ContendedGrows
       DEF BuyersAreSpent, NotYetBought, OnlyOverlapForks, Spent, RefreshExp
  <2> QED
    BY <2>2, <2>4
<1>8. ASSUME NEW r \in Request, IsBlocked(r)
      PROVE  Forking'
  <2>1. /\ UNCHANGED <<clock, pairs, blocked, token, contended>>
        /\ \A q \in Request : q # r => pc'[q] = pc[q]
        /\ pc'[r] # "rotated" /\ (pc'[r] = "fresh" => ~Blocked(token[r]))
    BY <1>8, TypeParts DEF IsBlocked, Goto, RequestsOK
  <2>2. Apart' /\ BuyersAreSpent' /\ OnlyOverlapForks'
    BY <1>1, <2>1 DEF Apart, BuyersAreSpent, OnlyOverlapForks, Spent, RefreshExp
  <2>3. ASSUME NEW q \in Request, pc'[q] \in {"fresh", "rotated"}, token[q] \notin contended,
               NEW i \in Token, pairs[i].parent = token[q]
        PROVE  clock >= RefreshExp(token[q])
    <3>1. CASE q # r
      BY <2>1, <2>3, <3>1 DEF NotYetBought
    <3>2. CASE q = r
      <4>1. token[r] \in Token /\ NoToken \notin Token
        BY <1>8, HeldIsToken, TypeParts, PairShape DEF IsBlocked, Goto
      <4>2. Spent(token[r]) /\ ~(clock < blocked[token[r]])
        BY <2>1, <2>3, <3>2, <4>1 DEF BuyersAreSpent, Blocked
      <4>3. RefreshExp(token[r]) \in Nat /\ clock \in Nat
        BY <4>1, TypeParts, PairShape, SessionsAssumption DEF PairsOK
      <4> QED
        BY <3>2, <4>2, <4>3 DEF Spent
    <3> QED
      BY <3>1, <3>2
  <2>4. NotYetBought'
    BY <1>1, <2>1, <2>3 DEF NotYetBought, RefreshExp
  <2> QED
    BY <2>2, <2>4
<1>9. ASSUME NEW r \in Request, Rotate(r)
      PROVE  Forking'
  <2>1. /\ UNCHANGED <<clock, pairs, token, contended>>
        /\ \A q \in Request : q # r => pc'[q] = pc[q]
        /\ pc[r] = "fresh" /\ token[r] \in Token
    BY <1>9, HeldIsToken, TypeParts DEF Rotate, Goto, RequestsOK
  <2>2. (Spent(token[r]))' /\ \A t \in Token : Spent(t) => Spent(t)'
    BY <1>9, <2>1, BlockSpends DEF Rotate
  <2>3. BuyersAreSpent'
    <3>1. ASSUME NEW q \in Request, pc'[q] = "rotated"
          PROVE  (Spent(token[q]))'
      BY <2>1, <2>2, <3>1, HeldIsToken DEF BuyersAreSpent
    <3>2. ASSUME NEW i \in Token, pairs[i].parent # NoToken, pairs[i].parent \notin contended
          PROVE  (Spent(pairs[i].parent))'
      BY <2>1, <2>2, <3>2 DEF BuyersAreSpent
    <3> QED
      BY <1>1, <2>1, <3>1, <3>2 DEF BuyersAreSpent
  <2>4. Apart' /\ NotYetBought' /\ OnlyOverlapForks'
    BY <1>1, <2>1 DEF Apart, NotYetBought, OnlyOverlapForks, RefreshExp
  <2> QED
    BY <2>3, <2>4
<1>10. ASSUME NEW r \in Request, Sign(r)
       PROVE  Forking'
  <2> DEFINE new == Len(pairs) + 1
             t == token[r]
  <2>1. /\ UNCHANGED <<clock, blocked, token, contended>>
        /\ \A q \in Request : q # r => pc'[q] = pc[q]
        /\ pc[r] = "rotated" /\ pc'[r] = "granted" /\ t \in Token
    BY <1>10, HeldIsToken, TypeParts DEF Sign, Goto, RequestsOK
  <2>2. UserOf(t) \in User
    BY <2>1, TypeParts, PairShape
  <2>3. /\ Token' = Token \union {new} /\ new \notin Token
        /\ \A i \in Token : pairs'[i] = pairs[i]
        /\ pairs'[new].parent = t /\ pairs'[new].iat = clock
    <3>1. SignTokenPair(UserOf(t), t) /\ PairsOK
      BY <1>10, TypeParts DEF Sign
    <3>2. /\ Token' = Token \union {new} /\ new \notin Token
          /\ \A i \in Token : pairs'[i] = pairs[i]
          /\ pairs'[new] = [user |-> UserOf(t), parent |-> t, iat |-> clock]
      BY <2>1, <2>2, <3>1, Signing
    <3> QED
      BY <3>2
  <2>4. /\ \A i \in Token : RefreshExp(i)' = RefreshExp(i) /\ Spent(i)' = Spent(i) /\ i < new
        /\ NoToken \notin Token
    BY <2>1, <2>3, TypeParts, PairShape DEF RefreshExp, Spent, Token
  <2>5. Apart'
    BY <2>1 DEF Apart
  <2>6. BuyersAreSpent'
    <3>1. \A q \in Request : pc'[q] = "rotated" => (Spent(token[q]))'
      BY <2>1, <2>4, HeldIsToken DEF BuyersAreSpent
    <3>2. \A i \in Token' : pairs'[i].parent \in Token \union {NoToken}
      BY <2>1, <2>3 DEF BuyersAreSpent
    <3>3. \A i \in Token' : pairs'[i].parent # NoToken /\ pairs'[i].parent \notin contended
                              => Spent(pairs'[i].parent)
      BY <2>1, <2>3 DEF BuyersAreSpent
    <3>4. ASSUME NEW i \in Token'
          PROVE  (/\ pairs[i].parent \in Token \union {NoToken}
                  /\ pairs[i].parent # NoToken /\ pairs[i].parent \notin contended => Spent(pairs[i].parent))'
      BY <2>1, <2>3, <2>4, <3>2, <3>3
    <3> QED
      BY <3>1, <3>4 DEF BuyersAreSpent
  <2>7. NotYetBought'
    <3> SUFFICES ASSUME NEW q \in Request, pc'[q] \in {"fresh", "rotated"}, token'[q] \notin contended',
                        NEW i \in Token', pairs'[i].parent = token'[q]
                 PROVE  (clock >= RefreshExp(token[q]))'
      BY DEF NotYetBought
    <3>1. q # r /\ pc[q] \in {"fresh", "rotated"} /\ token[q] \in Token
      BY <2>1, HeldIsToken
    <3>2. token[q] # t
      BY <2>1, <2>4, <3>1 DEF Apart
    <3>3. i \in Token /\ pairs[i].parent = token[q]
      BY <2>1, <2>3, <3>2
    <3>4. clock >= RefreshExp(token[q])
      BY <2>1, <3>1, <3>3 DEF NotYetBought
    <3> QED
      BY <2>1, <2>4, <3>1, <3>4
  <2>8. OnlyOverlapForks'
    <3> SUFFICES ASSUME NEW i \in Token', NEW j \in Token', i < j,
                        pairs'[i].parent = pairs'[j].parent, pairs'[i].parent # NoToken,
                        pairs'[i].parent \notin contended'
                 PROVE  (pairs[j].iat >= RefreshExp(pairs[i].parent))'
      BY DEF OnlyOverlapForks
    <3>1. i \in Token /\ pairs'[i] = pairs[i] /\ pairs[i].parent \in Token
      <4>1. i # new
        BY <2>3, <2>4, TypeParts, PairShape DEF Token
      <4> QED
        BY <2>3, <4>1 DEF BuyersAreSpent
    <3>2. CASE j = new
      <4>1. pairs[i].parent = t /\ pairs'[j].iat = clock
        BY <2>3, <3>1, <3>2
      <4>2. clock >= RefreshExp(t)
        BY <2>1, <3>1, <4>1 DEF NotYetBought
      <4> QED
        BY <2>1, <2>4, <3>1, <4>1, <4>2
    <3>3. CASE j # new
      <4>1. j \in Token /\ pairs'[j] = pairs[j]
        BY <2>3, <3>3
      <4>2. pairs[j].iat >= RefreshExp(pairs[i].parent)
        BY <2>1, <3>1, <4>1 DEF OnlyOverlapForks
      <4> QED
        BY <2>4, <3>1, <4>1, <4>2
    <3> QED
      BY <3>2, <3>3
  <2> QED
    BY <2>5, <2>6, <2>7, <2>8
<1> QED
  BY <1>2, <1>3, <1>4, <1>5, <1>6, <1>7, <1>8, <1>9, <1>10 DEF Next, Execute

(* Two pairs are bought with one refresh token only if two parties used it at once, or the    *)
(* second was signed when the token had expired: the blocklist forks no session by itself.   *)
THEOREM ForksNeedOverlap == Spec => []OnlyOverlapForks
<1>1. Init => Forking
  BY SessionsAssumption
     DEF Init, Forking, Apart, BuyersAreSpent, NotYetBought, OnlyOverlapForks, Token
<1>2. Forking => OnlyOverlapForks
  BY DEF Forking
<1> QED
  BY <1>1, <1>2, ForkingStep, SessionShape, PTL DEF Spec
--------------------------------------------------------------------------------
(* A client's tokens, those it presents and those it is about to get, are its user's. *)
Owned ==
  /\ \A c \in Client : stored[c] # NoToken => UserOf(stored[c]) = Owner[c]
  /\ \A r \in Request : token[r] # NoToken => UserOf(token[r]) = Owner[Asker[r]]
  /\ \A r \in Request : answer[r] # NoToken => UserOf(answer[r]) = Owner[Asker[r]]

(* No two clients keep one token, and the pair in an answer is nobody's yet and not blocked. *)
Unshared ==
  /\ \A t \in 1..MaxPairs : t \notin Token => blocked[t] = 0
  /\ \A c, d \in Client : c # d /\ stored[c] # NoToken => stored[c] # stored[d]
  /\ \A r \in Request : answer[r] # NoToken =>
       /\ blocked[answer[r]] = 0
       /\ \A c \in Client : stored[c] # answer[r]
       /\ \A q \in Request : token[q] # answer[r] /\ (q # r => answer[q] # answer[r])

(* What an untroubled caller has in flight presents the token it keeps, which is blocked only *)
(* while the request that rotated it is on its way back.                                     *)
InStep ==
  \A c \in Caller : Untroubled(Owner[c]) =>
    /\ \A r \in Request : Asker[r] = c /\ InFlight(r) => token[r] = stored[c] /\ pc[r] # "reused"
    /\ stored[c] # NoToken /\ blocked[stored[c]] # 0 =>
         \E r \in Request : Asker[r] = c /\ token[r] = stored[c] /\ pc[r] \in {"rotated", "granted"}

(* What holds of the pairs before a step holds after it. *)
LEMMA TokensStay ==
  ASSUME TypeOK, [Next]_vars
  PROVE  /\ Token \subseteq Token' /\ NoToken \notin Token /\ NoToken \notin Token'
         /\ \A t \in Token : UserOf(t)' = UserOf(t) /\ UserOf(t) \in accounts /\ t \in 1..MaxPairs
BY PairsStep, TypeParts, PairShape DEF UserOf, PairsOK, Token, NoToken

(* A new pair is its user's, and nobody has it yet. *)
LEMMA NewPair ==
  ASSUME TypeOK, Unshared, NEW u \in User, NEW parent \in {NoToken} \union Token, SignTokenPair(u, parent)
  PROVE  LET new == Len(pairs) + 1 IN
         /\ Len(pairs') = new /\ new \in Token' /\ new \notin Token /\ new # NoToken
         /\ pairs'[new].user = u /\ blocked[new] = 0
<1> DEFINE new == Len(pairs) + 1
<1>1. /\ Len(pairs') = new /\ new <= MaxPairs /\ Token' = Token \union {new} /\ new \notin Token
      /\ new # NoToken /\ pairs'[new] = [user |-> u, parent |-> parent, iat |-> clock]
  BY Signing, TypeParts
<1>2. new \in 1..MaxPairs
  BY <1>1, TypeParts, PairShape, SessionsAssumption
<1> QED
  BY <1>1, <1>2 DEF Unshared

(* Who signs in or registers keeps the new pair or none. *)
LEMMA NewSession ==
  ASSUME TypeOK, NEW c \in Client, Register(c) \/ SignIn(c), SignTokenPair(Owner[c], NoToken)
  PROVE  /\ UNCHANGED <<blocked, revoked, contended, requestVars>>
         /\ \A d \in Client : stored'[d] = stored[d] \/ (d = c /\ stored'[d] = Len(pairs) + 1)
<1> USE TypeParts, SessionsAssumption
<1>1. Len(pairs') = Len(pairs) + 1
  BY Signing
<1>2. CASE Register(c)
  <2>1. stored' = stored \/ stored' = [stored EXCEPT ![c] = Len(pairs')]
    BY <1>2 DEF Register
  <2>2. \A d \in Client : stored'[d] = stored[d] \/ (d = c /\ stored'[d] = Len(pairs'))
    BY <2>1 DEF ClientsOK
  <2> QED
    BY <1>1, <1>2, <2>2 DEF Register
<1>3. CASE SignIn(c)
  <2>1. stored' = [stored EXCEPT ![c] = Len(pairs) + 1]
    BY <1>3 DEF SignIn
  <2>2. \A d \in Client : stored'[d] = stored[d] \/ (d = c /\ stored'[d] = Len(pairs) + 1)
    BY <2>1 DEF ClientsOK
  <2> QED
    BY <1>3, <2>2 DEF SignIn
<1> QED
  BY <1>2, <1>3

LEMMA OwnedStep ==
  ASSUME TypeOK, Owned, Unshared, [Next]_vars
  PROVE  Owned'
<1> USE TypeParts, SessionsAssumption
<1>0. /\ Token \subseteq Token' /\ NoToken \notin Token
      /\ \A t \in Token : UserOf(t)' = UserOf(t) /\ UserOf(t) \in accounts
  BY TokensStay
<1>1. ASSUME \A c \in Client : stored'[c] \in {stored[c], NoToken},
             \A r \in Request : token'[r] \in {token[r], NoToken} /\ answer'[r] \in {answer[r], NoToken}
      PROVE  Owned'
  BY <1>0, <1>1 DEF Owned, ClientsOK, RequestsOK
<1>2. ASSUME NEW c \in Client, Register(c) \/ SignIn(c)
      PROVE  Owned'
  <2>1. CASE UNCHANGED pairs
    BY <1>1, <1>2, <2>1 DEF Register, SignIn, SignTokenPair, requestVars, ClientsOK, PairsOK
  <2>2. CASE SignTokenPair(Owner[c], NoToken)
    <3> DEFINE new == Len(pairs) + 1
    <3>1. Len(pairs') = new /\ pairs'[new].user = Owner[c]
      BY <2>2, NewPair
    <3>2. UNCHANGED requestVars /\ \A d \in Client : stored'[d] = stored[d] \/ (d = c /\ stored'[d] = new)
      BY <1>2, <2>2, NewSession
    <3>3. \A d \in Client : stored'[d] # NoToken => (UserOf(stored[d]))' = Owner[d]
      BY <1>0, <3>1, <3>2 DEF Owned, ClientsOK, UserOf
    <3>4. /\ \A r \in Request : token'[r] # NoToken => (UserOf(token[r]))' = Owner[Asker[r]]
          /\ \A r \in Request : answer'[r] # NoToken => (UserOf(answer[r]))' = Owner[Asker[r]]
      BY <1>0, <3>2 DEF Owned, RequestsOK, requestVars, UserOf
    <3> QED
      BY <3>3, <3>4 DEF Owned
  <2> QED
    BY <1>2, <2>1, <2>2 DEF Register, SignIn
<1>3. ASSUME NEW c \in Client, SignOut(c) \/ Logout(c)
      PROVE  Owned'
  BY <1>1, <1>3 DEF SignOut, Logout, requestVars, ClientsOK
<1>4. ASSUME NEW r \in Request, Present(r)
      PROVE  Owned'
  BY <1>0, <1>4 DEF Present, clientVars, Owned, ClientsOK, RequestsOK
<1>5. ASSUME NEW r \in Request, Sign(r)
      PROVE  Owned'
  <2> DEFINE new == Len(pairs) + 1
  <2>1. token[r] \in Token /\ UserOf(token[r]) \in User
    BY <1>5, HeldIsToken, PairShape DEF Sign, Goto
  <2>2. pairs'[new].user = UserOf(token[r])
    BY <1>5, <2>1, NewPair DEF Sign
  <2>3. UNCHANGED <<token, stored>> /\ \A q \in Request : answer'[q] = IF q = r THEN new ELSE answer[q]
    BY <1>5 DEF Sign, clientVars, RequestsOK
  <2>4. UserOf(token[r]) = Owner[Asker[r]]
    BY <1>0, <2>1 DEF Owned
  <2>5. \A q \in Request : answer'[q] # NoToken => (UserOf(answer[q]))' = Owner[Asker[q]]
    BY <1>0, <2>2, <2>3, <2>4 DEF Owned, RequestsOK, UserOf
  <2> QED
    BY <1>0, <2>3, <2>5 DEF Owned, ClientsOK, RequestsOK, UserOf
<1>6. ASSUME NEW r \in Request, Answer(r)
      PROVE  Owned'
  <2>1. \A q \in Request : token'[q] \in {token[q], NoToken} /\ answer'[q] \in {answer[q], NoToken}
    BY <1>6 DEF Answer, Return, RequestsOK
  <2>2. CASE UNCHANGED stored
    BY <1>1, <2>1, <2>2
  <2>3. CASE stored' = [stored EXCEPT ![Asker[r]] = KeepsRefresh(Asker[r], @, answer[r])]
    <3>1. \A d \in Client : stored'[d] \in {stored[d]} \union (IF d = Asker[r] THEN {answer[r]} ELSE {})
      BY <2>3 DEF KeepsRefresh, ClientsOK
    <3>2. \A d \in Client : stored'[d] # NoToken => UserOf(stored'[d]) = Owner[d] /\ stored'[d] \in Token
      BY <3>1 DEF Owned, ClientsOK, RequestsOK
    <3>3. \A d \in Client : stored'[d] # NoToken => (UserOf(stored[d]))' = Owner[d]
      BY <1>0, <3>2 DEF UserOf
    <3> QED
      BY <1>0, <2>1, <3>3 DEF Owned, RequestsOK
  <2> QED
    BY <1>6, <2>2, <2>3 DEF Answer
<1>7. ASSUME NEW r \in Request, AnswerLost(r)
      PROVE  Owned'
  BY <1>1, <1>7 DEF AnswerLost, Return, RequestsOK
<1>8. ASSUME NEW r \in Request, ServerFails(r) \/ VerifyRefresh(r) \/ IsUserSessionRevoked(r)
                                \/ IsBlocked(r) \/ BlockAllForUser(r) \/ Rotate(r)
      PROVE  Owned'
  BY <1>1, <1>8 DEF ServerFails, VerifyRefresh, IsUserSessionRevoked, IsBlocked, BlockAllForUser, Rotate,
                    clientVars
<1>9. CASE Tick \/ UNCHANGED vars
  BY <1>1, <1>9 DEF Tick, vars, requestVars, clientVars
<1> QED
  BY <1>2, <1>3, <1>4, <1>5, <1>6, <1>7, <1>8, <1>9 DEF Next, Execute
LEMMA BlockHitsOne ==
  ASSUME TypeOK, NEW t \in Token, Block(t)
  PROVE  \A s \in 1..MaxPairs : s # t => blocked'[s] = blocked[s]
BY TypeParts DEF Block, KeysOK

LEMMA UnsharedStep ==
  ASSUME TypeOK, Unshared, [Next]_vars
  PROVE  Unshared'
<1> USE TypeParts, SessionsAssumption
<1>0. /\ Token \subseteq Token' /\ NoToken \notin Token
      /\ \A t \in Token : t \in 1..MaxPairs
  BY TokensStay
<1>1. ASSUME UNCHANGED blocked,
             \A c \in Client : stored'[c] \in {stored[c], NoToken},
             \A r \in Request : token'[r] \in {token[r], NoToken} /\ answer'[r] \in {answer[r], NoToken}
      PROVE  Unshared'
  BY <1>0, <1>1 DEF Unshared, ClientsOK, RequestsOK
<1>2. ASSUME NEW c \in Client, Register(c) \/ SignIn(c)
      PROVE  Unshared'
  <2>1. CASE UNCHANGED pairs
    BY <1>1, <1>2, <2>1 DEF Register, SignIn, SignTokenPair, requestVars, ClientsOK, PairsOK
  <2>2. CASE SignTokenPair(Owner[c], NoToken)
    <3> DEFINE new == Len(pairs) + 1
    <3>1. Len(pairs') = new /\ new \notin Token /\ new # NoToken
      BY <2>2, NewPair
    <3>2. UNCHANGED <<blocked, requestVars>>
          /\ \A d \in Client : stored'[d] = stored[d] \/ (d = c /\ stored'[d] = new)
      BY <1>2, <2>2, NewSession
    <3> QED
      BY <1>0, <3>1, <3>2 DEF Unshared, ClientsOK, RequestsOK, requestVars
  <2> QED
    BY <1>2, <2>1, <2>2 DEF Register, SignIn
<1>3. ASSUME NEW c \in Client, Logout(c)
      PROVE  Unshared'
  <2>1. stored[c] \in Token
    BY <1>3 DEF Logout, ClientsOK
  <2>2. \A s \in 1..MaxPairs : s # stored[c] => blocked'[s] = blocked[s]
    BY <1>3, <2>1, BlockHitsOne DEF Logout
  <2>3. UNCHANGED <<token, answer>> /\ \A d \in Client : stored'[d] \in {stored[d], NoToken}
    BY <1>3 DEF Logout, requestVars, ClientsOK
  <2> QED
    BY <1>0, <2>1, <2>2, <2>3 DEF Unshared, RequestsOK, ClientsOK
<1>4. ASSUME NEW c \in Client, SignOut(c)
      PROVE  Unshared'
  BY <1>1, <1>4 DEF SignOut, requestVars, ClientsOK
<1>5. ASSUME NEW r \in Request, Present(r)
      PROVE  Unshared'
  <2>1. UNCHANGED <<pairs, blocked, stored, answer>>
        /\ \A q \in Request : token'[q] = token[q] \/ token'[q] = stored[Asker[r]]
    BY <1>5 DEF Present, clientVars, RequestsOK
  <2> QED
    BY <1>0, <2>1 DEF Unshared, RequestsOK, ClientsOK
<1>6. ASSUME NEW r \in Request, Rotate(r)
      PROVE  Unshared'
  <2>1. token[r] \in Token
    BY <1>6, HeldIsToken DEF Rotate, Goto
  <2>2. \A s \in 1..MaxPairs : s # token[r] => blocked'[s] = blocked[s]
    BY <1>6, <2>1, BlockHitsOne DEF Rotate
  <2>3. UNCHANGED <<pairs, token, answer, stored>>
    BY <1>6 DEF Rotate, clientVars
  <2> QED
    BY <1>0, <2>1, <2>2, <2>3 DEF Unshared, RequestsOK, ClientsOK
<1>7. ASSUME NEW r \in Request, Sign(r)
      PROVE  Unshared'
  <2> DEFINE new == Len(pairs) + 1
  <2>1. token[r] \in Token /\ UserOf(token[r]) \in User
    BY <1>7, HeldIsToken, PairShape DEF Sign, Goto
  <2>2. new \notin Token /\ new # NoToken /\ blocked[new] = 0
    BY <1>7, <2>1, NewPair DEF Sign
  <2>3. UNCHANGED <<token, stored, blocked>>
        /\ \A q \in Request : answer'[q] = IF q = r THEN new ELSE answer[q]
    BY <1>7 DEF Sign, clientVars, RequestsOK
  <2> QED
    BY <1>0, <2>2, <2>3 DEF Unshared, ClientsOK, RequestsOK
<1>8. ASSUME NEW r \in Request, Answer(r)
      PROVE  Unshared'
  <2>1. /\ UNCHANGED <<pairs, blocked>>
        /\ \A q \in Request : q # r => token'[q] = token[q] /\ answer'[q] = answer[q]
        /\ token'[r] = NoToken /\ answer'[r] = NoToken
    BY <1>8 DEF Answer, Return, RequestsOK
  <2>2. \A d \in Client : stored'[d] = stored[d] \/ (stored'[d] = answer[r] /\ d = Asker[r])
    BY <1>8 DEF Answer, KeepsRefresh, ClientsOK
  <2> QED
    BY <1>0, <2>1, <2>2 DEF Unshared, ClientsOK, RequestsOK
<1>9. ASSUME NEW r \in Request, AnswerLost(r)
       PROVE  Unshared'
  BY <1>1, <1>9 DEF AnswerLost, Return, RequestsOK
<1>10. ASSUME NEW r \in Request, ServerFails(r) \/ VerifyRefresh(r) \/ IsUserSessionRevoked(r)
                                 \/ IsBlocked(r) \/ BlockAllForUser(r)
       PROVE  Unshared'
  BY <1>1, <1>10 DEF ServerFails, VerifyRefresh, IsUserSessionRevoked, IsBlocked, BlockAllForUser, clientVars
<1>11. CASE Tick \/ UNCHANGED vars
  BY <1>1, <1>11 DEF Tick, vars, requestVars, clientVars
<1> QED
  BY <1>2, <1>3, <1>4, <1>5, <1>6, <1>7, <1>8, <1>9, <1>10, <1>11 DEF Next, Execute
(* What is untroubled after a step was untroubled before it. *)
LEMMA TroubleLasts ==
  ASSUME TypeOK, [Next]_vars, NEW u \in User, Untroubled(u)'
  PROVE  Untroubled(u) /\ faults' = 0 /\ faults = 0
<1>1. \A t \in contended : t \in contended' /\ UserOf(t)' = UserOf(t)
  BY ContendedGrows, TokensStay, TypeParts DEF KeysOK
<1>2. faults' = 0
  BY DEF Untroubled
<1>3. faults = 0
  <2>1. faults' = faults \/ faults' = faults + 1
    <3>1. ASSUME NEW c \in Client, Register(c) \/ SignIn(c) \/ SignOut(c) \/ Logout(c)
          PROVE  faults' = faults \/ faults' = faults + 1
      BY <3>1 DEF Register, SignIn, SignOut, Logout, Fault
    <3>2. ASSUME NEW r \in Request,
                 Present(r) \/ Execute(r) \/ ServerFails(r) \/ Answer(r) \/ AnswerLost(r)
          PROVE  faults' = faults \/ faults' = faults + 1
      BY <3>2 DEF Present, Answer, AnswerLost, ServerFails, Execute, VerifyRefresh, IsUserSessionRevoked,
                  IsBlocked, BlockAllForUser, Rotate, Sign, Fault
    <3> QED
      BY <3>1, <3>2 DEF Next, Tick, vars
  <2> QED
    BY <1>2, <2>1, TypeParts, SessionsAssumption DEF KeysOK
<1> QED
  BY <1>1, <1>2, <1>3 DEF Untroubled

(* One of an untroubled caller's requests is in flight at a time. *)
LEMMA OneAtATime ==
  ASSUME TypeOK, Apart, Owned, InStep, NEW c \in Caller, Untroubled(Owner[c]),
         NEW r \in Request, NEW q \in Request, Asker[r] = c, Asker[q] = c, InFlight(r), InFlight(q)
  PROVE  r = q
<1>1. token[r] = token[q] /\ token[r] \in Token /\ NoToken \notin Token
  BY HeldIsToken, TypeParts, PairShape DEF InStep, InFlight
<1>2. UserOf(token[r]) = Owner[c]
  BY <1>1 DEF Owned
<1> QED
  BY <1>1, <1>2 DEF Apart, Untroubled

(* No one else presents the token an untroubled caller keeps. *)
LEMMA OnlyTheCaller ==
  ASSUME TypeOK, Owned, Unshared, InStep, NEW c \in Caller, Untroubled(Owner[c]), stored[c] # NoToken,
         NEW r \in Request, token[r] = stored[c]
  PROVE  Asker[r] = c
<1> DEFINE d == Asker[r]
<1>1. c \in Client /\ d \in Client
  BY SessionsAssumption DEF Client
<1>2. Owner[d] = Owner[c]
  BY <1>1 DEF Owned
<1>3. d \in Caller
  BY <1>1, <1>2 DEF Untroubled, Client
<1>4. InFlight(r)
  BY TypeParts DEF RequestsOK, InFlight
<1>5. token[r] = stored[d]
  BY <1>2, <1>3, <1>4 DEF InStep
<1> QED
  BY <1>1, <1>5 DEF Unshared

LEMMA StaysInStep ==
  ASSUME TypeOK, Apart, Owned, Unshared, InStep, [Next]_vars
  PROVE  InStep'
<1> USE TypeParts, SessionsAssumption
<1> SUFFICES ASSUME NEW c \in Caller, Untroubled(Owner[c])'
             PROVE  (/\ \A r \in Request : Asker[r] = c /\ InFlight(r) => token[r] = stored[c] /\ pc[r] # "reused"
                     /\ stored[c] # NoToken /\ blocked[stored[c]] # 0 =>
                          \E r \in Request : Asker[r] = c /\ token[r] = stored[c] /\ pc[r] \in {"rotated", "granted"})'
  BY DEF InStep
<1> DEFINE Rest == \A r \in Request : Asker[r] = c /\ InFlight(r) => token[r] = stored[c] /\ pc[r] # "reused"
           Back == stored[c] # NoToken /\ blocked[stored[c]] # 0 =>
                     \E r \in Request : Asker[r] = c /\ token[r] = stored[c] /\ pc[r] \in {"rotated", "granted"}
<1>a. c \in Client /\ c \notin Browser /\ Owner[c] \in User
  BY DEF Client
<1>b. Untroubled(Owner[c]) /\ faults' = 0 /\ faults = 0
  BY <1>a, TroubleLasts
<1>c. Rest /\ Back
  BY <1>b DEF InStep
<1>d. NoToken \notin Token /\ \A r \in Request : Asker[r] \in Client
  BY PairShape
<1> SUFFICES Rest' /\ Back'
  OBVIOUS
<1>1. ASSUME UNCHANGED <<requestVars, stored>>, blocked'[stored[c]] = blocked[stored[c]]
      PROVE  Rest' /\ Back'
  BY <1>c, <1>1 DEF requestVars, InFlight
<1>2. ASSUME NEW d \in Client, Register(d) \/ SignIn(d)
      PROVE  Rest' /\ Back'
  <2>1. CASE SignTokenPair(Owner[d], NoToken)
    <3>1. UNCHANGED <<blocked, requestVars>>
          /\ \A e \in Client : stored'[e] = stored[e] \/ (e = d /\ stored'[e] = Len(pairs) + 1)
      BY <1>2, <2>1, NewSession
    <3>2. CASE stored'[c] = stored[c]
      BY <1>c, <3>1, <3>2 DEF requestVars, InFlight
    <3>3. CASE stored'[c] # stored[c]
      <4>1. c = d /\ stored'[c] = Len(pairs) + 1
        BY <1>a, <3>1, <3>3
      <4>2. blocked[Len(pairs) + 1] = 0
        BY <1>a, <2>1, <4>1, NewPair
      <4>3. ~Busy(c)
        <5>1. ASSUME NEW r \in Request, InFlight(r), Asker[r] = c, Register(c)
              PROVE  FALSE
          <6>1. token[r] \in Token
            BY <5>1, HeldIsToken DEF InFlight
          <6>2. Owner[c] \in accounts
            BY <1>d, <5>1, <6>1, TokensStay DEF Owned
          <6> QED
            BY <5>1, <6>2 DEF Register
        <5> QED
          BY <1>2, <4>1, <5>1 DEF SignIn, Busy
      <4> QED
        BY <3>1, <4>1, <4>2, <4>3 DEF Busy, InFlight, requestVars
    <3> QED
      BY <3>2, <3>3
  <2>2. CASE UNCHANGED pairs /\ Register(d)
    <3>1. UNCHANGED <<requestVars, stored, blocked>>
      BY <2>2 DEF Register
    <3> QED
      BY <1>1, <3>1
  <2> QED
    BY <1>2, <2>1, <2>2 DEF Register, SignIn
<1>3. ASSUME NEW d \in Client, SignOut(d)
      PROVE  Rest' /\ Back'
  <2>1. stored'[c] = stored[c] /\ UNCHANGED <<requestVars, blocked>>
    BY <1>a, <1>3 DEF SignOut, ClientsOK
  <2> QED
    BY <1>c, <2>1 DEF requestVars, InFlight
<1>4. ASSUME NEW d \in Client, Logout(d)
      PROVE  Rest' /\ Back'
  <2>1. UNCHANGED requestVars /\ stored[d] \in Token /\ d \in Caller
    BY <1>4 DEF Logout, ClientsOK
  <2>2. CASE d = c
    <3>1. stored'[c] = NoToken
      BY <1>a, <1>4, <2>2 DEF Logout, ClientsOK
    <3>2. ~Busy(c)
      <4>1. Busy(c) => stored[c] \in contended'
        BY <1>4, <2>2 DEF Logout
      <4>2. UserOf(stored[c]) = Owner[c]
        BY <1>a, <1>d, <2>1, <2>2 DEF Owned
      <4>3. pairs' = pairs
        BY <1>4 DEF Logout
      <4> QED
        BY <4>1, <4>2, <4>3 DEF Untroubled, UserOf
    <3> QED
      BY <2>1, <3>1, <3>2 DEF requestVars, Busy, InFlight
  <2>3. CASE d # c
    <3>1. stored'[c] = stored[c]
      BY <1>a, <1>4, <2>3 DEF Logout, ClientsOK
    <3>2. stored[c] # stored[d]
      BY <1>a, <1>d, <2>1, <2>3 DEF Unshared
    <3>3. stored[c] # NoToken => blocked'[stored[c]] = blocked[stored[c]]
      BY <1>a, <1>4, <2>1, <3>2, BlockHitsOne, TokensStay DEF Logout, ClientsOK
    <3> QED
      BY <1>c, <2>1, <3>1, <3>3 DEF requestVars, InFlight
  <2> QED
    BY <2>2, <2>3
<1>5. ASSUME NEW r \in Request, Present(r)
      PROVE  Rest' /\ Back'
  <2>1. /\ UNCHANGED <<stored, blocked>> /\ pc[r] = "idle"
        /\ pc'[r] = "present" /\ token'[r] = stored[Asker[r]]
        /\ \A q \in Request : q # r => pc'[q] = pc[q] /\ token'[q] = token[q]
    BY <1>5 DEF Present, clientVars, RequestsOK
  <2> QED
    BY <1>c, <2>1 DEF InFlight
<1>6. ASSUME NEW r \in Request, VerifyRefresh(r) \/ IsUserSessionRevoked(r) \/ IsBlocked(r)
      PROVE  Rest' /\ Back'
  <2>1. /\ UNCHANGED <<stored, blocked, token>>
        /\ \A q \in Request : q # r => pc'[q] = pc[q]
        /\ pc[r] \in {"present", "verified", "unrevoked"}
        /\ pc'[r] = "reused" => Blocked(token[r]) /\ pc[r] = "unrevoked"
    BY <1>6 DEF VerifyRefresh, IsUserSessionRevoked, IsBlocked, Goto, clientVars, RequestsOK
  <2>2. Back'
    BY <1>c, <2>1
  <2>3. ASSUME Asker[r] = c
        PROVE  pc'[r] # "reused"
    <3> SUFFICES ASSUME pc'[r] = "reused"
                 PROVE  FALSE
      OBVIOUS
    <3>1. token[r] = stored[c] /\ token[r] \in Token
      BY <1>c, <2>1, <2>3, HeldIsToken DEF InFlight
    <3>2. blocked[stored[c]] # 0
      BY <2>1, <3>1 DEF Blocked, PairsOK
    <3>3. PICK q \in Request : Asker[q] = c /\ pc[q] \in {"rotated", "granted"}
      BY <1>c, <1>d, <3>1, <3>2
    <3>4. q = r
      BY <1>b, <2>1, <2>3, <3>3, OneAtATime DEF InFlight
    <3> QED
      BY <2>1, <3>3, <3>4
  <2> QED
    BY <1>c, <2>1, <2>2, <2>3 DEF InFlight
<1>7. ASSUME NEW r \in Request, BlockAllForUser(r)
      PROVE  Rest' /\ Back'
  <2>1. /\ UNCHANGED <<stored, blocked, token>>
        /\ \A q \in Request : q # r => pc'[q] = pc[q]
        /\ pc[r] = "reused" /\ pc'[r] = "refused"
    BY <1>7 DEF BlockAllForUser, Goto, clientVars, RequestsOK
  <2> QED
    BY <1>c, <2>1 DEF InFlight
<1>8. ASSUME NEW r \in Request, Rotate(r)
      PROVE  Rest' /\ Back'
  <2>1. /\ UNCHANGED <<stored, token>> /\ Block(token[r]) /\ token[r] \in Token
        /\ \A q \in Request : q # r => pc'[q] = pc[q]
        /\ pc[r] = "fresh" /\ pc'[r] = "rotated"
    BY <1>8, HeldIsToken DEF Rotate, Goto, clientVars, RequestsOK
  <2>2. Rest'
    BY <1>c, <2>1 DEF InFlight
  <2>3. CASE stored[c] # NoToken /\ token[r] = stored[c]
    <3>1. Asker[r] = c
      BY <1>b, <2>3, OnlyTheCaller
    <3> QED
      BY <2>1, <2>2, <2>3, <3>1
  <2>4. CASE stored[c] = NoToken
    BY <2>1, <2>2, <2>4
  <2>5. CASE token[r] # stored[c]
    <3>1. stored[c] # NoToken => blocked'[stored[c]] = blocked[stored[c]]
      BY <1>a, <2>1, <2>5, BlockHitsOne, TokensStay DEF ClientsOK
    <3> QED
      BY <1>c, <2>1, <2>2, <3>1
  <2> QED
    BY <2>2, <2>3, <2>4, <2>5
<1>9. ASSUME NEW r \in Request, Sign(r)
      PROVE  Rest' /\ Back'
  <2>1. /\ UNCHANGED <<stored, token, blocked>>
        /\ \A q \in Request : q # r => pc'[q] = pc[q]
        /\ pc[r] = "rotated" /\ pc'[r] = "granted"
    BY <1>9 DEF Sign, Goto, clientVars, RequestsOK
  <2> QED
    BY <1>c, <2>1 DEF InFlight
<1>10. ASSUME NEW r \in Request, Answer(r)
       PROVE  Rest' /\ Back'
  <2>1. /\ UNCHANGED blocked /\ pc[r] \in {"granted", "refused"} /\ pc'[r] = "idle"
        /\ \A q \in Request : q # r => pc'[q] = pc[q] /\ token'[q] = token[q]
    BY <1>10 DEF Answer, Return, RequestsOK
  <2>2. CASE Asker[r] = c
    <3>1. \A q \in Request : Asker[q] = c => pc'[q] = "idle"
      BY <1>b, <2>1, <2>2, OneAtATime DEF InFlight
    <3>2. CASE pc[r] = "granted" /\ stored[c] # NoToken
      <4>1. stored'[c] = answer[r] /\ answer[r] # NoToken
        BY <1>a, <1>10, <2>2, <3>2 DEF Answer, KeepsRefresh, ClientsOK, RequestsOK
      <4>2. blocked'[stored'[c]] = 0
        BY <2>1, <4>1 DEF Unshared
      <4> QED
        BY <3>1, <4>2 DEF InFlight
    <3>3. CASE ~(pc[r] = "granted" /\ stored[c] # NoToken)
      <4>1. stored' = stored
        BY <1>10, <2>2, <3>3 DEF Answer
      <4>2. stored[c] # NoToken => blocked[stored[c]] = 0
        <5> SUFFICES ASSUME stored[c] # NoToken, blocked[stored[c]] # 0
                     PROVE  FALSE
          OBVIOUS
        <5>1. PICK q \in Request : Asker[q] = c /\ pc[q] \in {"rotated", "granted"}
          BY <1>c
        <5>2. q = r
          BY <1>b, <2>1, <2>2, <5>1, OneAtATime DEF InFlight
        <5> QED
          BY <2>1, <3>3, <5>1, <5>2
      <4> QED
        BY <2>1, <3>1, <4>1, <4>2 DEF InFlight
    <3> QED
      BY <3>2, <3>3
  <2>3. CASE Asker[r] # c
    <3>1. stored'[c] = stored[c]
      BY <1>a, <1>10, <2>3 DEF Answer, ClientsOK
    <3> QED
      BY <1>c, <2>1, <2>3, <3>1 DEF InFlight
  <2> QED
    BY <2>2, <2>3
<1>11. ASSUME NEW r \in Request, ServerFails(r) \/ AnswerLost(r)
       PROVE  FALSE
  BY <1>b, <1>11 DEF ServerFails, AnswerLost, Fault
<1>12. CASE Tick \/ UNCHANGED vars
  BY <1>1, <1>12 DEF Tick, vars, clientVars
<1> QED
  BY <1>2, <1>3, <1>4, <1>5, <1>6, <1>7, <1>8, <1>9, <1>10, <1>11, <1>12 DEF Next, Execute
Kept == Forking /\ Owned /\ Unshared /\ InStep

LEMMA KeptAlways == Spec => []Kept
<1>1. Init => Kept
  BY SessionsAssumption
     DEF Init, Kept, Forking, Apart, BuyersAreSpent, NotYetBought, OnlyOverlapForks, Token, Owned,
         Unshared, InStep, Client, InFlight
<1>2. TypeOK /\ Kept /\ [Next]_vars => Kept'
  BY ForkingStep, OwnedStep, UnsharedStep, StaysInStep DEF Kept, Forking
<1> QED
  BY <1>1, <1>2, SessionShape, PTL DEF Spec

(* A caller that keeps what onTokenRefreshed gives it holds, at rest, a token the blocklist   *)
(* does not have, in whatever order its requests and those of others reach Redis.            *)
THEOREM CallersKeep == Spec => []CallersKeepTheirSession
<1>1. Kept => CallersKeepTheirSession
  BY DEF Kept, InStep, CallersKeepTheirSession, Busy, InFlight
<1> QED
  BY <1>1, KeptAlways, PTL

LEMMA RevocationStep ==
  ASSUME TypeOK, Kept, RevocationHasCause, [Next]_vars
  PROVE  RevocationHasCause'
<1> SUFFICES ASSUME NEW u \in User, Untroubled(u)'
             PROVE  revoked'[u] = 0
  BY DEF RevocationHasCause
<1>1. Untroubled(u) /\ revoked[u] = 0
  BY TroubleLasts DEF RevocationHasCause
<1>2. ASSUME NEW r \in Request, BlockAllForUser(r)
      PROVE  revoked'[u] = 0
  <2>1. pc[r] = "reused" /\ token[r] \in Token /\ NoToken \notin Token
    BY <1>2, HeldIsToken, TypeParts, PairShape DEF BlockAllForUser, Goto
  <2>2. UserOf(token[r]) = Owner[Asker[r]] /\ Asker[r] \in Client
    BY <2>1, SessionsAssumption DEF Kept, Owned
  <2>3. UserOf(token[r]) # u
    BY <1>1, <2>1, <2>2 DEF Untroubled, Client, Kept, InStep, InFlight
  <2> QED
    BY <1>1, <1>2, <2>3, TypeParts DEF BlockAllForUser, KeysOK
<1>3. ASSUME NEW c \in Client, Register(c) \/ SignIn(c) \/ SignOut(c) \/ Logout(c)
      PROVE  UNCHANGED revoked
  BY <1>3 DEF Register, SignIn, SignOut, Logout
<1>4. ASSUME NEW r \in Request,
             Present(r) \/ Answer(r) \/ AnswerLost(r) \/ ServerFails(r) \/ VerifyRefresh(r)
               \/ IsUserSessionRevoked(r) \/ IsBlocked(r) \/ Rotate(r) \/ Sign(r)
      PROVE  UNCHANGED revoked
  BY <1>4 DEF Present, Answer, AnswerLost, ServerFails, VerifyRefresh, IsUserSessionRevoked, IsBlocked,
              Rotate, Sign
<1>5. CASE Tick \/ UNCHANGED vars
  BY <1>1, <1>5 DEF Tick, vars
<1> QED
  BY <1>1, <1>2, <1>3, <1>4, <1>5 DEF Next, Execute

(* Every session of a user is revoked only if some token of the user's was used twice at once, *)
(* a request failed or was lost, or the user has a session that never keeps the new refresh   *)
(* token.                                                                                     *)
THEOREM RevocationsHaveCause == Spec => []RevocationHasCause
<1>1. Init => RevocationHasCause
  BY DEF Init, RevocationHasCause
<1>2. TypeOK /\ Kept /\ RevocationHasCause /\ [Next]_vars => RevocationHasCause'
  BY RevocationStep
<1> QED
  BY <1>1, <1>2, KeptAlways, SessionShape, PTL DEF Spec
--------------------------------------------------------------------------------
(* The cart in a tab.  A slot is free or holds a call, and a call stays one. *)
SlotShape(x) ==
  /\ x \in {NoSlot} \union TabCall
  /\ x # NoSlot /\ x.op \in {"add", "set", "remove"} => x.item \in Item
  /\ x.at \in {"served", "refused"} => x.heard

LEMMA CallIsNoFreeSlot == ASSUME NEW x \in TabCall PROVE x # NoSlot /\ x.at # "idle" /\ NoSlot.at = "idle"
BY DEF TabCall, NoSlot

LEMMA SlotChanges ==
  ASSUME NEW x, SlotShape(x)
  PROVE  /\ SlotShape(NoSlot) /\ Crossed(NoSlot) = NoSlot /\ Unheard(NoSlot) = NoSlot
         /\ SlotShape(Crossed(x)) /\ Crossed(x).at = x.at
         /\ SlotShape(Unheard(x))
         /\ x # NoSlot => /\ Crossed(x).op = x.op /\ Crossed(x) # NoSlot /\ ~Crossed(x).alone
         /\ Unheard(x) # NoSlot => /\ x # NoSlot /\ Unheard(x).at = "sent" /\ ~Unheard(x).heard
                                   /\ Unheard(x).alone = x.alone
<1>1. CASE x = NoSlot
  BY <1>1 DEF SlotShape, Crossed, Unheard, NoSlot
<1>2. CASE x \in TabCall
  BY <1>2, CallIsNoFreeSlot DEF SlotShape, Crossed, Unheard, TabCall, NoSlot
<1> QED
  BY <1>1, <1>2 DEF SlotShape

LEMMA ServedSlot ==
  ASSUME NEW x \in TabCall, SlotShape(x), NEW view \in Cart, x.heard
  PROVE  /\ SlotShape([x EXCEPT !.at = "served", !.view = view])
         /\ [x EXCEPT !.at = "served", !.view = view].view = view
         /\ [x EXCEPT !.at = "served", !.view = view].at = "served"
         /\ [x EXCEPT !.at = "served", !.view = view].op = x.op
         /\ [x EXCEPT !.at = "served", !.view = view].key = x.key
         /\ [x EXCEPT !.at = "served", !.view = view].alone = x.alone
         /\ SlotShape([x EXCEPT !.at = "refused"])
         /\ [x EXCEPT !.at = "refused"].at = "refused"
         /\ [x EXCEPT !.at = "refused"].key = x.key
         /\ [x EXCEPT !.at = "refused"].alone = x.alone
BY CallIsNoFreeSlot DEF SlotShape, TabCall

Slots == \A c \in Slot : SlotShape(slot[c])

(* The type of the tab, its calls apart. *)
TabOK ==
  /\ kept \in [CartKey -> Cart]
  /\ shopper \in CartKey \union {"unknown"}
  /\ items \in Cart /\ phase \in {"idle", "loading", "ready", "error"} /\ merged \in BOOLEAN
  /\ due \subseteq {"get", "merge"}
  /\ busy \in [Panel -> Item \union {NoItem}]
  /\ unpaid \in BOOLEAN /\ strayed \in BOOLEAN
  /\ clicks \in 0..MaxClicks /\ mishaps \in 0..MaxMishaps

LEMMA TabParts == TabTypeOK <=> TabOK /\ slot \in [Slot -> {NoSlot} \union TabCall] /\ Slots
BY DEF TabTypeOK, TabOK, Slots, SlotShape

LEMMA BareIsCart == Bare \in Cart
BY DEF Bare, Cart

(* What the order service keeps after a call is a cart for each key. *)
LEMMA AfterIsCarts ==
  ASSUME TabTypeOK, NEW x \in TabCall, SlotShape(x)
  PROVE  After(x) \in [CartKey -> Cart]
<1>1. kept \in [CartKey -> Cart] /\ x.key \in CartKey /\ x.n \in Nat /\ x.op \in CallOp
  BY DEF TabTypeOK, TabCall
<1>2. \A k \in CartKey : kept[k] \in [Item -> Nat]
  BY <1>1 DEF Cart
<1>3. CASE x.op = "add"
  <2>1. [kept[x.key] EXCEPT ![x.item] = @ + 1] \in [Item -> Nat]
    BY <1>1, <1>2, <1>3, CallIsNoFreeSlot DEF SlotShape
  <2> QED
    BY <1>1, <1>3, <2>1 DEF After, Cart
<1>4. CASE x.op \in {"set", "remove"}
  <2>1. /\ [kept[x.key] EXCEPT ![x.item] = x.n] \in [Item -> Nat]
        /\ [kept[x.key] EXCEPT ![x.item] = 0] \in [Item -> Nat]
    BY <1>1, <1>2
  <2> QED
    BY <1>1, <1>4, <2>1 DEF After, Cart
<1>5. CASE x.op \in {"clear", "switch", "get"}
  BY <1>1, <1>5, BareIsCart DEF After
<1>6. CASE x.op = "merge"
  <2>1. [i \in Item |-> kept["guest"][i] + kept["user"][i]] \in Cart
    BY <1>2 DEF Cart, CartKey
  <2> QED
    BY <1>6, <2>1, BareIsCart DEF After, CartKey
<1> QED
  BY <1>1, <1>3, <1>4, <1>5, <1>6 DEF CallOp

(* A call begins in a free slot, and crosses those under way. *)
LEMMA Beginning ==
  ASSUME TabTypeOK, NEW c \in Slot, NEW op \in CallOp, NEW i \in Item \union {NoItem}, NEW n \in Nat,
         NEW v \in Panel, op \in {"add", "set", "remove"} => i \in Item, Begin(c, op, i, n, v)
  PROVE  /\ slot[c] = NoSlot /\ slot' \in [Slot -> {NoSlot} \union TabCall]
         /\ \A d \in Slot : d # c => slot'[d] = Crossed(slot[d])
         /\ SlotShape(slot'[c]) /\ slot'[c].at = "sent" /\ slot'[c].op = op
         /\ slot'[c].key = KeyOf(shopper) /\ slot'[c].heard
         /\ slot'[c].alone => \A d \in Slot : slot[d] = NoSlot
<1> DEFINE new == [at |-> "sent", op |-> op, item |-> i, n |-> n, by |-> v, key |-> KeyOf(shopper),
                   view |-> Bare, heard |-> TRUE, alone |-> \A e \in Slot : slot[e] = NoSlot]
<1>1. new \in TabCall /\ SlotShape(new)
  BY BareIsCart DEF TabCall, SlotShape, KeyOf, CartKey
<1>2. \A d \in Slot : SlotShape(slot[d])
  BY TabParts DEF Slots
<1>3. [d \in Slot |-> Crossed(slot[d])] \in [Slot -> {NoSlot} \union TabCall]
  BY <1>2, SlotChanges DEF SlotShape
<1>4. slot[c] = NoSlot /\ slot' = [[d \in Slot |-> Crossed(slot[d])] EXCEPT ![c] = new]
  BY DEF Begin
<1> QED
  BY <1>1, <1>3, <1>4

LEMMA SlotsStep ==
  ASSUME TabTypeOK, [TabNext]_tabVars
  PROVE  slot' \in [Slot -> {NoSlot} \union TabCall] /\ Slots'
<1> USE TabParts
<1>a. \A d \in Slot : SlotShape(slot[d])
  BY DEF Slots
<1>b. ASSUME DOMAIN slot' = Slot, slot' = [d \in Slot |-> slot'[d]],
             \A d \in Slot : SlotShape(slot'[d])
      PROVE  slot' \in [Slot -> {NoSlot} \union TabCall] /\ Slots'
  BY <1>b DEF Slots, SlotShape
<1>1. CASE LoadPage
  BY <1>a, <1>b, <1>1, SlotChanges DEF LoadPage
<1>2. ASSUME CleanUp
      PROVE  slot' \in [Slot -> {NoSlot} \union TabCall] /\ Slots'
  BY <1>a, <1>b, <1>2, SlotChanges DEF CleanUp
<1>3. CASE OrderPlaced
  BY <1>a, <1>b, <1>3, SlotChanges DEF OrderPlaced
<1>4. ASSUME NEW c \in Slot, NEW op \in CallOp, NEW i \in Item \union {NoItem}, NEW n \in Nat,
             NEW v \in Panel, op \in {"add", "set", "remove"} => i \in Item, Begin(c, op, i, n, v)
      PROVE  slot' \in [Slot -> {NoSlot} \union TabCall] /\ Slots'
  <2>1. /\ slot' \in [Slot -> {NoSlot} \union TabCall] /\ SlotShape(slot'[c])
        /\ \A d \in Slot : d # c => slot'[d] = Crossed(slot[d])
    BY <1>4, Beginning
  <2> QED
    BY <1>a, <2>1, SlotChanges DEF Slots
<1>5. ASSUME NEW c \in Slot, Sync(c) \/ MergeOnLogin(c) \/ ClearCart(c) \/ SwitchCurrency(c)
      PROVE  slot' \in [Slot -> {NoSlot} \union TabCall] /\ Slots'
  <2>1. \E op \in {"get", "merge", "clear", "switch"} : Begin(c, op, NoItem, 0, "other")
    BY <1>5 DEF Sync, MergeOnLogin, ClearCart, SwitchCurrency, Press
  <2> QED
    BY <1>4, <2>1 DEF CallOp, Panel
<1>6. ASSUME NEW c \in Slot, NEW i \in Item, NEW v \in {"drawer", "page"},
             PressAdd(c, i) \/ StepQuantity(c, i, v) \/ RemoveLine(c, i, v)
      PROVE  slot' \in [Slot -> {NoSlot} \union TabCall] /\ Slots'
  <2>1. \E op \in {"add", "set", "remove"}, n \in Nat, w \in Panel : Begin(c, op, i, n, w)
    <3>1. items[i] \in Nat
      BY DEF TabOK, Cart
    <3> QED
      BY <1>6, <3>1 DEF PressAdd, StepQuantity, RemoveLine, Press, Panel
  <2> QED
    BY <1>4, <2>1 DEF CallOp
<1>7. ASSUME NEW c \in Slot, NEW x, SlotShape(x), slot' = [slot EXCEPT ![c] = x]
      PROVE  slot' \in [Slot -> {NoSlot} \union TabCall] /\ Slots'
  BY <1>a, <1>7 DEF Slots, SlotShape
<1>8. ASSUME NEW c \in Slot, Grant(c)
      PROVE  slot' \in [Slot -> {NoSlot} \union TabCall] /\ Slots'
  <2>1. slot[c] \in TabCall
    BY <1>8, CallIsNoFreeSlot DEF Grant, NoSlot
  <2>2. After(slot[c])[slot[c].key] \in Cart
    <3>1. slot[c].key \in CartKey
      BY <2>1 DEF TabCall
    <3> QED
      BY <1>a, <2>1, <3>1, AfterIsCarts
  <2> DEFINE x == slot[c]
             view == After(slot[c])[slot[c].key]
             y == IF x.heard THEN [x EXCEPT !.at = "served", !.view = view] ELSE NoSlot
  <2>3. slot' = [slot EXCEPT ![c] = y]
    BY <1>8 DEF Grant
  <2>4. x \in TabCall /\ SlotShape(x) /\ view \in Cart
    BY <1>a, <2>1, <2>2
  <2>5. SlotShape(y)
    <3> HIDE DEF x, view
    <3> QED
      BY <2>4, ServedSlot, SlotChanges
  <2> HIDE DEF y
  <2> QED
    BY <1>7, <2>3, <2>5
<1>9. ASSUME NEW c \in Slot, Refuse(c) \/ LoseAnswer(c)
      PROVE  slot' \in [Slot -> {NoSlot} \union TabCall] /\ Slots'
  <2>1. slot[c] \in TabCall
    BY <1>9, CallIsNoFreeSlot DEF Refuse, LoseAnswer, NoSlot
  <2>2. slot[c].heard => SlotShape([slot[c] EXCEPT !.at = "refused"])
    BY <1>a, <2>1, BareIsCart, ServedSlot
  <2>3. CASE Refuse(c)
    BY <1>a, <1>7, <2>2, <2>3, SlotChanges DEF Refuse
  <2>4. CASE LoseAnswer(c)
    <3>1. slot[c].heard
      BY <1>a, <2>4 DEF LoseAnswer, SlotShape
    <3> QED
      BY <1>7, <2>2, <2>4, <3>1 DEF LoseAnswer
  <2> QED
    BY <1>9, <2>3, <2>4
<1>10. ASSUME NEW c \in Slot, Hear(c)
       PROVE  slot' \in [Slot -> {NoSlot} \union TabCall] /\ Slots'
  <2>1. SlotShape(NoSlot)
    BY <1>a, SlotChanges
  <2>2. CASE slot' = [slot EXCEPT ![c] = NoSlot]
    BY <1>7, <2>1, <2>2
  <2>3. CASE slot' = [[d \in Slot |-> Unheard(slot[d])] EXCEPT ![c] = NoSlot]
    BY <1>a, <1>b, <2>1, <2>3, SlotChanges
  <2> QED
    BY <1>10, <2>2, <2>3 DEF Hear
<1>11. ASSUME NEW c \in Slot, HearRefusal(c)
       PROVE  slot' \in [Slot -> {NoSlot} \union TabCall] /\ Slots'
  BY <1>a, <1>7, <1>11, SlotChanges DEF HearRefusal
<1>12. ASSUME UNCHANGED slot
       PROVE  slot' \in [Slot -> {NoSlot} \union TabCall] /\ Slots'
  BY <1>a, <1>12 DEF Slots
<1>13. CASE SeeConfirmed \/ UNCHANGED tabVars
  BY <1>12, <1>13 DEF SeeConfirmed, tabVars
<1>14. ASSUME NEW k \in CartKey, LearnShopper(k) \/ ChangeShopper(k)
       PROVE  slot' \in [Slot -> {NoSlot} \union TabCall] /\ Slots'
  BY <1>2, <1>12, <1>14 DEF LearnShopper, ChangeShopper
<1>15. CASE RenewToken
  BY <1>2, <1>15 DEF RenewToken
<1> QED
  BY <1>1, <1>3, <1>5, <1>6, <1>8, <1>9, <1>10, <1>11, <1>13, <1>14, <1>15 DEF TabNext

LEMMA TabStep == ASSUME TabTypeOK, [TabNext]_tabVars PROVE TabOK'
<1> USE TabParts, CartTabAssumption, BareIsCart DEF Click, Mishap, storeVars
<1>1. CASE LoadPage
  <2>1. busy' \in [Panel -> Item \union {NoItem}]
    BY <1>1 DEF LoadPage, LeavePage
  <2>2. shopper' \in CartKey \union {"unknown"} /\ phase' = "idle" /\ due' = {} /\ unpaid' = FALSE
    BY <1>1 DEF LoadPage, LeavePage
  <2>3. UNCHANGED <<kept, items, merged, strayed, mishaps>> /\ clicks' \in 0..MaxClicks
    BY <1>1 DEF LoadPage, TabOK
  <2> QED
    BY <2>1, <2>2, <2>3 DEF TabOK
<1>2. CASE RenewToken
  BY <1>2 DEF RenewToken, CleanUp, TabOK
<1>3. CASE OrderPlaced
  BY <1>3 DEF OrderPlaced, TabOK, CartKey
<1>4. CASE SeeConfirmed
  BY <1>4 DEF SeeConfirmed, Reset, TabOK
<1>5. ASSUME NEW k \in CartKey, LearnShopper(k)
      PROVE  TabOK'
  BY <1>5 DEF LearnShopper, TabOK
<1>6. ASSUME NEW k \in CartKey, ChangeShopper(k)
      PROVE  TabOK'
  BY <1>6 DEF ChangeShopper, CleanUp, TabOK
<1>7. ASSUME NEW c \in Slot, Sync(c) \/ MergeOnLogin(c)
      PROVE  TabOK'
  BY <1>7 DEF Sync, MergeOnLogin, TabOK
<1>8. ASSUME NEW c \in Slot, NEW op, NEW i \in Item \union {NoItem}, NEW n, NEW v \in Panel,
             Press(c, op, i, n, v)
      PROVE  TabOK'
  BY <1>8 DEF Press, TabOK
<1>9. ASSUME NEW c \in Slot, ClearCart(c) \/ SwitchCurrency(c)
      PROVE  TabOK'
  BY <1>8, <1>9 DEF ClearCart, SwitchCurrency, Panel
<1>10. ASSUME NEW c \in Slot, NEW i \in Item, NEW v \in {"drawer", "page"},
              PressAdd(c, i) \/ StepQuantity(c, i, v) \/ RemoveLine(c, i, v)
       PROVE  TabOK'
  BY <1>8, <1>10 DEF PressAdd, StepQuantity, RemoveLine, Panel
<1>11. ASSUME NEW c \in Slot, Grant(c)
       PROVE  TabOK'
  <2>1. slot[c] \in TabCall /\ SlotShape(slot[c])
    BY <1>11, CallIsNoFreeSlot DEF Grant, NoSlot, Slots
  <2>2. kept' \in [CartKey -> Cart]
    BY <1>11, <2>1, AfterIsCarts DEF Grant
  <2> QED
    BY <1>11, <2>2 DEF Grant, TabOK
<1>12. ASSUME NEW c \in Slot, Refuse(c) \/ LoseAnswer(c)
       PROVE  TabOK'
  <2>1. CASE Refuse(c)
    BY <2>1 DEF Refuse, TabOK
  <2>2. CASE LoseAnswer(c)
    BY <2>2 DEF LoseAnswer, TabOK
  <2> QED
    BY <1>12, <2>1, <2>2
<1>13. ASSUME NEW c \in Slot, Hear(c)
       PROVE  TabOK'
  <2>1. slot[c] \in TabCall
    BY <1>13, CallIsNoFreeSlot DEF Hear, NoSlot
  <2>2. slot[c].view \in Cart /\ slot[c].alone \in BOOLEAN
    BY <2>1 DEF TabCall
  <2>3. CASE slot[c].op = "clear"
    BY <1>13, <2>3 DEF Hear, Reset, Free, TabOK
  <2>4. CASE slot[c].op = "switch"
    BY <1>13, <2>4 DEF Hear, LeavePage, TabOK
  <2>5. CASE slot[c].op \notin {"clear", "switch"}
    BY <1>13, <2>2, <2>5 DEF Hear, Hydrate, Free, TabOK
  <2> QED
    BY <2>3, <2>4, <2>5
<1>14. ASSUME NEW c \in Slot, HearRefusal(c)
       PROVE  TabOK'
  BY <1>14 DEF HearRefusal, Free, TabOK
<1>15. CASE UNCHANGED tabVars
  BY <1>15 DEF tabVars, TabOK
<1> QED
  BY <1>1, <1>2, <1>3, <1>4, <1>5, <1>6, <1>7, <1>9, <1>10, <1>11, <1>12, <1>13, <1>14, <1>15 DEF TabNext

(* The store, the calls under way and the carts kept for the customer keep their shape. *)
THEOREM TabShape == TabSpec => []TabTypeOK
<1>1. TabInit => TabTypeOK
  <2> HAVE TabInit
  <2>1. [i \in Item |-> 1] \in Cart
    BY DEF Cart
  <2>2. TabOK
    <3>1. kept \in [CartKey -> Cart]
      BY <2>1, BareIsCart DEF TabInit
    <3>2. clicks \in 0..MaxClicks /\ mishaps \in 0..MaxMishaps
      BY CartTabAssumption DEF TabInit
    <3>3. busy \in [Panel -> Item \union {NoItem}]
      BY DEF TabInit
    <3> QED
      BY <3>1, <3>2, <3>3, BareIsCart DEF TabInit, TabOK
  <2>3. slot \in [Slot -> {NoSlot} \union TabCall] /\ Slots
    BY DEF TabInit, Slots, SlotShape, NoSlot
  <2> QED
    BY <2>2, <2>3, TabParts
<1>2. TabTypeOK /\ [TabNext]_tabVars => TabTypeOK'
  BY SlotsStep, TabStep DEF TabTypeOK, TabOK, Slots, SlotShape
<1> QED
  BY <1>1, <1>2, PTL DEF TabSpec
(* A call that runs alone is the only one under way; an answer to one is what is kept; and    *)
(* unless the cart is about to be read anew, a call that is heard is for the tab's shopper.   *)
Unmixed ==
  \A c \in Slot : slot[c] # NoSlot /\ slot[c].alone =>
    /\ \A d \in Slot : d # c => slot[d] = NoSlot
    /\ slot[c].at = "served" => slot[c].view = kept[slot[c].key]
    /\ slot[c].heard => slot[c].key = KeyOf(shopper) \/ "get" \in due

(* No call that may have changed a cart waits for its answer to be heard. *)
Settled == \A c \in Slot : slot[c].at = "served" => slot[c].op = "get"

Shown == phase = "ready" /\ ~strayed /\ "get" \notin due /\ Settled => items = kept[KeyOf(shopper)]

(* A slot that was freed, crossed or left unheard holds no answer it did not hold. *)
LEMMA UnmixedKept ==
  ASSUME TabTypeOK, Unmixed, UNCHANGED kept, "get" \in due' \/ (KeyOf(shopper')  = KeyOf(shopper) /\ due \subseteq due'),
         \A d \in Slot : slot'[d] \in {slot[d], NoSlot, Unheard(slot[d])}
  PROVE  Unmixed'
<1> SUFFICES ASSUME NEW c \in Slot, slot'[c] # NoSlot, slot'[c].alone
             PROVE  /\ \A d \in Slot : d # c => slot'[d] = NoSlot
                    /\ slot'[c].at = "served" => slot'[c].view = kept[slot'[c].key]
                    /\ slot'[c].heard => slot'[c].key = KeyOf(shopper') \/ "get" \in due'
  BY DEF Unmixed
<1>1. \A d \in Slot : SlotShape(slot[d])
  BY TabParts DEF Slots
<1>2. slot[c] # NoSlot /\ slot[c].alone
  BY <1>1, SlotChanges
<1>3. \A d \in Slot : d # c => slot'[d] = NoSlot
  BY <1>2 DEF Unmixed, Unheard
<1>4. CASE slot'[c] = slot[c]
  BY <1>2, <1>3, <1>4 DEF Unmixed
<1>5. CASE slot'[c] = Unheard(slot[c])
  BY <1>1, <1>3, <1>5, SlotChanges
<1> QED
  BY <1>3, <1>4, <1>5

(* When the page is left, nobody hears the answers of the calls sent from it. *)
LEMMA UnmixedLeft ==
  ASSUME TabTypeOK, Unmixed, UNCHANGED kept, \A d \in Slot : slot'[d] \in {NoSlot, Unheard(slot[d])}
  PROVE  Unmixed'
<1> SUFFICES ASSUME NEW c \in Slot, slot'[c] # NoSlot, slot'[c].alone
             PROVE  /\ \A d \in Slot : d # c => slot'[d] = NoSlot
                    /\ slot'[c].at # "served" /\ ~slot'[c].heard
  BY DEF Unmixed
<1>1. \A d \in Slot : SlotShape(slot[d])
  BY TabParts DEF Slots
<1>2. slot'[c] = Unheard(slot[c])
  OBVIOUS
<1>3. slot[c] # NoSlot /\ slot[c].alone /\ slot'[c].at = "sent" /\ ~slot'[c].heard
  BY <1>1, <1>2, SlotChanges
<1>4. ASSUME NEW d \in Slot, d # c
      PROVE  slot'[d] = NoSlot
  <2>1. slot[d] = NoSlot
    BY <1>3, <1>4 DEF Unmixed
  <2>2. Unheard(slot[d]) = NoSlot
    BY <1>1, <2>1, SlotChanges
  <2> QED
    BY <2>2
<1> QED
  BY <1>3, <1>4

(* A call that begins mixes with none that is under way. *)
LEMMA UnmixedBegin ==
  ASSUME TabTypeOK, Unmixed, NEW c \in Slot, NEW op \in CallOp, NEW i \in Item \union {NoItem}, NEW n \in Nat,
         NEW v \in Panel, op \in {"add", "set", "remove"} => i \in Item, Begin(c, op, i, n, v),
         UNCHANGED <<kept, shopper>>
  PROVE  Unmixed' /\ \A d \in Slot : slot'[d].at = "served" => slot[d].at = "served" /\ slot'[d].op = slot[d].op
<1>1. /\ slot[c] = NoSlot
      /\ \A d \in Slot : d # c => slot'[d] = Crossed(slot[d])
      /\ slot'[c].at = "sent"
      /\ slot'[c].key = KeyOf(shopper)
      /\ slot'[c].alone => \A d \in Slot : slot[d] = NoSlot
  BY Beginning
<1>2. \A d \in Slot : SlotShape(slot[d])
  BY TabParts DEF Slots
<1>3. \A d \in Slot : d # c /\ slot'[d] # NoSlot => ~slot'[d].alone
  BY <1>1, <1>2, SlotChanges
<1>4. slot'[c].alone => \A d \in Slot : d # c => slot'[d] = NoSlot
  BY <1>1, <1>2, SlotChanges
<1>5. Unmixed'
  BY <1>1, <1>3, <1>4 DEF Unmixed
<1>6. ASSUME NEW d \in Slot, slot'[d].at = "served"
      PROVE  slot[d].at = "served" /\ slot'[d].op = slot[d].op
  <2>1. d # c
    BY <1>1, <1>6
  <2>2. slot'[d] = Crossed(slot[d])
    BY <1>1, <2>1
  <2> QED
    BY <1>2, <1>6, <2>2, SlotChanges DEF NoSlot
<1> QED
  BY <1>5, <1>6

LEMMA ShownStep == TabTypeOK /\ Unmixed /\ Shown /\ [TabNext]_tabVars => Unmixed' /\ Shown'
<1> SUFFICES ASSUME TabTypeOK, Unmixed, Shown, [TabNext]_tabVars
             PROVE  Unmixed' /\ Shown'
  OBVIOUS
<1> USE DEF storeVars
<1>a. \A d \in Slot : SlotShape(slot[d]) /\ (slot[d] # NoSlot => slot[d] \in TabCall)
  BY TabParts DEF Slots, SlotShape
<1>b. NoSlot.at = "idle"
  BY DEF NoSlot
<1>1. CASE LoadPage
  <2>1. /\ UNCHANGED kept /\ phase' = "idle" /\ due' = {}
        /\ \A d \in Slot : slot'[d] = Unheard(slot[d])
    BY <1>1 DEF LoadPage, LeavePage
  <2>2. Shown'
    BY <2>1 DEF Shown
  <2>3. Unmixed'
    BY <2>1, UnmixedLeft
  <2> QED
    BY <2>2, <2>3
<1>2. ASSUME NEW k \in CartKey, LearnShopper(k) \/ ChangeShopper(k)
      PROVE  Unmixed' /\ Shown'
  <2>1. /\ UNCHANGED kept /\ "get" \in due'
        /\ \A d \in Slot : slot'[d] \in {slot[d], Unheard(slot[d])}
    BY <1>2, TabParts DEF LearnShopper, ChangeShopper, CleanUp
  <2> QED
    BY <2>1, UnmixedKept DEF Shown
<1>3. CASE RenewToken
  <2>1. /\ UNCHANGED <<kept, shopper, items, phase>> /\ due \subseteq due' /\ ("get" \in due' => "get" \in due)
        /\ \A d \in Slot : slot'[d] = slot[d] \/ (slot'[d] = Unheard(slot[d]) /\ slot[d].op \in {"get", "merge"})
        /\ strayed' = (strayed \/ \E d \in Slot : slot[d].at = "served" /\ slot[d].op = "merge")
    BY <1>3, TabParts DEF RenewToken, CleanUp
  <2>2. Unmixed'
    BY <2>1, UnmixedKept
  <2>3. ~strayed' /\ Settled' => ~strayed /\ Settled
    BY <1>a, <2>1, SlotChanges DEF Settled
  <2> QED
    BY <2>1, <2>2, <2>3 DEF Shown
<1>4. CASE OrderPlaced
  <2>1. strayed' /\ \A d \in Slot : slot'[d] = Crossed(slot[d])
    BY <1>4 DEF OrderPlaced
  <2>2. \A d \in Slot : slot'[d] # NoSlot => ~slot'[d].alone
    BY <1>a, <2>1, SlotChanges
  <2> QED
    BY <2>1, <2>2 DEF Shown, Unmixed
<1>5. CASE SeeConfirmed
  <2>1. UNCHANGED <<kept, shopper, slot>> /\ phase' = "idle" /\ due \subseteq due'
    BY <1>5 DEF SeeConfirmed, Reset
  <2> QED
    BY <2>1, UnmixedKept DEF Shown
<1>6. ASSUME NEW c \in Slot, Sync(c)
      PROVE  Unmixed' /\ Shown'
  <2>1. Begin(c, "get", NoItem, 0, "other") /\ UNCHANGED <<kept, shopper>> /\ phase' = "loading"
    BY <1>6 DEF Sync
  <2> QED
    BY <2>1, UnmixedBegin DEF Shown, CallOp, Panel
<1>7. ASSUME NEW c \in Slot, NEW op \in CallOp, NEW i \in Item \union {NoItem}, NEW n \in Nat,
             NEW v \in Panel, op \in {"add", "set", "remove"} => i \in Item, Begin(c, op, i, n, v),
             UNCHANGED <<kept, shopper, items, phase, strayed>>, "get" \in due' <=> "get" \in due
      PROVE  Unmixed' /\ Shown'
  <2>1. Unmixed' /\ \A d \in Slot : slot'[d].at = "served" => slot[d].at = "served" /\ slot'[d].op = slot[d].op
    BY <1>7, UnmixedBegin
  <2>2. Settled' => Settled
    <3>1. \A d \in Slot : slot[d].at = "served" => slot'[d].at = "served" /\ slot'[d].op = slot[d].op
      <4>1. slot[c] = NoSlot /\ \A d \in Slot : d # c => slot'[d] = Crossed(slot[d])
        BY <1>7, Beginning
      <4> QED
        BY <1>a, <1>b, <4>1, SlotChanges
    <3> QED
      BY <3>1 DEF Settled
  <2> QED
    BY <1>7, <2>1, <2>2 DEF Shown
<1>8. ASSUME NEW c \in Slot, MergeOnLogin(c) \/ ClearCart(c) \/ SwitchCurrency(c)
      PROVE  Unmixed' /\ Shown'
  <2>1. /\ \E op \in {"merge", "clear", "switch"} : Begin(c, op, NoItem, 0, "other")
        /\ UNCHANGED <<kept, shopper, items, phase, strayed>> /\ ("get" \in due' <=> "get" \in due)
    BY <1>8 DEF MergeOnLogin, ClearCart, SwitchCurrency, Press
  <2> QED
    BY <1>7, <2>1 DEF CallOp, Panel
<1>9. ASSUME NEW c \in Slot, NEW i \in Item, NEW v \in {"drawer", "page"},
             PressAdd(c, i) \/ StepQuantity(c, i, v) \/ RemoveLine(c, i, v)
      PROVE  Unmixed' /\ Shown'
  <2>1. items[i] \in Nat
    BY TabParts DEF TabOK, Cart
  <2>2. /\ \E op \in {"add", "set", "remove"}, n \in Nat, w \in Panel : Begin(c, op, i, n, w)
        /\ UNCHANGED <<kept, shopper, items, phase, strayed, due>>
    BY <1>9, <2>1 DEF PressAdd, StepQuantity, RemoveLine, Press, Panel
  <2> QED
    BY <1>7, <2>2 DEF CallOp
<1>10. ASSUME NEW c \in Slot, Grant(c)
       PROVE  Unmixed' /\ Shown'
  <2> DEFINE x == slot[c]
             view == After(x)[x.key]
             y == [x EXCEPT !.at = "served", !.view = view]
  <2>1. /\ x.at = "sent" /\ kept' = After(x) /\ UNCHANGED <<shopper, items, phase, due>>
        /\ slot' = [slot EXCEPT ![c] = IF x.heard THEN y ELSE NoSlot]
        /\ strayed' = (strayed \/ ~x.heard)
    BY <1>10 DEF Grant
  <2>2. x \in TabCall /\ SlotShape(x) /\ x # NoSlot
    BY <1>a, <1>b, <2>1
  <2>3. view \in Cart
    <3>1. x.key \in CartKey
      BY <2>2 DEF TabCall
    <3> QED
      BY <2>2, <3>1, AfterIsCarts
  <2>4. (\A d \in Slot : d # c => slot'[d] = slot[d]) /\ view = kept'[x.key]
    BY <2>1, TabParts
  <2> HIDE DEF view
  <2>5. CASE x.heard
    <3>1. slot'[c] = y
      BY <2>1, <2>5, TabParts
    <3>2. /\ y.at = "served" /\ y.view = view /\ y.key = x.key /\ y.op = x.op /\ y.alone = x.alone
          /\ y.heard
      <4>1. SlotShape(y) /\ y.at = "served" /\ y.view = view /\ y.key = x.key /\ y.op = x.op
            /\ y.alone = x.alone
        <5> HIDE DEF x
        <5> QED
          BY <2>2, <2>3, <2>5, ServedSlot
      <4> HIDE DEF y
      <4> QED
        BY <4>1 DEF SlotShape
    <3> HIDE DEF y
    <3>3. Unmixed'
      BY <2>1, <2>2, <2>4, <2>5, <3>1, <3>2 DEF Unmixed
    <3>4. Settled' => x.op = "get"
      BY <3>1, <3>2 DEF Settled
    <3>5. Settled' => Settled
      BY <2>1, <2>4, <3>1, <3>2 DEF Settled
    <3>6. x.op = "get" => kept' = kept
      BY <2>1 DEF After
    <3> QED
      BY <2>1, <2>5, <3>3, <3>4, <3>5, <3>6 DEF Shown
  <2>6. CASE ~x.heard
    <3>1. strayed' /\ slot'[c] = NoSlot
      BY <2>1, <2>6, TabParts
    <3>2. \A d \in Slot : d # c /\ slot[d] # NoSlot => ~slot[d].alone
      BY <2>2 DEF Unmixed
    <3> QED
      BY <2>4, <3>1, <3>2 DEF Shown, Unmixed
  <2> QED
    BY <2>5, <2>6
<1>11. ASSUME NEW c \in Slot, Refuse(c) \/ LoseAnswer(c)
       PROVE  Unmixed' /\ Shown'
  <2>1. slot[c] \in TabCall /\ SlotShape(slot[c]) /\ slot[c] # NoSlot
    BY <1>a, <1>b, <1>11 DEF Refuse, LoseAnswer
  <2> DEFINE y == [slot[c] EXCEPT !.at = "refused"]
  <2>2. UNCHANGED <<kept, shopper, items, phase, due>> /\ \A d \in Slot : d # c => slot'[d] = slot[d]
    BY <1>11, TabParts DEF Refuse, LoseAnswer
  <2>3. slot'[c] \in {NoSlot, y} /\ (slot[c].at = "sent" \/ strayed') /\ (strayed => strayed')
    BY <1>11, TabParts DEF Refuse, LoseAnswer
  <2>4. y.at = "refused" /\ y.key = slot[c].key /\ y.alone = slot[c].alone /\ y.heard = slot[c].heard
    BY <2>1 DEF TabCall
  <2> HIDE DEF y
  <2>5. Unmixed'
    BY <2>1, <2>2, <2>3, <2>4 DEF Unmixed
  <2>6. Settled' /\ ~strayed' => Settled
    BY <2>2, <2>3 DEF Settled
  <2> QED
    BY <2>2, <2>3, <2>5, <2>6 DEF Shown
<1>12. ASSUME NEW c \in Slot, Hear(c)
       PROVE  Unmixed' /\ Shown'
  <2> DEFINE x == slot[c]
  <2>1. x.at = "served" /\ x \in TabCall /\ SlotShape(x) /\ x # NoSlot /\ UNCHANGED kept
    BY <1>a, <1>b, <1>12 DEF Hear
  <2>2. CASE x.op = "clear"
    <3>1. phase' = "idle" /\ UNCHANGED shopper /\ due \subseteq due'
          /\ \A d \in Slot : slot'[d] \in {slot[d], NoSlot}
      BY <1>12, <2>2, TabParts DEF Hear, Reset
    <3> QED
      BY <2>1, <3>1, UnmixedKept DEF Shown
  <2>3. CASE x.op = "switch"
    <3>1. phase' = "idle" /\ \A d \in Slot : slot'[d] \in {NoSlot, Unheard(slot[d])}
      BY <1>12, <2>3 DEF Hear, LeavePage
    <3>2. Unmixed'
      BY <2>1, <3>1, UnmixedLeft
    <3> QED
      BY <3>1, <3>2 DEF Shown
  <2>4. CASE x.op \notin {"clear", "switch"}
    <3>1. /\ items' = x.view /\ strayed' = ~x.alone /\ UNCHANGED <<shopper, due>>
          /\ \A d \in Slot : slot'[d] \in {slot[d], NoSlot}
      BY <1>12, <2>4, TabParts DEF Hear, Hydrate
    <3>2. Unmixed'
      BY <2>1, <3>1, UnmixedKept
    <3>3. x.alone /\ "get" \notin due => x.view = kept[KeyOf(shopper)]
      BY <2>1 DEF Unmixed, SlotShape
    <3> QED
      BY <2>1, <3>1, <3>2, <3>3 DEF Shown
  <2> QED
    BY <2>2, <2>3, <2>4
<1>13. ASSUME NEW c \in Slot, HearRefusal(c)
       PROVE  Unmixed' /\ Shown'
  <2>1. /\ UNCHANGED <<kept, shopper, items, due, strayed>> /\ phase' \in {phase, "error"}
        /\ slot[c].at = "refused" /\ \A d \in Slot : slot'[d] = IF d = c THEN NoSlot ELSE slot[d]
    BY <1>13, TabParts DEF HearRefusal
  <2>2. Settled' => Settled
    BY <2>1 DEF Settled
  <2> QED
    BY <2>1, <2>2, UnmixedKept DEF Shown
<1>14. CASE UNCHANGED tabVars
  BY <1>14, UnmixedKept DEF tabVars, Shown, Settled
<1> QED
  BY <1>1, <1>2, <1>3, <1>4, <1>5, <1>6, <1>8, <1>9, <1>10, <1>11, <1>12, <1>13, <1>14 DEF TabNext

(* A tab at rest shows the cart the server keeps for its shopper, whatever calls it made and  *)
(* in whatever order they were answered, unless calls crossed or an answer was lost since one *)
(* last ran alone.                                                                            *)
THEOREM CartShown == TabSpec => []RestingCartIsTrue
<1>1. TabInit => Unmixed /\ Shown
  BY DEF TabInit, Unmixed, Shown
<1>2. Shown => RestingCartIsTrue
  BY DEF Shown, Settled, RestingCartIsTrue, Calm, NoSlot
<1> QED
  BY <1>1, <1>2, ShownStep, TabShape, PTL DEF TabSpec
================================================================================
