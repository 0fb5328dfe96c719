------------------------------- MODULE MCBrowser -------------------------------
(* Small instances of Sessions, CartTab and ProductPage for TLC, in one run: what a customer's *)
(* browser holds of a session, of a cart and of a currency.  They share no state, so a        *)
(* behaviour moves one of them and leaves the others as they began.                           *)
EXTENDS Sessions, CartTab, MCProductPage

CONSTANTS u1, u2, web, app, w1, a1, a2, i1, i2, k1, k2

VARIABLE part

(* The browser and the caller belong to different users; the caller may send two requests at once. *)
TheOwner == [c \in Client |-> IF c = app THEN u2 ELSE u1]
TheAsker == [r \in Request |-> IF r = w1 THEN web ELSE app]

(* Three beginnings for a tab: nothing kept, a customer's cart only, and one of each still to *)
(* be merged.                                                                                 *)
BrowserInit ==
  /\ part \in {"session", "cart", "page"}
  /\ Init /\ TabInit /\ PageInit
  /\ kept["user"] = Bare => ~merged
  /\ kept["guest"] # Bare <=> ~merged /\ kept["user"] # Bare
  /\ part # "cart" => merged

BrowserNext ==
  /\ UNCHANGED part
  /\ \/ part = "session" /\ Next /\ UNCHANGED <<tabVars, pageVars>>
     \/ part = "cart" /\ TabNext /\ UNCHANGED <<vars, pageVars>>
     \/ part = "page" /\ PageNext /\ UNCHANGED <<vars, tabVars>>

BrowserSpec == BrowserInit /\ [][BrowserNext]_<<part, vars, tabVars, pageVars>>

(* A mishap and a click in the cart, or two clicks. *)
Within == clicks + mishaps <= 2

BrowserSymmetry == Permutations(Request \ {w1}) \union Symmetric
================================================================================
