------------------------------ MODULE MCProductPage ------------------------------
(* Small instances of ProductPage for TLC. *)
EXTENDS ProductPage, TLC

CONSTANTS t1, t2, usd, vnd

(* The first variant has no price in vnd. *)
TwoVariants == {1, 2}
TwoPrices == <<{usd}, {usd, vnd}>>
TwoCodes == <<[code |-> "TEE-1"], [code |-> "TEE-2"]>>

(* Two sizes in two colours, all in stock and priced in both currencies. *)
FourVariants == 1..4
FourPrices == [s \in FourVariants |-> {usd, vnd}]
SizeAndColour ==
  <<[size |-> "S", colour |-> "red"], [size |-> "S", colour |-> "blue"],
    [size |-> "M", colour |-> "red"], [size |-> "M", colour |-> "blue"]>>

Symmetric == Permutations(Tab)
================================================================================
