------------------------------ MODULE LooseLedger ------------------------------
(***************************************************************************)
(* What the catalog's stock tables show to the outside, for any callers.   *)
(* They are a ReservationLedger with one more step: a release reads the    *)
(* order's reservation without locking it, and so of two releases of an    *)
(* order that overlap the second may give the units back again.  It does   *)
(* so at most once for each overlap, and never without one.                *)
(***************************************************************************)
EXTENDS ReservationLedger

VARIABLES
  overlaps,  \* overlaps[o]: releases of o that began while another was running
  twice      \* twice[o]: how often a release of o gave back what another had given back

looseVars == <<ledgerVars, overlaps, twice>>

LooseInit ==
  /\ Init
  /\ overlaps = [o \in Order |-> 0]
  /\ twice = [o \in Order |-> 0]

Overlap(o) ==
  /\ overlaps' = [overlaps EXCEPT ![o] = @ + 1]
  /\ UNCHANGED <<ledgerVars, twice>>

GiveBackAgain(o) ==
  /\ o \notin held
  /\ twice[o] < overlaps[o]
  /\ twice' = [twice EXCEPT ![o] = @ + 1]
  /\ free' = [s \in Sku |-> free[s] + Lines[o][s]]
  /\ UNCHANGED <<held, overlaps>>

LooseNext ==
  \/ Next /\ UNCHANGED <<overlaps, twice>>
  \/ \E o \in Order : Overlap(o) \/ GiveBackAgain(o)

LooseSpec == LooseInit /\ [][LooseNext]_looseVars
================================================================================
