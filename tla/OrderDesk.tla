------------------------------- MODULE OrderDesk -------------------------------
(***************************************************************************)
(* An order on the screens of the admin console, in one browser tab: the    *)
(* list, the drawer and the page, the react-query cache of ["order", id],   *)
(* and the button that asks the order service to ship or to deliver the     *)
(* order, with its optimistic update and its rollback.  Meanwhile payment   *)
(* results and other admins move the order as OrderLifecycle allows.        *)
(***************************************************************************)
EXTENDS OrderLifecycle, Naturals

CONSTANTS
  order,        \* the order the tab looks at
  Patch,        \* PATCHes in flight at one time, at most (a bound)
  MaxFaults     \* bound: failed requests, reloads and expired tokens

ASSUME OrderDeskAssumption == order \in Order /\ MaxFaults \in Nat

VARIABLES
  had,      \* statuses the row has had
  view,     \* what the tab shows
  token,    \* the access token of the session: "live" or "expired"
  cache,    \* the status the query last got or was set to
  fetch,    \* its fetch: "none", "asked" of the server, or the answer on its way
  stale,    \* the query was invalidated since it last got an answer
  failed,   \* its last fetch failed
  patch,    \* patch[p]: a PATCH of the status, the status it asks for, the cache before it
  own,      \* PATCHes begun by the buttons now on the screen
  overlap,  \* two PATCHes were in flight at once, and no answer was shown since
  unseen,   \* a PATCH was settled while its order was off the screen and being fetched
  faults

queryVars == <<cache, fetch, stale, failed>>
deskVars == <<lifecycleVars, had, view, token, queryVars, patch, own, overlap, unseen, faults>>

View == {"list", "drawer", "page"}
Shows(v) == v # "list"
Watched == Shows(view)
NoPatch == [at |-> "none", to |-> "NONE", prev |-> "NONE"]
InFlight == {p \in Patch : patch[p].at # "none"}
Fault == faults < MaxFaults /\ faults' = faults + 1

DeskInit ==
  /\ Init
  /\ had = {}
  /\ view = "list" /\ token = "live"
  /\ cache = "NONE" /\ fetch = "none"
  /\ stale = FALSE /\ failed = FALSE
  /\ patch = [p \in Patch |-> NoPatch]
  /\ own = {}
  /\ overlap = FALSE /\ unseen = FALSE
  /\ faults = 0

(* Checkout, payment results and other admins. *)
OthersMove ==
  /\ Place(order) \/ Pay(order) \/ \E to \in Status : MoveTo(order, to)
  /\ had' = (had \union {status'[order]}) \ {"NONE"}
  /\ UNCHANGED <<view, token, queryVars, patch, own, overlap, unseen, faults>>
--------------------------------------------------------------------------------
(* The screens. *)

(* A row of the list, "Full view", a link to the page, and back: the view that appears has *)
(* buttons of its own, and the query is fetched when it has no data, was invalidated, or   *)
(* is 30 s old.                                                                             *)
Navigate(v) ==
  /\ v # view /\ ~(view = "page" /\ v = "drawer")
  /\ status[order] # "NONE"
  /\ view' = v
  /\ \E aged \in BOOLEAN :
       fetch' = IF Shows(v) /\ fetch = "none" /\ (cache = "NONE" \/ stale \/ aged)
                THEN "asked" ELSE fetch
  /\ own' = {}
  /\ UNCHANGED <<lifecycleVars, had, token, cache, stale, failed, patch, overlap, unseen, faults>>

(* gcTime: what no screen shows is dropped after a while. *)
Forget ==
  /\ ~Watched /\ fetch = "none" /\ cache # "NONE"
  /\ cache' = "NONE"
  /\ stale' = FALSE /\ failed' = FALSE
  /\ UNCHANGED <<lifecycleVars, had, view, token, fetch, patch, own, overlap, unseen, faults>>

(* A plausible bug: no refetchInterval. *)
PollOnce ==
  /\ cache = "NONE" /\ Watched /\ fetch = "none"
  /\ fetch' = "asked"
  /\ UNCHANGED <<lifecycleVars, had, view, token, cache, stale, failed, patch, own,
                 overlap, unseen, faults>>

(* refetchInterval, every 10 s: nothing new while a fetch is on its way. *)
PollOrder ==
  /\ Watched /\ fetch = "none"
  /\ fetch' = "asked"
  /\ UNCHANGED <<lifecycleVars, had, view, token, cache, stale, failed, patch, own,
                 overlap, unseen, faults>>

(* GET /orders/:id. *)
Read ==
  /\ fetch = "asked" /\ token = "live"
  /\ fetch' = status[order]
  /\ UNCHANGED <<lifecycleVars, had, view, token, cache, stale, failed, patch, own,
                 overlap, unseen, faults>>

AnswerOrder ==
  /\ fetch \in Status
  /\ cache' = fetch /\ fetch' = "none"
  /\ stale' = FALSE /\ failed' = FALSE
  /\ overlap' = (overlap /\ InFlight # {})
  /\ unseen' = FALSE
  /\ UNCHANGED <<lifecycleVars, had, view, token, patch, own, faults>>

(* Two attempts failed: the view shows an error in place of the order and its buttons. *)
FetchFails ==
  /\ fetch # "none"
  /\ (fetch = "asked" /\ token = "expired" /\ UNCHANGED faults) \/ Fault
  /\ fetch' = "none" /\ failed' = TRUE
  /\ own' = {}
  /\ unseen' = FALSE
  /\ UNCHANGED <<lifecycleVars, had, view, token, cache, stale, patch, overlap>>
--------------------------------------------------------------------------------
(* OrderFulfillmentActions. *)

NEXT_STATUS == [CONFIRMED |-> "SHIPPED", SHIPPED |-> "DELIVERED"]

(* mutate and onMutate: the fetch under way is dropped, the status asked for is shown; data  *)
(* that is set counts as new.                                                               *)
Advance(p) ==
  /\ Watched /\ ~failed /\ own = {}
  /\ cache \in DOMAIN NEXT_STATUS
  /\ patch[p].at = "none"
  /\ patch' = [patch EXCEPT ![p] = [at |-> "sent", to |-> NEXT_STATUS[cache], prev |-> cache]]
  /\ cache' = NEXT_STATUS[cache]
  /\ fetch' = "none"
  /\ stale' = FALSE
  /\ own' = {p}
  /\ overlap' = (overlap \/ InFlight # {})
  /\ unseen' = FALSE
  /\ UNCHANGED <<lifecycleVars, had, view, token, failed, faults>>

(* PATCH /orders/:id/status: UpdateOrderStatusUseCase. *)
ApplyPatch(p) ==
  /\ patch[p].at = "sent"
  /\ IF token = "live" /\ CanTransition(status[order], patch[p].to)
     THEN /\ status' = [status EXCEPT ![order] = patch[p].to]
          /\ had' = had \union {patch[p].to}
          /\ patch' = [patch EXCEPT ![p].at = "moved"]
     ELSE /\ patch' = [patch EXCEPT ![p].at = "refused"]
          /\ UNCHANGED <<status, had>>
  /\ UNCHANGED <<paid, view, token, queryVars, own, overlap, unseen, faults>>

(* A plausible bug: a fetch under way is taken for the refetch. *)
RefetchedLazily == IF ~Watched \/ fetch # "none" THEN fetch ELSE "asked"

(* invalidateQueries: an order on the screen is fetched anew, a fetch under way given up *)
(* unless it is the first; of one that is not, nothing is fetched and nothing given up.  *)
Refetched == IF ~Watched \/ (fetch # "none" /\ cache = "NONE") THEN fetch ELSE "asked"

(* onSettled; the PATCH is over whether or not its button is still there. *)
Settle(p) ==
  /\ patch' = [patch EXCEPT ![p] = NoPatch]
  /\ own' = own \ {p}
  /\ stale' = TRUE
  /\ fetch' = Refetched
  /\ unseen' = (~Watched /\ fetch # "none")
  /\ UNCHANGED <<lifecycleVars, had, view, token, overlap>>

PatchSucceeds(p) ==
  /\ patch[p].at = "moved"
  /\ Settle(p)
  /\ UNCHANGED <<cache, failed, faults>>

(* A plausible bug: the order is not set back when its PATCH fails. *)
PatchFailsForward(p) ==
  /\ patch[p].at # "none"
  /\ (patch[p].at = "refused" /\ UNCHANGED faults) \/ Fault
  /\ Settle(p)
  /\ UNCHANGED <<cache, failed>>

(* onError: the PATCH was refused, or it or its answer was lost.  The status set back counts *)
(* as new only until onSettled invalidates it, at once.                                      *)
PatchFails(p) ==
  /\ patch[p].at # "none"
  /\ (patch[p].at = "refused" /\ UNCHANGED faults) \/ Fault
  /\ cache' = patch[p].prev
  /\ failed' = FALSE
  /\ Settle(p)
--------------------------------------------------------------------------------
(* The session. *)

(* The token is never refreshed, nor does anything lead to the login page. *)
Expire ==
  /\ token = "live" /\ token' = "expired"
  /\ Fault
  /\ UNCHANGED <<lifecycleVars, had, view, queryVars, patch, own, overlap, unseen>>

(* The tab is loaded anew, with a sign-out and a sign-in between or without. *)
Reload ==
  /\ Fault
  /\ token' \in {token, "live"}
  /\ view' = IF view = "drawer" THEN "list" ELSE view
  /\ cache' = "NONE"
  /\ fetch' = IF Shows(view') THEN "asked" ELSE "none"
  /\ stale' = FALSE /\ failed' = FALSE
  /\ patch' = [p \in Patch |-> NoPatch]
  /\ own' = {}
  /\ overlap' = FALSE /\ unseen' = FALSE
  /\ UNCHANGED <<lifecycleVars, had>>

DeskNext ==
  \/ OthersMove \/ Expire \/ Reload
  \/ Forget \/ PollOrder \/ Read \/ AnswerOrder \/ FetchFails
  \/ \E v \in View : Navigate(v)
  \/ \E p \in Patch : Advance(p) \/ ApplyPatch(p) \/ PatchSucceeds(p) \/ PatchFails(p)

(* The interval goes on while the order is on the screen, and the server answers. *)
DeskFairness == WF_deskVars(PollOrder) /\ WF_deskVars(Read) /\ WF_deskVars(AnswerOrder)

DeskSpec == DeskInit /\ [][DeskNext]_deskVars /\ DeskFairness
--------------------------------------------------------------------------------
(* Properties. *)

DeskTypeOK ==
  /\ status[order] \in Status \union {"NONE"}
  /\ had \subseteq Status
  /\ view \in View /\ token \in {"live", "expired"}
  /\ cache \in Status \union {"NONE"}
  /\ fetch \in Status \union {"none", "asked"}
  /\ stale \in BOOLEAN /\ failed \in BOOLEAN
  /\ patch \in [Patch -> [at : {"none", "sent", "moved", "refused"},
                          to : Status \union {"NONE"}, prev : Status \union {"NONE"}]]
  /\ own \subseteq Patch
  /\ overlap \in BOOLEAN /\ unseen \in BOOLEAN
  /\ faults \in 0..MaxFaults

(* When no PATCH of the tab is in flight, the status it shows is one the order has had: an    *)
(* optimistic status never survives the failure of its PATCH, unless a second PATCH, of a     *)
(* drawer opened again while the first was in flight, remembered it as the one to go back to. *)
GhostsCostOverlap ==
  InFlight = {} /\ cache # "NONE" /\ ~overlap => cache \in had

Rank == [PENDING |-> 1, INVENTORY_RESERVED |-> 2, PAYMENT_PENDING |-> 3, CONFIRMED |-> 4,
         SHIPPED |-> 5, DELIVERED |-> 6, CANCELLED |-> 7]

GoesBack ==
  /\ Watched /\ Watched'
  /\ "NONE" \notin {cache, cache'}
  /\ Rank[cache'] < Rank[cache]

(* Once no PATCH is in flight, the status on the screen never goes back to an earlier one: an *)
(* answer the server gave before a PATCH is not shown after it.  It does so after two PATCHes *)
(* at once, and when the order was off the screen, and being fetched, as its PATCH was        *)
(* settled: invalidateQueries gives up no fetch nobody observes.                              *)
SettledNeverGoesBack ==
  [][GoesBack => InFlight # {} \/ overlap \/ unseen]_deskVars

(* An order kept on the screen with a token that has not expired shows its status in the end, *)
(* whatever failed on the way.                                                                *)
ViewCatchesUp ==
  []<>(Watched /\ token = "live" /\ InFlight = {} => cache = status[order])
================================================================================
