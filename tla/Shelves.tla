-------------------------------- MODULE Shelves --------------------------------
(***************************************************************************)
(* The product list of the storefront, walked page by page with "Load more" *)
(* while the catalog changes: a page is what the catalog service lists      *)
(* after a cursor, the id of the last product of the page before, and it    *)
(* may be served from the data cache of Next.js, as old as it may be.       *)
(***************************************************************************)
EXTENDS Integers, FiniteSetsExt

CONSTANTS
  MaxId,       \* products have the ids 1..MaxId, in the order of the list
  PageSize,
  MaxChanges   \* bound: changes to the catalog

ASSUME ShelvesAssumption == MaxId \in Nat /\ PageSize \in Nat \ {0} /\ MaxChanges \in Nat

VARIABLES
  onSale,    \* products there are, active or not: the list does not ask
  priced,    \* products with a price in the customer's currency for every SKU
  steady,    \* products whose row and prices have not changed
  cached,    \* cached[c]: the page after cursor c in the data cache
  cursor,    \* the cursor of the page on the screen
  grid,      \* what it shows
  shown,     \* products this walk has shown
  twice,     \* products it has shown more than once
  changes

catalogVars == <<onSale, priced, steady, changes>>
walkVars == <<cursor, grid, shown, twice>>
shelfVars == <<catalogVars, cached, walkVars>>

Id == 1..MaxId
Cursor == 0..MaxId   \* 0: the first page is asked for, or there is no next one
NoPage == [items |-> {}, next |-> -1]
Page == [items : SUBSET Id, next : Cursor \union {-1}]

(* The rows after the cursor; a cursor whose row is gone has no rows after it. *)
Rows(c) == IF c = 0 \/ c \in onSale THEN {p \in onSale : p > c} ELSE {}

(* The first n rows. *)
First(n, rows) == {p \in rows : Cardinality({q \in rows : q < p}) < n}

(* A plausible bug: the cursor is the row that was read ahead, which the next page skips. *)
NextCursorAhead(rows) ==
  IF Cardinality(rows) > PageSize THEN Max(First(PageSize + 1, rows)) ELSE 0

(* One row more than the page is read, to know whether there is a next one. *)
NextCursor(rows) ==
  IF Cardinality(rows) > PageSize THEN Max(First(PageSize, rows)) ELSE 0

ListPage(c) == [items |-> First(PageSize, Rows(c)), next |-> NextCursor(Rows(c))]

(* A product of the page without a price in the currency fails the whole page. *)
Listable(c) == ListPage(c).items \subseteq priced

WalkInit ==
  /\ onSale = Id /\ steady = Id
  /\ priced \in {Id, Id \ {MaxId}}
  /\ cached = [c \in Cursor |-> NoPage]
  /\ cursor = 0 /\ grid = NoPage /\ shown = {} /\ twice = {}
  /\ changes = 0

(* A product is created or deleted, gets a price or loses one. *)
ChangeCatalog(p) ==
  /\ changes < MaxChanges /\ changes' = changes + 1
  /\ steady' = steady \ {p}
  /\ \/ /\ onSale' = (onSale \ {p}) \union ({p} \ onSale)
        /\ UNCHANGED priced
     \/ /\ p \in onSale
        /\ priced' = (priced \ {p}) \union ({p} \ priced)
        /\ UNCHANGED onSale
  /\ UNCHANGED <<cached, walkVars>>

(* revalidate = 60: a page asked for when it is older is served, and read anew behind it; one *)
(* that fails stays as it is.                                                                 *)
Revalidate(c) ==
  /\ cached[c] # NoPage /\ Listable(c)
  /\ cached' = [cached EXCEPT ![c] = ListPage(c)]
  /\ UNCHANGED <<catalogVars, walkVars>>

Drop(c) ==
  /\ cached[c] # NoPage
  /\ cached' = [cached EXCEPT ![c] = NoPage]
  /\ UNCHANGED <<catalogVars, walkVars>>

Show(c, pg) ==
  /\ cursor' = c /\ grid' = pg
  /\ shown' = (IF c = 0 THEN {} ELSE shown) \union pg.items
  /\ twice' = IF c = 0 THEN {} ELSE twice \union (shown \intersect pg.items)

(* ProductGrid with cursor c: a page that fails is shown as an empty one, and not cached. *)
Request(c) ==
  \/ /\ cached[c] # NoPage
     /\ Show(c, cached[c])
     /\ UNCHANGED cached
  \/ /\ cached[c] = NoPage /\ Listable(c)
     /\ Show(c, ListPage(c))
     /\ cached' = [cached EXCEPT ![c] = ListPage(c)]
  \/ /\ cached[c] = NoPage /\ ~Listable(c)
     /\ Show(c, [NoPage EXCEPT !.next = 0])
     /\ UNCHANGED cached

OpenList ==
  /\ grid = NoPage \/ grid.next = 0
  /\ Request(0)
  /\ UNCHANGED catalogVars

LoadMore ==
  /\ grid.next > 0
  /\ Request(grid.next)
  /\ UNCHANGED catalogVars

WalkNext ==
  \/ OpenList \/ LoadMore
  \/ \E p \in Id : ChangeCatalog(p)
  \/ \E c \in Cursor : Revalidate(c) \/ Drop(c)

WalkSpec == WalkInit /\ [][WalkNext]_shelfVars
--------------------------------------------------------------------------------
(* Properties. *)

ShelvesTypeOK ==
  /\ onSale \subseteq Id /\ priced \subseteq Id /\ steady \subseteq Id
  /\ cached \in [Cursor -> Page]
  /\ cursor \in Cursor /\ grid \in Page
  /\ shown \subseteq Id /\ twice \subseteq Id
  /\ changes \in 0..MaxChanges

(* A walk that ends at a page of products has shown every product that was there all along,   *)
(* and nothing twice, however old each of its pages was.  (One whose cursor was deleted, or   *)
(* one of whose products lacks a price, ends at an empty page, with more to come behind it.)  *)
WalkListsAll ==
  grid.items # {} /\ grid.next = 0 => steady \subseteq shown /\ twice = {}
================================================================================
