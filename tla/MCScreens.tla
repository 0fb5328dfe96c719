------------------------------- MODULE MCScreens -------------------------------
(* Small instances of OrderDesk, ProductDesk and Shelves for TLC, in one run: they share no   *)
(* state, so a behaviour moves the screen it starts with and leaves the others as they began. *)
EXTENDS OrderDesk, ProductDesk, Shelves, TLC

CONSTANTS o1, r1, r2, p1, p2, c1, c2, m1, m2, s1

VARIABLE screen

screensVars == <<screen, deskVars, formVars, shelfVars>>

ScreensInit ==
  /\ screen \in {"order", "product", "shelves"}
  /\ DeskInit /\ WalkInit
  /\ FormInit /\ sku[c1] = "edited"   \* no loss: the codes are symmetric

ScreensNext ==
  /\ UNCHANGED screen
  /\ \/ screen = "order" /\ DeskNext /\ UNCHANGED <<formVars, shelfVars>>
     \/ screen = "product" /\ FormNext /\ UNCHANGED <<deskVars, shelfVars>>
     \/ screen = "shelves" /\ WalkNext /\ UNCHANGED <<deskVars, formVars>>

ScreensSpec == ScreensInit /\ [][ScreensNext]_screensVars /\ (screen = "order" => DeskFairness)

(* No bulk delete is chosen, or has been run, in the tab. *)
NoDeletes ==
  /\ selected = {} /\ bulk = NoBulk /\ wire = {}
  /\ \/ live = Product
     \/ live = Product \ {edited} /\ others = 1

NoForms ==
  /\ form = NoForm /\ save = [s \in Save |-> NoSave]
  /\ reading = "asked" /\ data = Nothing

(* Bounds on the product's screens: the tab deletes in bulk or edits; it meets one failed    *)
(* request or one change by another admin, and neither with a new product being saved, or a  *)
(* save under way as an answer or an error arrives; a new product has one metadata, as       *)
(* nothing tells it from another.                                                            *)
Within ==
  /\ NoDeletes \/ NoForms
  /\ others + failures <= 1
  /\ \A s \in Save :
       /\ save[s].of = "new" => save[s].meta = blank /\ others + failures = 0
       /\ (reading = "read" \/ broken) /\ save[s] # NoSave => others + failures = 0
================================================================================
