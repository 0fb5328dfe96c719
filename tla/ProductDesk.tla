------------------------------ MODULE ProductDesk ------------------------------
(***************************************************************************)
(* The product screens of the admin console, in one browser tab: the page   *)
(* and the edit form of one product, the form for a new one, and the bulk   *)
(* delete of the list.  An edit is a PUT of the metadata and then one PUT   *)
(* per SKU row, none of them with a skuId; a bulk delete is one DELETE per  *)
(* product, all at once.  Other admins work on the same products.           *)
(*                                                                         *)
(* The catalog service is what its unique codes and its transactions make   *)
(* it; its caches, and two requests that overlap there, are in Catalog.     *)
(***************************************************************************)
EXTENDS Naturals

CONSTANTS
  Product,
  edited,      \* the product whose page the tab shows
  Code,        \* SKU codes
  Meta,        \* metadata a product may have
  blank,       \* the metadata of an empty form
  Save,        \* saves in flight at one time, at most (a bound)
  MaxOthers,   \* bound: changes by other admins
  MaxFailures  \* bound: failed requests

ASSUME ProductDeskAssumption ==
  /\ edited \in Product /\ blank \in Meta
  /\ MaxOthers \in Nat /\ MaxFailures \in Nat

VARIABLES
  live,       \* products there are
  meta,       \* the metadata of the edited one
  sku,        \* sku[c]: whose code c is: "free", "edited" or "other"
  data,       \* what ["product", id] last got, its stock and prices left out
  reading,    \* its fetch: "none", "asked", "read", or "gone" (404)
  got,        \* what it read
  broken,     \* the last one failed: the page shows an error in place of the product
  form,       \* the form on the screen
  save,       \* save[s]: a submission of a form
  selected,   \* selection.products
  bulk,       \* the bulk delete
  wire,       \* DELETEs of an earlier attempt, on their way
  others, failures

rowVars == <<live, meta, sku>>
pageVars == <<data, reading, got, broken>>
bulkVars == <<selected, bulk, wire>>
formVars == <<rowVars, pageVars, form, save, bulkVars, others, failures>>

Failure == failures < MaxFailures /\ failures' = failures + 1

(* GET /products/:id. *)
Stored == [meta |-> meta, codes |-> {c \in Code : sku[c] = "edited"}]

Nothing == [meta |-> blank, codes |-> {}]

NoForm == [of |-> "none", meta |-> blank, rows |-> {}, typed |-> FALSE, by |-> {}]
NoSave == [of |-> "none", at |-> "none", meta |-> blank, rows |-> {}, left |-> {}, alone |-> TRUE]
NoBulk == [ids |-> {}, todo |-> {}]

FormInit ==
  /\ live = Product
  /\ meta = blank
  /\ \E c \in Code : sku = [d \in Code |-> IF d = c THEN "edited" ELSE "free"]
  /\ data = Nothing /\ reading = "asked" /\ got = Nothing /\ broken = FALSE
  /\ form = NoForm
  /\ save = [s \in Save |-> NoSave]
  /\ selected = {} /\ bulk = NoBulk /\ wire = {}
  /\ others = 0 /\ failures = 0

(* saves, in which those of the edited product are no longer alone in changing it. *)
Disturbed(saves) ==
  [s \in Save |-> [saves[s] EXCEPT !.alone = saves[s].of # "edited"]]

Delete(p) ==
  /\ live' = live \ {p}
  /\ IF p = edited
     THEN /\ sku' = [c \in Code |-> IF sku[c] = "edited" THEN "free" ELSE sku[c]]
          /\ save' = Disturbed(save)
     ELSE UNCHANGED <<sku, save>>

(* Another admin renames or deletes a product, or takes a code. *)
OthersWork ==
  /\ others < MaxOthers /\ others' = others + 1
  /\ \/ /\ edited \in live
        /\ meta' \in Meta \ {meta}
        /\ save' = Disturbed(save)
        /\ UNCHANGED <<live, sku>>
     \/ (\E p \in live : Delete(p)) /\ UNCHANGED meta
     \/ /\ \E c \in Code :
             /\ sku[c] = "free"
             /\ sku' = [sku EXCEPT ![c] = "other"]
        /\ UNCHANGED <<live, meta, save>>
  /\ UNCHANGED <<pageVars, form, bulkVars, failures>>
--------------------------------------------------------------------------------
(* ProductDetailPage and the query it shares with the form. *)

(* A mount with data older than 30 s, or the network coming back. *)
Refetch ==
  /\ reading = "none" /\ reading' = "asked"
  /\ UNCHANGED <<rowVars, data, got, broken, form, save, bulkVars, others, failures>>

ReadProduct ==
  /\ reading = "asked"
  /\ IF edited \in live THEN reading' = "read" /\ got' = Stored
     ELSE reading' = "gone" /\ UNCHANGED got
  /\ UNCHANGED <<rowVars, data, broken, form, save, bulkVars, others, failures>>

(* The form is reset when the data changed; equal data stay the same object.  A page that *)
(* showed an error shows a form of its own.  The stock and the prices of the rows are not *)
(* among the data here: a sale resets the form as a change of the metadata does.          *)
AnswerProduct ==
  /\ reading = "read" /\ reading' = "none"
  /\ data' = got /\ got' = Nothing /\ broken' = FALSE
  /\ form' = IF form.of = "edited" /\ (broken \/ data # got)
             THEN [form EXCEPT !.meta = got.meta, !.rows = got.codes, !.typed = FALSE]
             ELSE form
  /\ UNCHANGED <<rowVars, save, bulkVars, others, failures>>

(* The error takes the place of the product and of its form; the form is still to be open. *)
ReadFails ==
  /\ (reading = "gone" /\ UNCHANGED failures) \/ (reading # "none" /\ Failure)
  /\ reading' = "none" /\ got' = Nothing /\ broken' = TRUE
  /\ form' = IF form.of = "edited" THEN [NoForm EXCEPT !.of = "edited"] ELSE form
  /\ UNCHANGED <<rowVars, data, save, bulkVars, others>>
--------------------------------------------------------------------------------
(* ProductFormSheet: that of the edited product is on its page, the other on the list. *)

Visible == form.of = "new" \/ (form.of = "edited" /\ ~broken)

OpenForm(of) ==
  /\ form.of = "none"
  /\ \/ of = "new" /\ form' = [NoForm EXCEPT !.of = of]
     \/ /\ of = "edited" /\ data # Nothing /\ ~broken
        /\ form' = [NoForm EXCEPT !.of = of, !.meta = data.meta, !.rows = data.codes]
  /\ UNCHANGED <<rowVars, pageVars, save, bulkVars, others, failures>>

(* The fields stay open to the admin while a save is under way. *)
Type ==
  /\ Visible
  /\ \E m \in Meta, R \in SUBSET Code :
       form' = [form EXCEPT !.meta = m, !.rows = R, !.typed = TRUE]
  /\ UNCHANGED <<rowVars, pageVars, save, bulkVars, others, failures>>

(* Escape and the overlay close the form also while it is being saved. *)
CloseForm ==
  /\ form.of # "none"
  /\ form' = NoForm
  /\ UNCHANGED <<rowVars, pageVars, save, bulkVars, others, failures>>

SubmitForm(s) ==
  /\ Visible /\ form.by = {} /\ form.rows # {}
  /\ save[s].at = "none"
  /\ save' = [save EXCEPT ![s] =
                [of |-> form.of, at |-> IF form.of = "new" THEN "post" ELSE "put",
                 meta |-> form.meta, rows |-> form.rows, left |-> form.rows, alone |-> TRUE]]
  /\ form' = [form EXCEPT !.by = {s}]
  /\ UNCHANGED <<rowVars, pageVars, bulkVars, others, failures>>

Refused(s) == save' = [save EXCEPT ![s].at = "failed"]

(* POST /products: a product and its SKUs in one transaction; a code that is taken fails it. *)
PostProduct(s) ==
  /\ save[s].at = "post"
  /\ IF \A c \in save[s].rows : sku[c] = "free"
     THEN /\ sku' = [c \in Code |-> IF c \in save[s].rows THEN "other" ELSE sku[c]]
          /\ save' = [save EXCEPT ![s].at = "rows", ![s].left = {}]
     ELSE Refused(s) /\ UNCHANGED sku
  /\ UNCHANGED <<live, meta, pageVars, form, bulkVars, others, failures>>

(* PUT /products/:id: the metadata of the form, whatever was saved since it was read. *)
PutProduct(s) ==
  /\ save[s].at = "put"
  /\ IF edited \in live
     THEN /\ meta' = save[s].meta
          /\ save' = [Disturbed(save) EXCEPT ![s] = [save[s] EXCEPT !.at = "rows"]]
     ELSE Refused(s) /\ UNCHANGED meta
  /\ UNCHANGED <<live, sku, pageVars, form, bulkVars, others, failures>>

(* A plausible bug: an error of a row does not end the save. *)
PutSkuAnyway(s) ==
  /\ save[s].at = "rows"
  /\ \E c \in save[s].left :
       /\ sku' = IF edited \in live /\ sku[c] = "free" THEN [sku EXCEPT ![c] = "edited"] ELSE sku
       /\ save' = [save EXCEPT ![s].left = @ \ {c}]
  /\ UNCHANGED <<live, meta, pageVars, form, bulkVars, others, failures>>

(* PUT /products/:id/skus without a skuId: a new SKU, so a code that is taken, by the product *)
(* itself too, breaks the unique index, and the rows after it are never sent.                 *)
PutSku(s) ==
  /\ save[s].at = "rows"
  /\ \E c \in save[s].left :
       IF edited \in live /\ sku[c] = "free"
       THEN /\ sku' = [sku EXCEPT ![c] = "edited"]
            /\ save' = [save EXCEPT ![s].left = @ \ {c}]
       ELSE Refused(s) /\ UNCHANGED sku
  /\ UNCHANGED <<live, meta, pageVars, form, bulkVars, others, failures>>

(* A request or its answer is lost. *)
SaveLost(s) ==
  /\ save[s].at \in {"post", "put", "rows"}
  /\ Refused(s) /\ Failure
  /\ UNCHANGED <<rowVars, pageVars, form, bulkVars, others>>

Saved(s) == save[s].at = "rows" /\ save[s].left = {}

(* onSuccess: closeProductForm() closes the form that is open by then. *)
SaveSucceeds(s) ==
  /\ Saved(s)
  /\ save' = [save EXCEPT ![s] = NoSave]
  /\ form' = NoForm
  /\ IF save[s].of = "edited" THEN reading' = "asked" /\ got' = Nothing ELSE UNCHANGED <<reading, got>>
  /\ UNCHANGED <<rowVars, data, broken, bulkVars, others, failures>>

(* A plausible bug: the form is closed when the save is settled. *)
SaveFailsClosing(s) ==
  /\ save[s].at = "failed"
  /\ save' = [save EXCEPT ![s] = NoSave]
  /\ form' = IF form.by = {s} THEN NoForm ELSE form
  /\ UNCHANGED <<rowVars, pageVars, bulkVars, others, failures>>

(* The form stays open, and what was saved is neither undone nor read anew. *)
SaveFails(s) ==
  /\ save[s].at = "failed"
  /\ save' = [save EXCEPT ![s] = NoSave]
  /\ form' = [form EXCEPT !.by = @ \ {s}]
  /\ UNCHANGED <<rowVars, pageVars, bulkVars, others, failures>>
--------------------------------------------------------------------------------
(* ProductsPage. *)

(* The checkboxes; a product that is gone stays selected. *)
Toggle(p) ==
  /\ selected' = IF p \in selected THEN selected \ {p} ELSE selected \union {p}
  /\ UNCHANGED <<rowVars, pageVars, form, save, bulk, wire, others, failures>>

(* Promise.all sends every DELETE at once. *)
ConfirmDelete ==
  /\ selected # {} /\ bulk = NoBulk
  /\ bulk' = [ids |-> selected, todo |-> selected]
  /\ UNCHANGED <<rowVars, pageVars, form, save, selected, wire, others, failures>>

(* The first DELETE that fails ends the attempt; the others are on their way, and the *)
(* selection stays, with what is gone by now.                                         *)
DeleteFails(p) ==
  /\ bulk' = NoBulk
  /\ wire' = wire \union (bulk.todo \ {p})

DeleteProduct(p) ==
  /\ p \in bulk.todo
  /\ IF p \in live
     THEN /\ Delete(p)
          /\ \/ bulk' = [bulk EXCEPT !.todo = @ \ {p}] /\ UNCHANGED <<wire, failures>>
             \/ DeleteFails(p) /\ Failure
     ELSE DeleteFails(p) /\ UNCHANGED <<live, sku, save, failures>>
  /\ UNCHANGED <<meta, pageVars, form, selected, others>>

LateDelete(p) ==
  /\ p \in wire /\ wire' = wire \ {p}
  /\ Delete(p)
  /\ UNCHANGED <<meta, pageVars, form, selected, bulk, others, failures>>

Deleted == bulk.ids # {} /\ bulk.todo = {}

(* onSuccess: the whole selection, whatever was selected since. *)
DeleteSucceeds ==
  /\ Deleted
  /\ selected' = {} /\ bulk' = NoBulk
  /\ UNCHANGED <<rowVars, pageVars, form, save, wire, others, failures>>

FormNext ==
  \/ OthersWork \/ Refetch \/ ReadProduct \/ AnswerProduct \/ ReadFails
  \/ Type \/ CloseForm
  \/ \E of \in {"edited", "new"} : OpenForm(of)
  \/ \E s \in Save :
       \/ SubmitForm(s) \/ PostProduct(s) \/ PutProduct(s) \/ PutSku(s)
       \/ SaveLost(s) \/ SaveSucceeds(s) \/ SaveFails(s)
  \/ \E p \in Product : Toggle(p) \/ DeleteProduct(p) \/ LateDelete(p)
  \/ ConfirmDelete \/ DeleteSucceeds

FormSpec == FormInit /\ [][FormNext]_formVars
--------------------------------------------------------------------------------
(* Properties. *)

FormOf == {"none", "edited", "new"}
SaveAt == {"none", "post", "put", "rows", "failed"}

(* Type correctness of the screens and of what they change. *)
FormTypeOK ==
  /\ live \subseteq Product /\ meta \in Meta /\ sku \in [Code -> {"free", "edited", "other"}]
  /\ data \in [meta : Meta, codes : SUBSET Code] /\ got \in [meta : Meta, codes : SUBSET Code]
  /\ reading \in {"none", "asked", "read", "gone"} /\ broken \in BOOLEAN
  /\ form \in [of : FormOf, meta : Meta, rows : SUBSET Code, typed : BOOLEAN, by : SUBSET Save]
  /\ save \in [Save -> [of : FormOf, at : SaveAt, meta : Meta, rows : SUBSET Code,
                        left : SUBSET Code, alone : BOOLEAN]]
  /\ bulk \in [ids : SUBSET Product, todo : SUBSET Product]
  /\ selected \subseteq Product /\ wire \subseteq Product
  /\ others \in 0..MaxOthers /\ failures \in 0..MaxFailures

(* What the console reports as done is done: when a save of the edited product is about to be *)
(* reported as saved, its metadata and every row of the form are stored, unless somebody else *)
(* changed the product meanwhile, and after a bulk delete everything selected is gone.        *)
DoneMeansDone ==
  /\ \A s \in Save :
       Saved(s) /\ save[s].of = "edited" /\ save[s].alone =>
         meta = save[s].meta /\ save[s].rows \subseteq Stored.codes
  /\ Deleted => bulk.ids \intersect live = {}

(* What the admin typed is lost only when the admin closes the form, when the product is read *)
(* anew and is not what it was (in the code a sale is enough) or cannot be read, or when a    *)
(* save succeeds: its own, or one whose form was closed before, which closes whatever form is *)
(* open by then.  A save that fails loses nothing.                                            *)
TypedEditsSurvive ==
  [][form.typed /\ ~form'.typed =>
       \/ CloseForm
       \/ form.of = "edited" /\ (data' # data \/ broken')
       \/ \E s \in Save : Saved(s) /\ save'[s] = NoSave]_formVars
================================================================================
