# A TLA+ model of jCommerce

jCommerce is a shop made of NestJS services: a catalog with stock, an order service with a
checkout saga over Stripe, a search index, an email worker, an authentication service, a
gateway, a storefront and an admin console.  They talk over HTTP and over RabbitMQ events, and
each keeps its own PostgreSQL schema or Redis keys.  This directory models the parts that keep
state which several actors change, checks them with TLC, and proves their main invariants with
TLAPS.

`PROJECT.json` holds the same facts in machine-readable form: the components, the runs, the
source lines of every definition, the hazards and the two divergences that are runs.

## Inventory of the system

Paths are under `src/apps/`.

| component | state | operations | hard behaviour | correct when |
|---|---|---|---|---|
| catalog inventory (`catalog-service`) | `inventory(available, reserved)` per SKU, `reservations(orderId, skuId, quantity)` | `reserveWithLock`, `releaseForOrder`, `upsertMany` | concurrent transactions, row locks, deadlock, retries | no oversell, all or nothing, `reserved` is the sum of the reservations |
| checkout saga (`order-service`) | order row, in-memory aggregate | reserve, create intent, save, compensate | a failure at any await, calls that time out and still run | nobody pays for an order that is not saved; a failed checkout keeps no stock |
| webhook intake | `webhook_events` | record the event once, publish it | failure between the two | no payment result is lost |
| payment results and status | order row and `outbox_events`, advisory locks, queues | `MarkPaymentSucceeded`, `MarkPaymentFailed`, `UpdateOrderStatus` | redelivery, requeue, dead letters, interleaved handlers, crash | rows follow the transition table, events tell the row's history |
| reconciliation cron | busy flag | sweep cancelled orders, look for paid orders that are stuck | races the handlers and late calls | stranded stock is given back, stuck payments surface |
| transactional outbox (both services) | `outbox_events.published_at`, row locks | `drainBatch` | several replicas, lost confirms, expired transactions | nothing lost, repeats only after failures |
| cart (`order-service`) | one Redis value per session key | add, update, remove, clear, merge, get, and the checkout that reads and deletes it | read-modify-write without compare-and-set, crash inside a merge | one currency, no unit lost or made |
| catalog products and cache | products, SKUs, prices, inventory rows, Redis cache | create, update, upsert SKU, delete, get | save of a whole product read earlier, fill racing eviction | edits that do not overlap are kept; the cache is stale for a bounded time |
| search index | Elasticsearch indexes behind an alias | index, delete, reindex and swap, search, suggest | events in any order, events during a reindex, two reindexes | the index ends up as the catalog is; there is always one index |
| email worker | queue, BullMQ jobs keyed by order id | consume, enqueue, send, retry | crash after the send, lost connection, forgotten jobs | one confirmation mail, none dropped |
| auth | accounts, refresh-token blocklist in Redis | register, login, refresh, logout | two refreshes of one token, clients that keep an old one | a token buys one successor; only reuse revokes a user |
| gateway | none | guard, proxy, throttle | whom it turns away | in `Carts` and `Sessions`, as far as they depend on it |
| storefront | cart store and its flag, currency in a cookie and in `localStorage`, `sessionStorage`, NextAuth session, data cache | click, sync, merge, choose a variant or a currency, checkout, pay, load more | answers out of order, reloads, several tabs, pages of different age | the tab shows the customer's cart, and it is in the currency chosen; a cart is paid once |
| admin console | react-query cache, forms, selection | ship, deliver, edit, bulk delete | optimistic updates, refetches, saves of several requests | no ghost status; what is reported as done is done |
| shared packages, deployment | | | | not modelled |

How they interact: the checkout reads the cart (Redis), calls the catalog over HTTP to
reserve, calls Stripe, and saves the order with its outbox event.  Stripe calls the webhook,
which records the event and publishes it to RabbitMQ.  The consumer in the same process
handles it under a PostgreSQL advisory lock, calling the catalog to release on a decline.
The outbox poller publishes `order.*` events; the email worker consumes `order.confirmed`.
Product changes go through the catalog's own outbox to the search service, which asks the
catalog for the product.  Both front ends call the services through the gateway with tokens
of the auth service.

## Modules

| module | what it is | the code it follows |
|---|---|---|
| `ReservationLedger` | what the catalog promises: atomic `Reserve` and `Release` of an order | the contract of `PrismaInventoryRepository` |
| `LooseLedger` | the ledger as its callers may see it: a second give-back for each overlap of two releases | the same, with `releaseForOrder`'s unlocked `findMany` |
| `Inventory` | the catalog's transactions, statement by statement; refines `LooseLedger` | `prisma-inventory.repository.ts`, the two use cases, the controller |
| `OrderLifecycle` | what the aggregate promises: the transition table, and that only a paid order is confirmed | `order-status.ts`, `order.entity.ts` |
| `LooseLifecycle` | the lifecycle when a lock may expire: a save may overwrite the row of such an order | `order.entity.ts`, `withAdvisoryLock` |
| `OrderSaga` | checkout, webhook, consumers, admin, cron and their faults; refines `LooseLifecycle` | the saga use cases, repository, consumer, cron, adapters of `order-service` |
| `Outbox` | `drainBatch` on several replicas | `prisma-outbox.repository.ts`, `outbox-poller.cron.ts`, the RabbitMQ publisher |
| `OrderMail` | the mail of a confirmed order, from its `Outbox` row to SMTP | `email-worker/src/modules` |
| `Carts` | the requests of the cart routes and of the checkout on Redis values | the cart use cases, `cart.entity.ts`, `redis-cart.repository.ts`, the controller, the gateway's guard |
| `Catalog` | edits and reads of products through the cache | the product use cases, both product repositories |
| `Additions` | `Catalog` with two history variables, to say which SKUs a later save may drop | as `Catalog` |
| `SearchIndex` | consumer, reindex and queries on top of `Catalog` | `search-service/src/modules` |
| `Sessions` | token rotation, and the two kinds of client that refresh | the auth use cases, the blocklist, `auth-config.ts`, `api-client.ts` |
| `CartTab` | the cart in one tab of the storefront | `cart-store.ts`, the cart hooks, buttons and pages |
| `ProductPage` | the product pages in the tabs of one browser: the variant, the currency of prices and cart | `pdp-buy-box.tsx`, `variant-selector.tsx`, `currency-switcher.tsx`, `currency-store.ts`, `add-to-cart-button.tsx` |
| `CheckoutPage` | the checkout of a customer's tabs, over `OrderLifecycle` | `checkout-form.tsx`, `checkout-payment.tsx`, `use-checkout-client-secret.ts` |
| `Shelves` | the product list, page by page | `products/page.tsx`, `list-products.use-case.ts`, the repository's `list` |
| `OrderDesk` | an order on the admin's screens, over `OrderLifecycle` | the order screens, `order-fulfillment-actions.tsx`, `providers.tsx` |
| `ProductDesk` | the product forms and the bulk delete | `product-form.tsx`, the product screens, the catalog routes they call |
| `MC...` | instances for TLC | |
| `Sums` | lemmas on the sum of a function over a finite set | |
| `...Proofs` | theorems and proofs | |

Three ways of composing are used.  By refinement: `Inventory` shows that the catalog's
transactions look like `LooseLedger` from outside, which is `ReservationLedger` and a second
give-back for each overlap of two releases.  `OrderSaga` calls `Catalog!Reserve` and
`Catalog!Release` of `ReservationLedger` as single steps, without the second give-back: that one
adds units to `free`, and no property of the saga speaks of their number, only of the orders that
hold some.  `OrderSaga` in turn implements `LooseLifecycle`, which is `OrderLifecycle` for every
order whose locks have lasted.  `CheckoutPage` and `OrderDesk` know of the server only
`OrderLifecycle`.  By extension: `OrderMail` runs on the steps of `Outbox`, `SearchIndex` and
`Additions` on those of `Catalog`.  And side by side: `MCRowLocks`, `MCBrowser` and `MCScreens`
each check models that share no state in one run, in which a behaviour moves one of them and
leaves the others alone.

### Inventory

`available`, `reserved` and `reservations` are the committed tables (a reservation is one
order: its rows are written and deleted together).  Each `Call` is one HTTP request with its
transaction: `lookup` (`findMany`), `lock` (one row at a time: a reserve in the order of
`ORDER BY sku_id ... FOR UPDATE`, a release in whatever order `findMany` returned, through
its `UPDATE`s), `check` (the stock loop) and `write` (the rest and the commit).  Under READ
COMMITTED the updates of an open transaction are increments of rows it keeps locked, so they
are applied at the commit.  `AbortVictim` is PostgreSQL's deadlock detector; `Rollback` is a
crash, a lost connection or a transaction timeout at any point.  `DuplicateReserve` is the
unique constraint stopping the second of two concurrent reserves of one order.

The order service does not keep two releases of one order apart: a release that timed out is
retried, or repeated by the sweep, while it may still be running, and since `findMany` locks
nothing both may give the stock back.  The model lets them.  Two history variables tell what that
costs: `overlaps[o]` counts the releases of `o` begun while another ran, `twice[o]` those that gave
back what was given back already.  `ReservedIsSumOfReservations` and `ImplementsLedger` hold of
every behaviour, with each second give-back charged to an overlap of its own; `MaxOverlaps` bounds
the overlaps of an order.

### OrderSaga

One process, as the consumer's comment pins it; every `await` is a point where others run.
`status`, `piid` and `outbox` are the committed row and its events, always written by one
transaction (`SaveOrder`).  `checkout[o]` is where the call of `StartCheckout` is, with one
order id per call, because the code draws a fresh UUID.  `pc[h]`, `job[h]`, `seen[h]` are a
handler: a delivery of the consumer or an admin request.  It enters under the advisory lock,
reads the row, decides (`Decide` combines the three use cases), possibly releases the stock,
saves, commits the lock's transaction, and acks, requeues or answers.

Faults are steps of their own, limited by `MaxFaults`, and `Faults` selects their kinds:
`catalog` (a call times out; `late` remembers it, and `LateCall` may execute it at any later
time), `stripe` (intent creation fails, with or without an intent being created), `publish`
(the webhook's publish fails), `db` (PostgreSQL or Redis throws), `crash` (the process dies,
the database drops its locks, the broker redelivers), and `lockTimeout` (Prisma rolls back
the transaction that holds the advisory lock, while the use case inside runs on).  The history
variable `expired` names the orders that such an expiry has hit: their row may be overwritten by a
save that read an older status, and the properties say what remains true of them.

The stale-paid scan and the second half of the orphan predicate ask for `PENDING` rows.  No
checkout leaves such a row (it saves `PAYMENT_PENDING` or `CANCELLED`), so they are empty in
the model because they are empty in the program.

### Outbox

Rows are numbered by `created_at`, and may commit in another order.  A replica claims the
first unlocked, unpublished rows, publishes them one at a time and marks the confirmed ones
at the commit.  Publishing may throw with or without the broker having accepted the message;
the transaction may expire under the loop, which goes on publishing; a replica may crash.

### OrderMail

`ready` counts the messages of the queue; what `Outbox` hands to the broker is added to it.
Each `Handler` is a delivery: enqueue, then ack, or requeue when Redis fails.  A BullMQ job is
`waiting`, `active`, `orphan` (its worker is gone and the stall check has not come round),
`completed`, `failed`, or forgotten once Redis has evicted it; `jobId = orderId` makes `add` a
no-op while it is known.  `sub` tells whether the consumer listens: `onModuleInit` swallows a
failure, which leaves it deaf, and a lost connection is never subscribed again.

### Carts

A value is the currency, the quantity of each line and, as a history variable, the currencies the
lines were added in.  A request reads (`Find`, and `FindGuest` for a merge), works on its copy and
writes it back (`Persist`) in separate steps; `raced` remembers keys that two requests used at
once, since nothing compares what is overwritten with what was read.  The merge and the checkout
have two writes, with crashes in between.  The routes' keys are derived as the code does, which
turns away a customer without `X-Guest-Session` and, at the gateway, every guest.

### Catalog and SearchIndex

A product is what the properties tell apart: whether it is active, its SKUs and the currencies
each has a price in.  An edit reads through the cache, changes the copy and writes all of it
back (`Written` deletes the SKUs it was not given, and their inventory with them), then evicts
the cache, which may fail; a `get` may fill the cache with what it read before.  `asked` is
what the accepted edits amount to, one after the other.

That a save deletes the SKUs it was not given is how another admin's SKU goes, with its inventory
row.  `Additions` follows each SKU from its addition: it is `clean` if no other request on the
product, a `get` included, was under way beside the request that added it, and that request left
no cache entry behind.  Whatever overlaps or fails later, a clean SKU keeps its inventory row as
long as its product is there (`StockGoesWithItsProduct`); one that is not clean may lose it, which
is a divergence from the repository's comment (below).

A handler of `product.indexed` asks the catalog for the product once per currency, so its
document may mix two states of it.  A reindex creates the next version, walks the pages per
currency, writes what they had, swaps the alias and deletes the old index; a boot creates the
first one.  `unsure` collects the products that a known cause may have left with an old document
(two handlers at once, a stale cache entry, a dead letter, an event handled while a reindex
ran, the `DELETE` of a product that a save has brought back).  What a search, a price filter and
the suggestions then return of an active product is compared with the catalog.  One more known
cause needs no accident: of a product that is deactivated the indexer leaves the document as it was
(`product-document-indexer.service.ts:34-36`), and so nothing is asked of it.

### Sessions and CartTab

`pairs` is the sequence of token pairs signed; each remembers the one it was traded for.  A
refresh goes through `verify`, the user's revocation, `isBlocked`, `block` and `sign`, with the
clock and other requests between them.  A `Browser` (NextAuth) keeps the old refresh token, as
`auth-config.ts:76-85` does; a `Caller` follows the contract of `apiFetch`.

`CartTab` has the store, the effects of the sync and merge hooks that are due, and calls whose
execution and answer are separate steps.  The order service either does what a call asks or
refuses it: whom it refuses is in `Carts`.

### ProductPage

The choice of a currency is kept twice, in a cookie (`jar`) for the server that renders the
prices, and in `localStorage` (`remembered`) for the switcher.  The cart's currency is locked
by the order service while it has a line; a tab knows it from the last answer it heard
(`shows`), or from what some tab left in `localStorage` (`cached`).  Adds and clears are calls
whose execution and answer are separate steps, and a page that is loaded anew hears none of
its earlier ones.  `slips` collects what lets cart and choice come apart: a switch in a tab
that had not heard of the cart or of an add, an add from a page older than the choice, a
cookie that lapsed.  `PickValue` is a chip of `VariantSelector`.

### CheckoutPage, Shelves, OrderDesk, ProductDesk

`CheckoutPage` follows each tab from the form to the payment and counts orders by the filling of
the cart they were made of; leaving a tab takes no request back.  `Shelves` gives every cached page
any age.  `OrderDesk` is one react-query key with its fetch, invalidation, polling and
the PATCHes of the buttons; `ProductDesk` has the form, its submissions (one PUT of the
metadata, one per SKU row) and a bulk delete with requests of an earlier attempt still on the
wire.  Of `ProductDesk`'s product only the metadata resets a form that is open: a change of stock or
prices alone, by a sale say, does the same in the code (the effect of `product-form.tsx:141-147`
runs for any change of the fetched product), and is the same step here, news of another hand.

## Runs

Passing runs, with the instance and the distinct states of each (a run takes from ten seconds
to three minutes with two workers):

| run | instance | shows |
|---|---|---|
| `row_locks` | 3 calls, 2 orders, 2 SKUs of 2 units, of which sku 1 does not do for both orders, 1 overlap of releases; or an outbox with 2 replicas, 3 rows, batches of 2, 2 faults; 40,938 states | no oversell, reserves never wait in a circle, `reserved` is the sum of the reservations less what an overlap gave back twice, refinement of the loose ledger, every call ends; nothing marked that was not accepted, repeats cost failures, everything published in the end |
| `saga_safety` | 1 order, 2 payment attempts, 2 consumers, 1 admin, up to 3 faults of all 6 kinds; 249,452 states | refinement of the loose lifecycle, the outbox tells the row's history unless a lock of the order expired, stock backs every live order, a cancelled order holds none |
| `saga_liveness` | 2 orders for 1 unit (one of them too large), 2 consumers, 2 faults among catalog, Stripe, database and an expired lock; 50,093 states | payments end confirmed or surfaced, declines are compensated, stranded stock is swept |
| `mail` | 1 order, 2 replicas of the outbox with 2 faults, 2 deliveries at once, 2 attempts a job, 2 mishaps; 166,599 states | no mail is dropped, a second one costs a mishap, and it is sent in the end unless the consumer is deaf |
| `browser` | a browser and a caller of two users, 3 requests, 3 ticks, 3 pairs, 1 fault; or a tab with 2 items, 2 calls at once, 2 clicks, 1 mishap; or 2 tabs on a product of 2 variants, one of them without a price in the second currency, 6 moves; 1,096,033 states | a token forks only by overlap, revocation has a known cause, callers stay signed in; a cart tab at rest is true; the cart is in the currency chosen |
| `carts` | 1 customer, 1 guest, 1 SKU, 2 currencies, 2 requests at once and 4 in all, 1 fault; 587,957 states | one currency a cart; units are neither lost nor made by requests that do not share a cart |
| `catalog` | 1 product, 2 SKUs, 2 currencies, 2 requests at once and 3 in all, 1 fault; 861,776 states | edits are kept, the stock row of a SKU that was cleanly added goes only with its product |
| `search` | 2 products of 1 SKU, 2 currencies, 2 requests, 1 delivery at once, 2 reindexes, pages of 1, 1 fault; 258,638 states | the index follows the catalog, the alias names one index and never none |
| `checkout_page` | 2 tabs, 3 orders, 2 fillings of the cart, 2 accidents; 1,378,792 states | a cart is paid once, stranded orders cost accidents |
| `screens` | an order with 2 PATCHes and 2 faults; or 2 products, 2 codes, 1 save at a time, 1 failure or another admin; or 5 products in pages of 2 with 2 changes; 437,449 states | no ghost status, no step back, the view catches up; done means done, typed edits survive; a walk lists all |

Two runs end in a violation, of a statement the repository makes (quoted in `PROJECT.json`
under `findings`):

- `saga_lost_webhook`.  `handle-stripe-webhook.use-case.ts:55-57` says the cron picks up orders
  whose publish failed; it looks for `PENDING`, and they are `PAYMENT_PENDING`, so that a paid
  order may wait for ever without an alert.
- `variant_chips`.  `variant-selector.tsx:13` says that it picks variants by their attributes,
  "e.g. {size, color}".  A chip picks the first variant with its own value, whatever the other
  attributes are: with red and blue in S and M, a click on M and one on red pick the red S.

To repeat a run: `tlc -config saga_safety.cfg MCOrderSaga`; to repeat the proofs:
`tlapm OrderSagaProofs.tla`.

### Bounds, and why they are enough

- Three inventory calls: a circle of two with a bystander, or a reserve, its retry and a
  release, or two releases that overlap beside a reserve that waits for their units.  Two SKUs are
  the least in which lock order matters.  `MaxOverlaps` gives one overlap, to the order whose units
  the other one needs; the theorems hold for any number.
- Two payment attempts: one decline followed by a success is the sequence that matters; a
  third attempt adds no new relation between a decline and a payment.
- Two consumers: two results of one order handled at once.  The code's prefetch of 8 only
  adds handlers waiting for the same lock.
- One order in `saga_safety`: handlers of different orders share only the stock, which
  `saga_liveness` covers with two orders.  The theorems hold for any number.
- `MaxFaults` 3 allows a timeout, its late execution after a second fault, and a crash.
- `Batch` is at least the number of orders in the passing runs.  The code takes 200 rows
  without an order from a set that never shrinks, so with more cancelled orders than that a
  sweep is not fair to all of them: `CancelledIsReleased` holds under the bound only.
- `mail`: one order, since jobs of different orders share nothing; two deliveries at once are a
  message and its repetition.  Two attempts are a failure that is tried again and one that is
  final; the code has three.
- `browser`: three pairs are a login and two generations, enough to use an old token after its
  successor.  A refresh token lives two ticks, an access token one, so both expire in a run.
  Six moves on the product pages are an add, a switch in each tab with its dialog, and a cookie
  that lapses; two variants suffice for a price that one currency lacks.
- `carts`: four calls are an add to each cart, a merge and a checkout.  Two requests at once are
  the least that overwrite each other; the theorem on currencies holds for any number.
- `catalog`: three calls are a create and two edits, or an edit and a reader of what is left
  in the cache, or an addition that meets a reader whose fill a third request then saves.
- `search` starts with a seeded catalog whose events are on the way.  A failure is met by one
  product alone, and a second reindex by the seeded catalog (`Within` in `MCSearchIndex`):
  documents of different products share only the index they are in, the alias does not depend on
  them, and what overlapping reindexes leave of an edit no property asks.  Two requests are a save
  that has read the product and the delete it then undoes; they meet no reindex and no failure
  (`Changed`).  The theorems hold without these bounds.
- `checkout_page`: three orders are two of one filling and one of another.  Two tabs are the
  least that race.
- `row_locks`, `browser` and `screens` each put models without common state into one state space;
  `Within` bounds how many disturbances come together
  in the last two.  Five products in pages of two are a
  first, a middle and a last page.
- Symmetry permutes consumers, requests, orders, tabs or currencies that nothing tells apart,
  in runs without liveness properties.
- Deadlock is not looked for where the system may stop: with every mail sent, every call made
  or every click spent.  `row_locks` and the runs of the saga do look for it: a transaction can
  always go on or be chosen as the victim, and only an outbox with every row published rests.

### Fairness

`Inventory`: the database gives every statement its turn (weak fairness of each call's next
step) and serves the waiters of a row in turn (strong fairness of `LockRow`).  Nothing
requires a call to begin, and rollbacks are never required.

`OrderSaga`: the event loop runs what is ready; an advisory lock's waiters are served in turn
(strong fairness of `Enter`); Stripe redelivers until it gets a 2xx; the broker hands out
what is queued; the cron fires every ten minutes and its run goes on.  No fairness is put on
customers, admins, faults or late calls.

`Outbox`: the cron ticks every second on every replica and a drain runs to its end.
`OrderMail` adds that the consumer boots, a delivery is handled to its end, and BullMQ runs
what is waiting or orphaned.  Subscribing may still fail, which is why its liveness property
has the case of a deaf consumer.

`OrderDesk`: a watched order is polled, a request that was sent is read by the server, and its
answer arrives or fails.  Failures are bounded; a PATCH need never be answered.

The other modules state no fairness: their properties are safety.

## Proofs

The theorems hold for every value of the constants that the named assumptions allow: any number of
orders, SKUs, requests, replicas, tabs and faults.  The constants that are assumed to be finite
are the calls of `Inventory`, the requests and keys of `Carts` and the handlers of `OrderMail` and
`SearchIndex`, because they are counted.  Where a theorem needs more, it says so in its `ASSUME`.

| module | proves about | with more assumed |
|---|---|---|
| `InventoryProofs` | `Inventory` | |
| `OrderSagaProofs` | `OrderSaga` | no crash and no failed publish for `PaymentsStay` |
| `OutboxProofs` | `Outbox`, `OrderMail` | |
| `CartsProofs` | `Carts` | |
| `CatalogProofs` | `Catalog`, `Additions`, `SearchIndex` | |
| `BrowserProofs` | `ProductPage`, `Sessions`, `CartTab` | |
| `ScreensProofs` | `CheckoutPage`, `OrderDesk`, `ProductDesk`, `Shelves` | |
| `Sums` | sums over finite sets | |

Each module proves type correctness of what it is about, and then:

**Inventory.**  `LocksCorrect` is the inductive invariant: a call past its locking phase holds
every row of its order, a waiting reserve holds exactly the rows below the one it waits for, and
for a reserve about to write the stock it checked is still there.  `NeverOversold` and
`ReservesNeverCircle` follow from it: the check alone would not be inductive, it needs that
nobody can change the rows between the check and the commit.  `AgainIsCharged`: every release of
an order but the first of those running has an overlap of its own, and what the running ones may
still give back a second time is not yet spent (`Charged`).  Hence a commit either moves the rows of
one order that comes into the table or leaves it, or gives back what `twice` then counts: that is
`ReservedIsSum`, with the lemmas of `Sums`, and `InventoryImplementsLedger`, of every behaviour.

**OrderSaga.**  `LifeCorrect`: no row before its checkout saves it, an intent id on it before
anybody can pay, every event on its way was emitted by Stripe, and what a handler is about to do
is allowed by what it read.  Until a lock of an order expires, a handler between its read and its
save holds the lock, and its read is still the committed status (`LocksCorrect`); hence each of
its saves is a move of the lifecycle and appends to the outbox what follows on what the status it
read has told.  Once one has expired, a save is an `Overwrite` of `LooseLifecycle`: the row stays,
does not wait for its payment again and is confirmed only if paid, and the last event of the
outbox still tells what the row says.  `SagaImplementsLifecycle` and `StoryIsTold` state both,
with no assumption on the faults, and the orders of which no lock expired are not touched by the
others' expiries.  `PaymentsStay`: a handler that is about to give up a payment leaves an order
that no longer waits for it (`Answered`), whichever locks expire and whatever the catalog, Stripe
and the database do; a crash between recording and publishing, or a publish that fails, is what
loses one, and `saga_lost_webhook` shows it.  `StockCorrect`: whoever may still release the stock
of an order (a late call, the sweep, a compensation, a decline) does so for an order that is
cancelled or declined or whose checkout failed without a row, and a handler about to cancel has
released.  `ReservationsBacked` and `CancelledHoldNothing` follow, expired locks included.

**Outbox and mail.**  `MarkedOnlyWhenAccepted`, `ClaimsDisjoint`, and `RepeatsCharged`: each
publication of a row after its first has a failure of its own.  That is not inductive as it
stands; the proof charges every attempt at a row, made or still to be made, to a failure, except
the one of the transaction that can still mark the row.  `MailRefinesOutbox`: with the mail on
top the outbox makes only its own steps.  `MailsAreKept`: a message is in the queue, with a
handler, or a job that is known or was sent.  `MailsArePaid` counts with the mails sent those
that may still come without another mishap, which depends on the job, its stalls and whether
the worker can be restarted for free (`Budget`).

**Carts.**  `OneCurrencyPerCart`: a stored cart and every copy a request holds are well formed,
and a request writes only what it made of one cart it has read, so the aggregate's own checks do
although nothing guards the value in Redis.  `UnitsKept`: while no two requests have used one
cart at once, each still knows its carts as they are, and what carts and orders hold, less what
stands in two places because a merge or a checkout has a write to go, is what was put in, or
more after a failure (`Calm`).

**Catalog.**  `EditsKept`: while Redis answers and no request has met a change of the product, the
cache shows the row unless the request that changed it is about to evict, and a request that will
write has made its edit of the row as it still is (`Kept`).  `StockStays` is about `Additions` and
needs no calm: every copy of a product that somebody may still write back whole, in the cache or
with a request, has its clean SKUs (`Everywhere`), so that no save drops one.  `AliasIsOne`: the
versions that jobs prepare are not yet the alias's, and without an overlap a single job or boot is
at work (`Lone`).  `AliasStays` holds with overlaps too: a version that was deleted may be made
again and be claimed by two reindexes, one to swap to and one to delete, but the names that the
alias stands for or that are claimed outnumber the reindexes that claim them (`Spare`), so the
deletion of one leaves the alias another.

**Search index.**  `IndexFollows`: a row never changes without an event about it, so that if
nothing is left to tell of a product (`Quiet`) its row is the one of which the last event was
handled; for a deleted one it is enough that no `DELETE` is left, since an `UPSERT` finds nothing
and writes nothing.  As long as that holds and no known cause came between, what a handler has
asked so far is what the row answers, the index behind the alias has the document of the row
unless a handler has still to write it (`Followed`), and so has what a reindex makes: the buffer
up to its cursor, the page beyond it, and the new index once flushed (`Built`).  `PageFacts` is
what the walk rests on: a page holds the least products after the cursor, and its last comes
before every product left.  The step that needed a closer look is the swap: the documents that
are put in front of the readers are the flushed ones, and so `Built` has to hold of an index
nobody reads yet.  On a larger instance TLC showed that the formula was false as it stood: a
`DELETE` handled after a save has brought its product back removes the document of a row that
is there, and so it joined the known causes.

**What a browser holds.**  `CartFollows`: cart and adds on the way are in the currency chosen
(`Following`); `SwitcherIsRight`: the cookie says what `localStorage` says, and a document no
other tab has overtaken was loaded under that choice (`Mirrored`; no run repeats it).
`ForksNeedOverlap`: unless two requests met with one token, one that has bought a pair or is
about to is blocked until it expires, and one that passed the blocklist has bought nothing.
`CallersKeep` and `RevocationsHaveCause` add that tokens belong to their users, that no two
clients keep one (`Unshared`), and that what an untroubled caller has in flight presents the one
it keeps (`InStep`).  `CartShown`: a call that runs alone answers with the cart that is kept, and
what a tab shows once everything is heard is that cart (`Unmixed`, `Shown`).

**Screens.**  `PaidOnce`: the secret of an order is handed out after the cart is gone; hence a
filling that was not raced is read by one checkout at a time and never has two orders handed
out.  `StrandedIsCharged` maps every unpaid order without a screen to an accident of its own.
`DeskCorrect` and `GhostsNeedOverlap`: without overlapping PATCHes the cache shows a status the
order has had or one that a PATCH in flight asks for, and that PATCH remembers one the order has
had.  `ViewMovesOn`: the statuses have ranks the table climbs, the order has had none above its
own (`HadBelow`), and no answer on its way is below what it will replace (`Rising`).
`ReportsAreTrue` and `EditsSurvive`: a save that was alone has stored what it no longer has to
send, and a bulk delete has deleted all but those it still has to.  `WalkIsWhole`: whatever its
age, a page says what has been on sale all along between its cursor and the next (`Tells`), so a
walk has shown what is up to its cursor and nothing beyond the page in view (`Walked`).

`Sums` shows that a sum over a finite set does not depend on the order of the fold.  Induction
over the set is out of the provers' reach, and so each lemma takes a smallest set without the
property (`WFMin` on the strict subsets).

Every invariant and action property of the passing runs is stated by a theorem.  Only
model-checked is all liveness, since fairness and `ENABLED` are outside the prover: `CallsEnd`,
`CommittedIsPublished`, `PaidIsConfirmedOrSurfaced`, `DeclineIsCompensated`,
`CancelledIsReleased`, `MailedUnlessDeaf` and `ViewCatchesUp`.

## What the code does against its own documents

Met while modelling.  The first two are runs (above); the models contain the behaviour of the
others (or show that what is said cannot happen, as with the early payment), and the properties
name it as an exception where it matters.

| where | the code | what is said |
|---|---|---|
| `order-service` `prisma-order.repository.ts:254` | looks for stale payments in `PENDING` rows, of which there are none | "the reconciliation cron picks those up" (`handle-stripe-webhook.use-case.ts:55-57`) |
| `storefront` `variant-selector.tsx:59` | a chip picks the first SKU with its own value and drops what was picked of the other attributes | "Picks variants by SKU attributes when present (e.g. {size, color})" (13) |
| `prisma-inventory.repository.ts:132` | two overlapping releases of one order give its stock back twice | "idempotent release" (`reservation-cleanup.cron.ts:28-29`), "idempotent per orderId" (`mark-payment-failed.use-case.ts:36-37`) |
| `start-checkout.use-case.ts:172` | a save that throws leaves the reservation and the intent | "Inventory released" (`docs/system-architecture.md:250-262`, `docs/codebase-highlights.md:54`) |
| `mark-payment-failed.use-case.ts:38` | a decline handled late releases the stock of an order that has been paid since | a release "under a paying customer" is what reconciliation avoids (`order.repository.ts:74-75`) |
| `prisma-order.repository.ts:207` | the lock's transaction expires after 5 s, the task under it may wait for 15 s | find and save are "serialised" (198-199) |
| `prisma-outbox.repository.ts:89` | a row accepted but not marked is published again | replicas "never double-publish" (`domain/ports/outbox.repository.ts:16-17`) |
| `start-checkout.use-case.ts:172-182` | answers the client secret only after the save, so that no customer can pay before the order row is committed (`Payable`); with the guard dropped `NoPaymentVanishes` fails | `payment.succeeded` may arrive before the saga has committed the row (`payment-result.consumer.ts:19-24`, 95-98, and the test `payment-result-consumer-order-not-found-retry.test.ts:1-9`, which hands the use case's answer in); the branch is a defence that no run of this program takes |
| `upsert-sku.use-case.ts:32` | the save deletes every SKU its copy lacks, with its inventory row and reservations: two admins who add or change SKUs at once, or an eviction that fails, cost the later one's product a SKU nobody deleted | "per-SKU diff so Inventory rows survive" (`prisma-product.repository.ts:126`) |
| `email-job-config.ts:10-14` | attempts are 5 s and 10 s apart | 5 s, 30 s, 5 min (5-9) |
| `storefront` `use-checkout-client-secret.ts:12` | restores checkouts in statuses no order has | the form is restored (`checkout-form.tsx:25-27`) |
| `checkout-payment.tsx:47-49` | lets the customer retry a declined payment | the backend has cancelled the order by then |
| `use-cart-merge-on-login.ts:9` | the flag outlives the session, so a later guest cart is never merged | "once per session" |
| `session-key.ts:6-8` and the gateway | a guest is stopped at the gateway, a customer without `X-Guest-Session` gets 400 | both have a cart |
| `auth-config.ts:76-85` | keeps the rotated refresh token, the next refresh revokes all sessions | silent refresh |
| `admin` `product-form.tsx:170-175` | an edit PUTs its SKUs without an id, and a code that exists is refused: an edit of existing rows always fails after the metadata is stored | "re-submit on failure" |

Four more that follow from the code and no document excludes: two refreshes with one token at
once both succeed; events handled while a reindex runs are lost at the swap; deleting the
product a page ends with ends the list there, in the storefront and in a reindex alike; a save
that read a product before its delete brings it back, and the `DELETE` handled after that leaves
a product of the catalog that no search finds.

## Not modelled, and why

- Prices, amounts, addresses, names and message bodies: no property here depends on them.  A
  save that throws because a total overflows its column is one of the `db` faults.
- Poison messages, unhandled Stripe events and signature checks: they change no order.
- In `OrderSaga`, the loss of the RabbitMQ connection (the search and email models have it) and
  the database connection pool, of which each handler needs two connections.
- The declared queues: `OrderSaga` takes dead-lettering from `infra/rabbitmq/definitions.json`
  as given, although the consumers assert the queues without those arguments; in
  `OrderMail` that is one of the ways in which subscribing fails.
- Quantities of stock in `Catalog`: it knows whether a SKU has an inventory row, `Inventory`
  how many units.  A deleted SKU with live reservations is therefore not composed with a
  checkout.
- Relevance, facets and highlighting of the search; the dashboard, themes and pages that only
  render what they fetch.
- Leaving a product form with the browser's back button, which drops what was typed.
- The gateway's throttling and health checks: counters and probes no property tells apart.
- Shared packages and deployment: schemas and configuration.

## What could be added

1. `OrderSaga` with a broken RabbitMQ connection, as in `OrderMail`.
2. `Inventory` and `Catalog` over one table: the cascade of a deleted SKU under a reservation.

