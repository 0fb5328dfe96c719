------------------------------ MODULE SearchIndex ------------------------------
(***************************************************************************)
(* The search service on top of Catalog: the consumer of product.indexed    *)
(* events, the bulk reindex, and the Elasticsearch indexes behind one       *)
(* alias.  An event carries no product: its handler asks the catalog what   *)
(* the product is now, once per currency, and may get a cached answer.      *)
(*                                                                         *)
(* The consumer handles several messages at once (prefetch), in no order;   *)
(* a reindex builds the next index from the pages of the catalog while the  *)
(* consumer goes on writing to the live one.                               *)
(***************************************************************************)
EXTENDS Catalog, FiniteSetsExt

CONSTANTS
  Handler,    \* messages the consumer works on at once
  Job,        \* reindex runs at once: POST /search/reindex and the command
  PageSize,   \* REINDEX_FETCH_PAGE_SIZE
  MaxIndex    \* bound: index versions

ASSUME SearchAssumption ==
  /\ Product \subseteq Nat \ {0}   \* in the order of their ids
  /\ IsFiniteSet(Handler)          \* the prefetch of the channel
  /\ PageSize \in Nat \ {0}
  /\ MaxIndex \in Nat \ {0}         \* a boot makes version 1

VARIABLES
  up,       \* the consumer process: where it is in onApplicationBootstrap
  index,    \* index versions that exist; 0 is an index that has the name of the alias
  alias,    \* versions the alias stands for
  docs,     \* docs[i][p]: the document of p in version i
  at, of,   \* at[h], of[h]: where handler h is, and its product
  asking,   \* asking[h]: currencies h has still to ask for
  got,      \* got[h]: currencies the catalog answered with the product
  jpc,      \* jpc[j]: where reindex j is
  next,     \* next[j]: the version it builds
  cursor,   \* cursor[j]: the last product of the page before
  page,     \* page[j][c]: the page in currency c, or NoPage
  buffer,   \* buffer[j][p]: the document to write
  live,     \* live[j]: the version it found behind the alias; 0: none
  unsure,   \* products that one of the known causes may have left with an old document
  overlap   \* two reindexes, or a reindex and a boot, met

esVars == <<index, alias, docs>>
handlerVars == <<at, of, asking, got>>
jobVars == <<jpc, next, cursor, page, buffer, live>>
searchVars == <<up, esVars, handlerVars, jobVars, unsure, overlap>>
allVars == <<vars, searchVars>>

(* A document of the index: the currencies it has a price in, and isActive. *)
NoDoc == [prices |-> {}, active |-> FALSE]
NoDocs == [p \in Product |-> NoDoc]
NoPage == [found |-> {}, active |-> {}, last |-> -1]

PricedIn(x, c) == \A s \in Skus(x) : c \in x.prices[s]

(* GetProductUseCase for the public: inactive is not found, and an unpriced SKU is a 400. *)
Answers(x, c) == x # Absent /\ x.active /\ PricedIn(x, c)

Idle(h) == at[h] = "idle"
Running(j) == jpc[j] # "idle"
Building(j) == jpc[j] \notin {"idle", "swapped"}

SearchInit ==
  /\ Init
  /\ up = "down"
  /\ index = {} /\ alias = {}
  /\ docs = [i \in 0..MaxIndex |-> NoDocs]
  /\ at = [h \in Handler |-> "idle"]
  /\ of = [h \in Handler |-> 0]
  /\ asking = [h \in Handler |-> {}]
  /\ got = [h \in Handler |-> {}]
  /\ jpc = [j \in Job |-> "idle"]
  /\ next = [j \in Job |-> 0]
  /\ cursor = [j \in Job |-> 0]
  /\ page = [j \in Job |-> [c \in Currency |-> NoPage]]
  /\ buffer = [j \in Job |-> NoDocs]
  /\ live = [j \in Job |-> 0]
  /\ unsure = {}
  /\ overlap = FALSE
--------------------------------------------------------------------------------
(* Elasticsearch, as the service uses it: a write through an alias without index creates an *)
(* index of that name, and one through an alias with two indexes is refused.                *)

Ambiguous == Cardinality(alias) > 1
WriteIndex == IF alias = {} THEN 0 ELSE CHOOSE i \in alias : TRUE
Taken == 0 \in index

LiveDoc(p) == docs[WriteIndex][p]

(* ensureAlias: an alias that is there, or the default version created and then pointed to. *)
EnsureAlias ==
  /\ up = "down"
  /\ up' = IF alias # {} \/ 1 \in index THEN "up" ELSE "created"
  /\ index' = IF alias = {} THEN index \union {1} ELSE index
  /\ overlap' = (overlap \/ \E j \in Job : Running(j))
  /\ UNCHANGED <<alias, docs, handlerVars, jobVars, unsure, vars>>

PutAlias ==
  /\ up = "created"
  /\ up' = "up"
  /\ alias' = IF Taken \/ 1 \notin index THEN alias ELSE alias \union {1}
  /\ UNCHANGED <<index, docs, handlerVars, jobVars, unsure, overlap, vars>>

(* Elasticsearch does not answer: the consumer starts all the same. *)
EnsureAliasFails ==
  /\ up \in {"down", "created"} /\ Fault
  /\ up' = "up"
  /\ UNCHANGED <<esVars, handlerVars, jobVars, unsure, overlap, rowVars, made, cache, requestVars, raced, calls>>

Stop(h) ==
  /\ at' = [at EXCEPT ![h] = "idle"]
  /\ of' = [of EXCEPT ![h] = 0]
  /\ asking' = [asking EXCEPT ![h] = {}]
  /\ got' = [got EXCEPT ![h] = {}]

EventOf(h) == IF at[h] = "delete" THEN "DELETE" ELSE "UPSERT"
Held(p, a) == Cardinality({h \in Handler : ~Idle(h) /\ of[h] = p /\ EventOf(h) = a})

(* What was not acked is delivered again, to whoever subscribes next. *)
Redeliver == events' = [p \in Product |-> [a \in DOMAIN NoEvents |-> events[p][a] + Held(p, a)]]

Crash ==
  /\ up \in {"created", "up"} /\ Fault
  /\ up' = "down"
  /\ Redeliver
  /\ at' = [h \in Handler |-> "idle"]
  /\ of' = [h \in Handler |-> 0]
  /\ asking' = [h \in Handler |-> {}]
  /\ got' = [h \in Handler |-> {}]
  /\ UNCHANGED <<esVars, jobVars, unsure, overlap, row, stocked, asked, made, cache, requestVars, raced, calls>>

(* The connection closes.  What is being handled runs on, and nothing consumes again. *)
ConnectionLost ==
  /\ up = "up" /\ Fault
  /\ up' = "deaf"
  /\ Redeliver
  /\ UNCHANGED <<esVars, handlerVars, jobVars, unsure, overlap, row, stocked, asked, made, cache, requestVars, raced, calls>>
Restart ==
  /\ up = "deaf"
  /\ up' = "down"
  /\ at' = [h \in Handler |-> "idle"]
  /\ of' = [h \in Handler |-> 0]
  /\ asking' = [h \in Handler |-> {}]
  /\ got' = [h \in Handler |-> {}]
  /\ UNCHANGED <<esVars, jobVars, unsure, overlap, vars>>
--------------------------------------------------------------------------------
(* ProductIndexedConsumer.handle and ProductDocumentIndexerService. *)

Take(h, p, a) ==
  /\ up = "up" /\ Idle(h)
  /\ events[p][a] > 0
  /\ events' = [events EXCEPT ![p][a] = @ - 1]
  /\ at' = [at EXCEPT ![h] = IF a = "DELETE" THEN "delete" ELSE "fetch"]
  /\ of' = [of EXCEPT ![h] = p]
  /\ asking' = [asking EXCEPT ![h] = IF a = "DELETE" THEN {} ELSE Currency]
  /\ unsure' = IF (\E g \in Handler : of[g] = p) \/ \E j \in Job : Building(j)
               THEN unsure \union {p} ELSE unsure
  /\ UNCHANGED <<up, esVars, got, jobVars, overlap, row, stocked, asked, made, cache, requestVars, raced, calls, faults>>

(* GET /products/:id in one currency.  Its race with an edit is that of a client's GET, which *)
(* has its steps in Catalog; here it reads, and fills the cache, at once.                     *)
Fetch(h, c) ==
  LET p == of[h]
      x == IF cache[p] # Absent THEN cache[p] ELSE row[p]
  IN
    /\ at[h] = "fetch" /\ c \in asking[h]
    /\ asking' = [asking EXCEPT ![h] = @ \ {c}]
    /\ got' = [got EXCEPT ![h] = IF Answers(x, c) THEN @ \union {c} ELSE @]
    /\ cache' = [cache EXCEPT ![p] = x]
    /\ unsure' = IF x # row[p] THEN unsure \union {p} ELSE unsure
    /\ UNCHANGED <<up, esVars, at, of, jobVars, overlap, rowVars, made, requestVars, raced, calls, faults>>

(* No answer in any currency: "not found, skipping index". *)
Skip(h) ==
  /\ at[h] = "fetch" /\ asking[h] = {} /\ got[h] = {}
  /\ Stop(h)
  /\ UNCHANGED <<up, esVars, jobVars, unsure, overlap, vars>>

WriteDoc(p, d) ==
  IF Ambiguous THEN UNCHANGED <<index, docs>>
  ELSE /\ index' = index \union {WriteIndex}
       /\ docs' = [docs EXCEPT ![WriteIndex][p] = d]

(* Mutant: the prices of the document before are kept. *)
IndexDocumentMerged(h) ==
  /\ at[h] = "fetch" /\ asking[h] = {} /\ got[h] # {}
  /\ WriteDoc(of[h], [prices |-> got[h] \union LiveDoc(of[h]).prices, active |-> TRUE])
  /\ Stop(h)
  /\ UNCHANGED <<up, alias, jobVars, unsure, overlap, vars>>

(* A refused write dead-letters the message, and so ends as an ack does. *)
IndexDocument(h) ==
  /\ at[h] = "fetch" /\ asking[h] = {} /\ got[h] # {}
  /\ WriteDoc(of[h], [prices |-> got[h], active |-> TRUE])
  /\ Stop(h)
  /\ UNCHANGED <<up, alias, jobVars, unsure, overlap, vars>>

(* A document, or an index, that is not there is fine.  Nobody asks the catalog, where a save *)
(* that had read the product may have brought it back.                                        *)
DeleteByProductId(h) ==
  /\ at[h] = "delete"
  /\ docs' = IF Ambiguous THEN docs ELSE [docs EXCEPT ![WriteIndex][of[h]] = NoDoc]
  /\ Stop(h)
  /\ unsure' = IF row[of[h]] # Absent THEN unsure \union {of[h]} ELSE unsure
  /\ UNCHANGED <<up, index, alias, jobVars, overlap, vars>>

(* A 5xx of the catalog, a timeout, Elasticsearch down: nack without requeue. *)
HandlerFails(h) ==
  /\ ~Idle(h) /\ Fault
  /\ Stop(h)
  /\ unsure' = unsure \union {of[h]}
  /\ UNCHANGED <<up, esVars, jobVars, overlap, rowVars, made, cache, requestVars, raced, calls>>
--------------------------------------------------------------------------------
(* ReindexService.run. *)

JobGoto(j, to) == jpc' = [jpc EXCEPT ![j] = to]

(* createNextIndex: past every version that exists, live or left behind. *)
ChooseNext(j) ==
  /\ jpc[j] = "idle"
  /\ next' = [next EXCEPT ![j] = Max(index \union {0}) + 1]
  /\ next'[j] <= MaxIndex
  /\ JobGoto(j, "create")
  /\ unsure' = unsure \union {of[h] : h \in {g \in Handler : ~Idle(g)}}
  /\ overlap' = (overlap \/ up \in {"down", "created"} \/ \E k \in Job : Running(k))
  /\ UNCHANGED <<up, esVars, handlerVars, cursor, page, buffer, live, vars>>

(* Whatever throws leaves the new index behind, and the alias where it was. *)
EndJob(j) ==
  /\ JobGoto(j, "idle")
  /\ next' = [next EXCEPT ![j] = 0]
  /\ cursor' = [cursor EXCEPT ![j] = 0]
  /\ page' = [page EXCEPT ![j] = [c \in Currency |-> NoPage]]
  /\ buffer' = [buffer EXCEPT ![j] = NoDocs]
  /\ live' = [live EXCEPT ![j] = 0]

CreateIndex(j) ==
  /\ jpc[j] = "create"
  /\ IF next[j] \in index
     THEN EndJob(j) /\ UNCHANGED index
     ELSE /\ index' = index \union {next[j]}
          /\ JobGoto(j, "read")
          /\ UNCHANGED <<next, cursor, page, buffer, live>>
  /\ UNCHANGED <<up, alias, docs, handlerVars, unsure, overlap, vars>>

(* list: up to PageSize products after the cursor, in the order of their ids.  When the    *)
(* product of the cursor has been deleted, Prisma finds nothing.                           *)
Rest(j) == {p \in Product : row[p] # Absent /\ p > cursor[j]}
CursorGone(j) == cursor[j] # 0 /\ row[cursor[j]] = Absent
PageOf(j) ==
  IF CursorGone(j) THEN {} ELSE {p \in Rest(j) : Cardinality({q \in Rest(j) : q < p}) < PageSize}
LastOf(j) ==
  IF PageOf(j) = {} \/ (CursorGone(j) \/ PageOf(j) = Rest(j)) THEN 0 ELSE Max(PageOf(j))

(* One product without a price in c fails the page in c: the page goes on without c. *)
Degraded(j, c) == \E p \in PageOf(j) : ~PricedIn(row[p], c)

ReadPage(j, c) ==
  /\ jpc[j] = "read" /\ page[j][c] = NoPage
  /\ page' = [page EXCEPT ![j][c] =
       IF Degraded(j, c) THEN [found |-> {}, active |-> {}, last |-> 0]
       ELSE [found |-> PageOf(j), active |-> {p \in PageOf(j) : row[p].active}, last |-> LastOf(j)]]
  /\ unsure' = IF CursorGone(j) THEN Product ELSE unsure
  /\ UNCHANGED <<up, esVars, handlerVars, jpc, next, cursor, buffer, live, overlap, vars>>

(* A document for each product of the page in the default currency; then the next page.  A *)
(* page in another currency may have failed, or have been read before a product was deleted *)
(* or after one was added.                                                                  *)
NextPage(j) ==
  /\ jpc[j] = "read" /\ \A c \in Currency : page[j][c] # NoPage
  /\ buffer' = [buffer EXCEPT ![j] = [p \in Product |->
       IF p \in page[j][Default].found
       THEN [prices |-> {c \in Currency : p \in page[j][c].found},
             active |-> p \in page[j][Default].active]
       ELSE @[p]]]
  /\ cursor' = [cursor EXCEPT ![j] = page[j][Default].last]
  /\ page' = [page EXCEPT ![j] = [c \in Currency |-> NoPage]]
  /\ unsure' = unsure \union UNION {page[j][Default].found \ page[j][c].found : c \in Currency}
  /\ JobGoto(j, IF page[j][Default].last = 0 THEN "flush" ELSE "read")
  /\ UNCHANGED <<up, esVars, handlerVars, next, live, overlap, vars>>

(* The bulk write and the refresh; rejected documents are counted and left out. *)
Flush(j) ==
  /\ jpc[j] = "flush"
  /\ \/ docs' = [docs EXCEPT ![next[j]] = buffer[j]] /\ UNCHANGED <<unsure, faults>>
     \/ /\ Fault
        /\ \E p \in Product :
             /\ docs' = [docs EXCEPT ![next[j]] = [buffer[j] EXCEPT ![p] = NoDoc]]
             /\ unsure' = unsure \union {p}
  /\ JobGoto(j, "flushed")
  /\ UNCHANGED <<up, index, alias, handlerVars, next, cursor, page, buffer, live, overlap, rowVars, made, cache, requestVars, raced, calls>>

(* currentAliasState of swapAliasTo. *)
ReadAlias(j) ==
  /\ jpc[j] = "flushed"
  /\ IF alias = {} THEN UNCHANGED live ELSE \E i \in alias : live' = [live EXCEPT ![j] = i]
  /\ JobGoto(j, "swap")
  /\ UNCHANGED <<up, esVars, handlerVars, next, cursor, page, buffer, unsure, overlap, vars>>

(* Mutant: the old index is deleted first. *)
SwapAliasToLate(j) ==
  /\ jpc[j] = "swap"
  /\ alias' = alias \ {live[j]}
  /\ JobGoto(j, "swapped")
  /\ UNCHANGED <<up, index, docs, handlerVars, next, cursor, page, buffer, live, unsure, overlap, vars>>

(* One updateAliases: it throws when an index it names is gone, or one has the alias's name. *)
SwapAliasTo(j) ==
  /\ jpc[j] = "swap"
  /\ IF Taken \/ ~(({live[j]} \ {0}) \union {next[j]} \subseteq index)
     THEN EndJob(j) /\ UNCHANGED alias
     ELSE /\ alias' = (alias \ {live[j]}) \union {next[j]}
          /\ JobGoto(j, "swapped")
          /\ UNCHANGED <<next, cursor, page, buffer, live>>
  /\ UNCHANGED <<up, index, docs, handlerVars, unsure, overlap, vars>>

(* Mutant: the new index is deleted, not the old one. *)
DeleteIndexNew(j) ==
  /\ jpc[j] = "swapped"
  /\ index' = index \ {next[j]}
  /\ EndJob(j)
  /\ UNCHANGED <<up, alias, docs, handlerVars, unsure, overlap, vars>>

DeleteIndex(j) ==
  /\ jpc[j] = "swapped"
  /\ index' = index \ ({live[j]} \ {0})
  /\ alias' = alias \ {live[j]}
  /\ docs' = IF live[j] = 0 THEN docs ELSE [docs EXCEPT ![live[j]] = NoDocs]
  /\ EndJob(j)
  /\ UNCHANGED <<up, handlerVars, unsure, overlap, vars>>

JobFails(j) ==
  /\ Running(j) /\ Fault
  /\ EndJob(j)
  /\ UNCHANGED <<up, esVars, handlerVars, unsure, overlap, rowVars, made, cache, requestVars, raced, calls>>

Handle(h) ==
  \/ \E p \in Product, a \in {"UPSERT", "DELETE"} : Take(h, p, a)
  \/ \E c \in Currency : Fetch(h, c)
  \/ Skip(h) \/ IndexDocument(h) \/ DeleteByProductId(h) \/ HandlerFails(h)

Reindex(j) ==
  \/ ChooseNext(j) \/ CreateIndex(j) \/ NextPage(j) \/ Flush(j)
  \/ \E c \in Currency : ReadPage(j, c)
  \/ ReadAlias(j) \/ SwapAliasTo(j) \/ DeleteIndex(j) \/ JobFails(j)

SearchNext ==
  \/ Next /\ UNCHANGED searchVars
  \/ EnsureAlias \/ PutAlias \/ EnsureAliasFails \/ Crash \/ ConnectionLost \/ Restart
  \/ \E h \in Handler : Handle(h)
  \/ \E j \in Job : Reindex(j)

SearchSpec == SearchInit /\ [][SearchNext]_allVars
--------------------------------------------------------------------------------
(* What the readers of the index get. *)

(* buildSearchRequest: active documents; a range of prices leaves out those without one. *)
Hits(c, byPrice) == {p \in Product : LiveDoc(p).active /\ (byPrice => c \in LiveDoc(p).prices)}

(* toSearchHit: a document without a price in the currency is shown at 0. *)
ShownFree(c) == {p \in Hits(c, FALSE) : c \notin LiveDoc(p).prices}

(* The completion suggester asks for no active document. *)
Suggestions == {p \in Product : LiveDoc(p) # NoDoc}
--------------------------------------------------------------------------------
(* The alias stands for indexes that exist and never beside an index of its own name, even     *)
(* when a reindex meets another or a boot.  Else boots, reindexes and crashes in the middle of *)
(* either leave at most one index behind it, so that writes go through, and after a boot       *)
(* without failure there is one.                                                               *)
AliasNamesOneIndex ==
  /\ alias \subseteq index \ {0}
  /\ Taken => alias = {}
  /\ ~overlap => Cardinality(alias) <= 1 /\ (up = "up" /\ faults = 0 => alias # {})

(* "Atomic alias swap = zero-downtime reindex": an alias that stands for an index does so for  *)
(* ever, at every step of every reindex, two at once and those that die half way included.    *)
AliasNeverVanishes == [][alias # {} => alias' # {}]_allVars

(* Nothing is left to do for p. *)
Settled(p) ==
  /\ events[p] = NoEvents
  /\ \A h \in Handler : of[h] # p
  /\ \A r \in Request : InFlight(r) => call[r].product # p

(* None of the known causes of an old document: handlers of one product at once, a handler    *)
(* that found an old cache entry or died into the dead-letter queue, the DELETE of a product   *)
(* that a save has brought back, events handled while a reindex ran, a document the bulk      *)
(* write rejected, pages of two currencies that differ, and a cursor whose product was deleted. *)
(* One more is the product itself: IndexProduct leaves the document of a deactivated one as    *)
(* it was, so that of such a product the index says nothing.                                  *)
Sure(p) == ~overlap /\ p \notin unsure

(* Events without content suffice: whatever their order, redelivered after a crash or not,    *)
(* and whether or not a reindex has replaced the index, once they are handled an active       *)
(* product of the catalog is found and suggested, one that was deleted is neither, a search   *)
(* by price finds it where the catalog has its prices, and it is shown at 0 nowhere else than *)
(* where it has none.                                                                         *)
IndexFollowsCatalog ==
  \A p \in Product, c \in Currency :
    Sure(p) /\ Settled(p) /\ (row[p] = Absent \/ row[p].active) =>
      /\ p \in Hits(c, FALSE) <=> row[p] # Absent
      /\ p \in Suggestions <=> row[p] # Absent
      /\ p \in Hits(c, TRUE) <=> Answers(row[p], c)
      /\ p \in ShownFree(c) <=> row[p] # Absent /\ ~Answers(row[p], c)
================================================================================
