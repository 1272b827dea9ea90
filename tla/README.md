# phoropter in TLA+

phoropter slices every document at several sizes at once, searches each size,
and right-sizes what it found under a token budget: it keeps the smallest
retrieved slices and trades them up to enclosing ones while the budget allows.
This directory models the program and checks the models: TLC on small
instances, TLAPS for every value of the constants.

## The system

| part | source (under `src/src/phoropter/`) | state it keeps | what makes it correct |
|---|---|---|---|
| grid | `grid.py` | none (a validated ladder of sizes) | each size divides the next, so aligned spans nest or are disjoint |
| slicing, markers | `slicer.py`, `model.py`, `markers.py` | none | every size tiles the document; a slice lists exactly the markers of what it encloses |
| ids | `ids.py` | none | two slices never share a point id, whatever characters names contain |
| containment forest | `forest.py` | minimal parents, anomalies | every containment among the hits is found in linear time; a stale parent is reported, becomes no edge and hides no containing hit; the reported density is that of the text |
| fusion | `fusion.py` | none | every hit is ranked once, tier by tier |
| selection | `selection.py`, `trace.py` | classes, budget left, trace | never over budget, nothing packed is lost, nothing is shown twice, the trace replays, the round limit never cuts it short |
| query service | `service/query.py`, `service/core.py` | none | partial failures degrade the answer and are reported; what is served is what was promised |
| document service | `service/documents.py`, batch of `server/rest.py` | none (works on the store) | after a put the store holds the new generation and nothing of the old; a batch survives its failing documents |
| corpus service | `service/corpora.py` | none | a corpus is created once and its config never changes |
| startup, readiness | `service/core.py`, `stores/qdrant.py` bootstrap | registries on the server | a store reported in order has both registries, whatever was left half done; an existing registry is not looked into, so an index that is missing stays so |
| stores | `stores/memory.py`, `stores/qdrant.py` | corpora, points, registry | each call takes effect at once: by construction in memory, over several backend calls in Qdrant |
| embedders | `embed/` | memoised dimension, endpoint flag | order preserved, failures retried a bounded number of times, the pool drains |
| server, config, eval | `server/`, `config.py`, `eval/` | none | parsing and formatting |

A query embeds its text once, fans out one search per size, fuses the hits into
one ranking, builds the forest over them, prefetches the ancestors of the hits
by their deterministic ids, and hands all of this to the selection strategy,
which is one synchronous call. Writers (`put`, `delete`, `drop`) run
concurrently with queries and with each other: every `await` is a point where
another request may run, and the Qdrant adapter makes several backend calls per
operation. Nothing locks. What a query sees of a document that is being
replaced may therefore mix two generations of it; the markers are there to
notice.

Hard to test, and what the models are for: the long sequences of trades and
absorptions in the selection; clipped spans at a document's end; generations
that mix, above all when the text repeats itself; writers and readers
interleaved at their awaits; failures, and the process killed, between the
calls of one operation; retries and the order of answers under a semaphore.

## Modules

| module | models | notes |
|---|---|---|
| `Grid` | `grid.py` | `Sizes` with `GridAssumption`, what `__post_init__` accepts |
| `Slicing` | `slicer.py`, `model.py` | texts are sequences of code points; a marker is the text it attests; `Count` is the token counter |
| `Ids` | `ids.py` | the escaped names that UUIDv5 is taken of: of corpus, document, size and offset, the last two numerals without separators |
| `Forest` | `forest.py` | operators over a set of hits: `MinimalParent` is the grid walk, `Contains` the standalone predicate |
| `Sums`, `Sorting` | Python's `sum` and `sorted` | a recursive function and a choice among enumerations, so that both can be proved about |
| `Selection`, `Finalize` | `selection.py`, `trace.py` | the state machine, one step per class visited; the order of its output |
| `Fusion` | `fusion.py` | the tier interleave as a function of the rankings |
| `InProcess` | `selection.py` `budget_fit`, `DedupeOnly` | the requests these make of the strategy |
| `QdrantStore` | `stores/qdrant.py` | what the server keeps of one corpus and of the registries, and one operator per backend call that changes it |
| `Service` | the event loop | requests in flight: where each stands, what it has read; batches; failures and crashes; what clients were promised |
| `Startup` | `service/core.py`, `bootstrap` | ping, bootstrap call by call, probe |
| `Documents` | `service/documents.py` over `stores/qdrant.py` | `put`, `delete` and the batch, one action per await |
| `Corpora` | `service/corpora.py` over `stores/qdrant.py` | `create` and `drop`, one action per await |
| `Lifecycle` | their composition | the next-state relation of all writing clients, and its properties |
| `MemoryStore` | `stores/memory.py` | the abstract specification of a store: each write one atomic step, each read one operator; `IdRank` is the order of the document ids |
| `Conformance` | | the refinement: `Lifecycle` without overlapping rivals implements `MemoryStore` |
| `Reads` | | requests that read, and what a writer's step means to them |
| `Queries` | `service/query.py` | config, embed, fan-out (each search answers, fails or is timed out), prefetch, selection, while writers go on |
| `Catalog` | `list_page`, `get`, `inspect` | the registry reads, one action per backend call |
| `Readers` | | writers and readers composed, and the properties of what is read |
| `Batching` | `embed/__init__.py` | batches of a call under a semaphore, retries, gather |
| `Providers` | `embed/ollama.py`, `embed/openai_compat.py` | the two HTTP embedders over `Batching` |
| `MCForest`, `MCSelection`, `MCLifecycle`, `MCReaders`, `MCProviders` | | the small instances TLC runs, with the properties of the pure modules |
| `SumsProofs`, `ForestProofs`, `MCForestProofs`, `SelectionProofs`, `ProvidersProofs`, `LifecycleProofs`, `ConformanceProofs`, `ReadersProofs` | | the theorems, see [Proofs](#proofs) |

**Selection** keeps the local variables of `select` and `_trade_up` as its
state: `cls` the `_Class` objects (named by the fused rank of their leaf,
counted from 1), `packed`, `left` for `budget_left`, `round`, `progressed`,
`trades` for the trace's trade-ups and `exhausted` for its `budget_exhausted`.
`agenda` and `order` are what the running `for` loop has left to visit and the
priorities it was sorted by: the code sorts once per round, while trades in the
round may change ranks, so the order is kept apart from the ranks. Ties of
`_Class.priority` are broken as Python's stable sort does, by the order of the
hits, which the query service concatenates by ascending size. The actions are
the branches of the loop bodies: `Pack`, `SkipUnaffordable`; `PassOver` (dead or
still parked), `Saturate`, `FetchMiss`, `StaleParent`, `OverBudget`, `TradeUp`;
and the loop heads `BeginRound`, `EndRound`. `DedupOnly` is `budget=None`.

**Lifecycle** composes the writers. A request keeps in `reqs` the await it
stands at, the config its service read, the sizes its running loop has left, the
point ids it listed and the documents of its batch still to come, that is,
exactly what the coroutine carries across awaits. Every adapter method starts by
reading the corpus config again; these reads are steps of their own (`ListIds`,
`UpsertSlices`, `Tombstone`, `Register`, `FindDocument`, `Lookup`,
`DropCorpus`), because another request may run before the next call. The checks
of `upsert_slices` (same grid, same dimension) happen at that read, and what is
written afterwards is not checked again.

A batch is a sequence of puts: `Return` and `Raise` turn to the next one
(`Proceed`), as the `try` in the loop of `batch_documents` does, and only
`StrayError` and `Crash` end it. Its first step, `OpenBatch`, is the inspection
of the corpus the handler begins with, taken as one read: the handler uses only
whether it succeeds.

A create begins with the bootstrap, so does every readiness request. `shared`
holds, for each registry collection, the fields that are indexed, or `None`.

`alone`, `since`, `was` and `promised` are history variables: a request is
`alone` if no call that may disturb it (the same document, or a create or a
drop) overlapped it, and `promised` is the content of a document according to
the last write that returned and was alone.

**MemoryStore and Conformance.** The interface's documents speak of atomic
calls, the tests run on the in-memory store, production on Qdrant.
`Conformance` maps the Qdrant server's state and the requests under way to the
in-memory store's state: an operation counts as done at its first call that
changes anything, so that what it has still to write or delete is added or taken
away (`ToWrite`, `ToDelete`, `Deleting`, `Dropping`). `TakesEffectAtOnce` is
`Memory!Spec`: every backend call is one whole call of the in-memory store or a
stutter. It needs clients that do not meet (`PoliteSpec`) and no failure; the
violated runs show what racing ones get, and `PromiseKept` what a failure leaves.

**Readers** adds clients that read. `reads` holds what the coroutine carries, and
per document `steady`, what was promised of it since the read began ({} once a
write touched it), and `findable`, the documents with text that at most a put
without rivals replaces. Which points a search ranks first is left open, so a
ranking is any sequence of distinct points of the collection. `AnswersAsMemory`
instantiates `MemoryStore` once more, for one read each: what Qdrant answers in
several calls is what the in-memory store answers at once. A list is compared as
a set and by its length, for every order of the document ids: the interface
leaves the order to the adapter, memory sorts by document id, while Qdrant scrolls
by the hash of it, in the models the order of the naturals that stand for
documents. One takes the last document of a page and the other the first of the
next as cursor.

**Providers.** A text is its place in its call, and so is its vector; a batch
task keeps its attempts left and what it has got. Backoff times are left out:
any task in backoff may be posted again. A 404 downgrades Ollama's endpoint for
good whether the endpoint or only the model is missing, as the code does not tell
these apart: `NotFound` may happen on a server of either age.

**Faults.** A failed call took no effect (`Broken`, which is also a refusal before
the first call, an `EmbedderError` or a timeout) or took effect and its answer
was lost (the second half of `Answered` and `Confirmed`). `Crash` kills the
process with every request in flight and starts it again; what the server was
told stays. `StrayError` is an exception that is none of phoropter's own (a
provider's answer that is no JSON). The read of a query's config and its embedding may fail,
a search or a fetch may fail or find its collection gone. `MaxFaults` bounds how
many of these a behaviour has. A search may be given up by its timer at any
moment (`SearchTimesOut`), which counts as no failure. A backend call that takes effect only after its request failed is
not modelled.

Abstracted: ids are coordinates (`NamesAreInjective` checks the names they are
computed from, UUIDv5 is taken to be injective); scores and provenance are left
out except for what is computed from them; byte offsets follow from code
points; the token cache cannot be stale because a retrieved slice shadows the
prefetched one of the same ref.

## Runs

| run | instance | shows |
|---|---|---|
| `forest` | all texts of at most 9 code points over 2 letters, sizes 2, 4, 8; all sets of at most 3 hits of one generation of three texts and of two generations of two documents; names of corpora and documents of at most two code points (separator, escape, and for all but one document a digit), with three sizes and offsets | slicing loses nothing and lists exactly the nested slices; the linear grid walk finds the whole nesting, its leaves and its density and reports no anomaly without a race; a stale parent is no edge, is reported and hides no containing hit; all four fields can be read off a name |
| `selection` | rankings of at most 3 hits of one document, of two short ones and of two racing generations; every expansion mode, budgets none, tight and ample, a capped size, join overhead, a failed prefetch of one size; the requests of `budget_fit` and `DedupeOnly` | all invariants below and `TradesShowMore` |
| `selection_crossed` | the racing rankings | **violated**: a trade crosses generations |
| `lifecycle_alone` | one client, an empty deployment, any five calls out of two creates, drop, health, three puts and delete on one document, two failures or crashes anywhere | a call that returned kept its promise whatever failed earlier; replaces leave no gap; a created corpus is healthy; a health check calls the store in order only with both registries there, and does so unless something fails |
| `lifecycle_shared` | two clients, two documents, two calls each: one creates and puts both documents in a batch, the other creates, drops, puts and deletes; with and without a corpus at the start, one failure | the same promises with every interleaving: other documents' requests never disturb a write; racing bootstraps leave both registries; a batch goes on |
| `conformance` | two clients, two documents, three calls each that do not meet | the refinement of `MemoryStore` |
| `readers` | one client writes (two calls out of put, put of another document, delete, drop), one reads (query with three choices of sizes and `top_k`, list with pages of one, get, inspect), one failure | what is read is what was promised, partial answers say so, a replaced document never vanishes, counts leave out nothing at rest, every read ends |
| `providers` | two calls of three batches and one, two slots, two attempts, two failures; three kinds of server | order, reasons to fail, few 404s, the pool drains |
| `racing_replaces` | two puts of one document, no failure | **violated**: both generations stay |
| `put_races_drop` | a put and a drop, no failure | **violated**: the registry entry outlives the corpus |
| `racing_creates` | two creates with different grids, no failure | **violated**: the config is overwritten |
| `pinned_embedder` | a create that names another model, a put | **violated**: the corpus takes the server's vectors |

The properties of the selection: `Ledger` (budget left plus the cost of the live
tops is the budget), `NothingDropped` and `PassageKept` (what was packed stays
visible, in one generation at its own place), `NoPassageTwice`,
`EvidenceFlowsUp`, `ReplayAgrees` (the trace replays to the live tops after
every trade), `HonorsOptions`, `StopsForAReason` and `UnexhaustedMeansComplete`
(when and why it stops), `ReadsInOrder` (the output reads as the documents do),
`TradesShowMore`. Those that speak of places hold for one
generation and say so in their statement.

The properties of the lifecycle: `PromiseKept` relates the registry, every
collection and what was answered; `NoGap` says what a search may find while a
document is being replaced; `CreatedIsHealthy`, `RegistryStands`, `BatchGoesOn`,
and `HealthHeals`, which relates the report of a health check to the registries:
both are there if it says ok; it says so if it met no rival and no failure; and
as long as no call ever failed the document registry has its indexes. After a
failure it may not (see [Findings](#findings)). The promises are void for calls that raced a call on the same
document or a create or drop of the corpus: the violated runs, of
`NothingSurvivesDrop`, `ConfigFrozen` and `OneGenerationAtRest`, show that they
then do not hold.

The properties of reads: `ServesThePromise`, `UnmarkedIsComplete`,
`NeverVanishes` and `AncestorsAtHand` for a query beside
writers, `FusedByRank` and `FitForSelection` for what it hands to the strategy
(the second is what `Selection` assumes of its requests), `ListedOnce` for a walk
through the pages beside writers, `InspectAccounts` for an inspect beside them
(nothing at rest is left out of the counts, nothing absent is counted, no size
that holds a document at rest is blamed), `AnswersAsMemory` for reads that
nothing disturbs, and `ReadsEnd`, which needs no search to answer.

**Bounds.** In the selection, sizes 1, 2, 4 give two levels above a leaf, so a
class can grow twice, skip a level, and be absorbed by a class that itself
absorbed one; three hits let two absorptions meet a third class; the texts
have clipped spans at every size and repeated slices at different offsets. The
token counter counts runs of equal code points, so that a parent may cost less
than its parts (a negative delta) as real tokenizers do. In the lifecycle two
sizes make every per-size loop run twice, so that a failure or a rival can come
between two rounds of it; the texts grow, shrink, repeat and empty a document;
five calls are create, put, put, delete or drop, and one more after that; with
two failures a repair may fail too. In the shared run the creates use the coarse
grid, while a corpus there at the start has the fine one, so that a put can meet
a corpus made anew with another grid; a batch of two documents can have its
first one fail, by the fault or because the rival dropped the corpus, and go on
to the second. For reads, two writes let a whole replace and the begin of
another fall into one query, and pages of one document put a write between any
two. For the embedders, three batches over two slots leave one queued, whose
turn depends on how the others end, and a second call shares the endpoint flag
but not the semaphore.

**Fairness.** `Selection` has none: its rounds are bounded by `max_rounds`, and
what could go wrong, that the limit ends the loop too early, is the invariant
`StopsForAReason`. `Lifecycle` has weak fairness of every request's steps (the loop runs what is
ready, and every backend call ends, by an answer or by the client's timeout); no
client is obliged to issue a call, and nothing obliges a call to fail. It is
used by the violated runs, whose counterexamples are thus no mere stops.
`Readers` has weak fairness of every reader's own steps, among them the calls it
waits for alone, which the client library's timeout ends, and of the timer that
`wait_for` puts on each search. Nothing makes a search answer or fail, and no
writer is fair: `ReadsEnd` holds though searches hang, and whether writers go on
or not. `Providers` has weak fairness of
every call and every task: httpx ends each request by an answer or a timeout,
and a backoff is a sleep.

**Deadlock** checks are off in all runs: a selection returns, clients stop
calling, embedding calls end. What must not hang is stated by `ReadsEnd` and
`Drains`.

## Findings

1. `selection.py:482`: with repeated text, a parent of another generation
   vouches, and the trade-up crosses generations, which `docs/decisions.md:75`
   excludes. (`selection_crossed`)
2. `service/documents.py:76`: two replaces of one document leave points of both
   texts for good; `docs/concepts.md:118` speaks of a brief window.
   (`racing_replaces`)
3. `stores/qdrant.py:420`: a put that races a drop leaves a registry entry,
   against `stores/__init__.py:216`. (`put_races_drop`)
4. `stores/qdrant.py:235`: two creates both succeed and the second overwrites
   the config, against `stores/__init__.py:107`. (`racing_creates`)
5. `service/documents.py:79`: a put embeds with the server's model and compares
   dimensions only; `stores/__init__.py:113` promises that a corpus never
   silently accepts vectors from a different embedder. (`pinned_embedder`)

Other things a reader of the models will notice, which no run is spent on:

- The grid walk does not test the end of the parent's span
  (`forest.py:157`), although `forest.py:76` says the forest applies the test of
  `contains`: when a document is replaced by a shorter text that repeats
  itself, a positional parent may get a child that begins beyond its end. The
  properties of the forest that speak of two generations allow for this.
- A create that fails between making a collection and indexing it
  (`stores/qdrant.py:239`), or a bootstrap that is killed there (`:204`), leaves
  a collection that is never indexed later, because the next one finds it and
  looks no further; a collection of another dimension is adopted likewise.
- A class parked over budget is not looked at again when its own trade became
  cheaper without the budget rising (`engine.md` describes exactly this rule).
- After a first put that failed between its writes and its registry entry,
  searches return points of a document that `delete` says does not exist;
  putting it again repairs this.
- An answer of the embedding provider that is no JSON raises an exception that
  a batch does not catch (`server/rest.py:363`).
- Readiness goes on reporting the embedder reachable after it went down, for
  its dimension is remembered (`embed/__init__.py:81`).

## Proofs

Every theorem is about `Spec` (those of `ConformanceProofs` about `PoliteSpec`),
for all values of the constants that satisfy the assumptions listed below. `->` names the property of a run it states.

| module | theorems | argument |
|---|---|---|
| `SumsProofs` | lemmas | sums over a finite index set: changing one entry, emptying some, adding entries outside the support; a finite set that a comparison orders strictly has one sorted enumeration, which lists all of it and ascends |
| `ForestProofs` | lemmas | aligned spans nest or are disjoint (divisibility along the ladder of sizes); `Contains` and `PositionallyNests` are transitive and consistent; the parent the grid walk finds is the smallest container |
| `MCForestProofs` | `SlicesTile` -> `TilesAtEverySize`, `DescendantsNest` -> `DescendantsAreTheNested`, `WalkFindsNesting` -> `NestingIsFound`, `StaleParentsTold` -> `StaleParentsAreTold`, `NamesTellFields`, and of it `NamesNeverCollide` -> `NamesAreInjective` | from `HitsStored` (hits are slices of stored generations) and the lemmas above; for texts of every length over two code points, every grid and any finite set of hits (the lemmas of `ForestProofs` hold for any alphabet); `NamesTellFields` for ids of any length over any alphabet |
| `SelectionProofs` | `TypeCorrect` -> `TypeOK`, `LedgerHolds` -> `Ledger`, `OptionsHonored` -> `HonorsOptions`, `NothingIsDropped` -> `NothingDropped`, `EveryTradeShowsMore` -> `TradesShowMore`, `PassagesKept` -> `PassageKept`, `NoPassageShownTwice` -> `NoPassageTwice`, `EvidenceFlows` -> `EvidenceFlowsUp`, `TraceReplays` -> `ReplayAgrees`, `LoopStopsForAReason` -> `StopsForAReason`, `UnexhaustedIsComplete` -> `UnexhaustedMeansComplete`, `SelectionsReadInOrder` -> `ReadsInOrder` | the invariant `IInv`, strengthened once per theme, see below |
| `ProvidersProofs` | `VectorsInOrder` -> `InputOrder`, `FailureHasAReason` -> `FailsForAReason`, `DowngradeRemembered` -> `FewMisses` | `IInv`: permits, what each batch has got, how often it was tried |
| `LifecycleProofs` | `TypeCorrect` -> `TypeOK`, `CorpusHasRegistry` -> `RegistryStands`, `HealthCheckHeals` -> `HealthHeals`, `BatchIsNotCutShort` -> `BatchGoesOn` | `BaseInv`: types and what each await knows, registries, rivals, health checks; for `HealthCheckHeals` also `ReportInv` and `IndexInv` |
| | `ReplaceLeavesNoGap` -> `NoGap`, `PutTextsAreServed`, `PromisesWithin`; `PromisesOnOneGrid`, `PromisesUnlessCreatesRace`, `PromisesOfOneClient` -> `PromiseKept`; `CreatedCorpusIsHealthy`, `OneClientCreatesHealthy` -> `CreatedIsHealthy` | `PromiseInv`, see below |
| `ConformanceProofs` | `AdapterKeepsThePromise`, `AdapterKeepsThePromiseWithoutFaults` -> `TakesEffectAtOnce` | `CalmInv`, and one call or a stutter per step, see below |
| `ReadersProofs` | `QueriesNeverMiss` -> `NeverVanishes`, `UnmarkedAnswersAreComplete` -> `UnmarkedIsComplete`, `CandidatesAreFusedByRank` -> `FusedByRank`, `SelectionGetsARequest` -> `FitForSelection`, `PagesListOnce` -> `ListedOnce`; `QueriesServeOnOneGrid`, `QueriesServeUnlessCreatesRace` -> `ServesThePromise`; `AncestorsOnOneGrid`, `AncestorsUnlessCreatesRace` -> `AncestorsAtHand` | `ReadInv`, see below |

**Selection.** `IInv == TypeOK /\ PhaseInv /\ Ledger`. `Ledger` alone is not
inductive: a pack has to know that the class it packs is not packed already and
is alive, a trade that its class is live, its budget a number and the absorbed
classes distinct from it; `PhaseInv` says which classes the running loop has
left and in what state they are. On top of it, `TopsInv` says that every top is a slice at hand that the options allow, and
that live tops have distinct refs; `CoverInv`, for one generation, that every
packed hit lies within a live top that has its evidence, and that live tops of
one document are disjoint; `RankInv` that a class ranks by its best evidence.
From these follow the properties of passages, evidence and what a trade shows.
`ReplayInv` relates the trace so far to the live tops. The output is the sorted
enumeration of the live tops; that no two of them compare equal, without which
there would be none, is that disjoint tops of one document differ in offset, and
the rank a document is shown by is that of its best packed hit because evidence
never leaves the live tops of its document.
The end of the loop rests on a measure: each visit that changes anything but a
parking mark uses up one of the levels a class has left, of which there are at
most `|packed| * |Sizes|`, and `MaxRounds` leaves two rounds more (`LoopInv`).

**Lifecycle.** A step of one request leaves the records of the others as they
were, but for `alone` (`OthersStay`), and a step of a request is one of a few
moves (`ActsGo`); the store changes only as the call at that await changes it
(`ActsStore`, `ActsSpare`). Everything else builds on these. `PlaceOK` says what
the await a request stands at implies about what it carries; `BootInv` which
registry a bootstrap has seen at which await; `HealthInv` what a health check
found; `AloneInv` that requests that are alone have no rival in flight.
`HealthCheckHeals` adds `ReportInv` (a check past its bootstrap that still says ok
has both registries behind it, which nothing ever removes) and `IndexInv` (while
nothing failed, the document registry has all its indexes, or the request that
made it has the missing ones still to make).

`PromiseInv` adds what the await of a put without rivals says of each
collection (`PutSees`: it has listed what is there; written the new text, with
the rest still to remove; removed it; `GapSees` the same of the old text),
that a promise ends when a write begins (`UnwrittenInv`), and that no create is
under way past its look at the name while a text is promised (`SettledInv`).
That proves `NoGap` and `TextsServed` with no further hypothesis: whatever other
clients do, a text that was put without rivals is registered and is all that the
sizes of its corpus hold of the document.

`PromiseKept` says more: nothing of the document is in *any* collection, also
of sizes that are not in the corpus, and after a delete or a drop nothing is
left at all. `PromisesWithin` proves this for as long as `Outside` holds, that
is, no collection outside the grid of the corpus has points. Racing creates of
different grids can break that (finding 4: the second config overwrites the
first, and points put in between stay in collections no later drop removes), so
some hypothesis is needed, and three theorems each give one that excludes them:

- `PromisesOnOneGrid`: all creates ask for the same grid. Clients may race as
  they like, on whatever grid the corpus there at the start has. The instance of
  `lifecycle_shared` is of this kind.
- `PromisesUnlessCreatesRace`: as long as creates and drops overlap no other
  call (`Unrivalled`), whatever they ask for; puts and deletes may race.
- `PromisesOfOneClient`: a single client, with no assumption on the behaviour.
  The instance of `lifecycle_alone` is of this kind.

`CreatedIsHealthy` needs `OneDimension`: an existing collection is adopted
unseen, and one left behind by a create with another model has another
dimension. The embedder of a server has one, and the runs' configs share it.

**Conformance.** `AdapterKeepsThePromise` is the refinement: while nothing fails,
every behaviour of `PoliteSpec` is one of `MemoryStore` under the mapping of
`Conformance`. The hypothesis is `[](faults = 0)`, of which `MaxFaults = 0`, the
value of the run, is a special case; `Stock` is empty because the in-memory store
starts without points, while the corpus may be there already or not.
`CalmInv` is the invariant: `PromiseInv` (what a put has seen), `DeleteInv`,
`DropInv` and `MadeInv` (what a delete, a drop and a create have done at the
sizes behind them), `QuietInv` (a create or a drop has no company), and, which
holds only in calm, that a corpus has its
collections and no others but for those a drop took away (`StandsInv`), that
without a corpus there are none but those of a create on its way (`FreeInv`), and
that what a request has left is part of what it set out to do (`LeftInv`).

A caller's view is what the collections hold, less what some request hides and
with what it lends: `Drops`, `Deletes`, `Buries`, `Replaces` and `Lends` say so
for one request (`HiddenIs`, `PromisedIs`). A request that has changed nothing
yet is `Idle`, and only the views of its own document change when a put or a
delete moves (`StandApart`, `OneDocument`). So each call is seen at one step and
no other: an upsert at the write of its first size (`WriteIsOneCall`), the
removal of leftovers, a delete and a drop likewise (`TombstoneIsOneCall`,
`PurgeIsOneCall`, `DropIsOneCall`), a create at the save of its config
(`CreateEnds`), a record at its own (`RecordEnds`); every other step is a stutter
(`Silent`).

**Readers.** A step of a client that reads leaves the writers and the store as
they are, but for the count of failures (`StepsAround`), so `PromiseInv` carries
over. `ReadInv` adds, for each request that reads, what it remembers
(`Recalls`: what it holds as `steady` is still promised, what it holds as
`findable` still has text), that a config it has read is still the corpus's as
long as a text is promised or replaced (`ConfigInv`), and what a query has so far: rankings of distinct points, one
generation per place (`TidyInv`: two points of one place and size do not coexist),
for each size it searched with room to spare all points of what was promised;
and, of what it fetched, only what it asked for, and all of it if nothing was
lost (`QueryInv`). `NeverVanishes`, `UnmarkedIsComplete` and `FitForSelection`
follow with no hypothesis on what clients do.

`ServesThePromise` and `AncestorsAtHand` also say that nothing of a deleted
document is served. That needs what `PromiseKept` needs, and the theorems carry
the same hypotheses: one grid, or creates and drops that meet no rival.

For `FusedByRank`, the candidates are the concatenation of tiers, each the hits
of one rank by ascending size; a hit's place is the sum of the tiers before it
and its place in its own. `ListedOnce` needs that the cursor only grows: what
was listed is below it, what is yet to come is not, and a document registered
all along is listed or not below it (`ListedInv`); it holds with any writers.

**Names.** `NamesTellFields` says that corpus, document, size and offset can be
read off a name, for ids of any length over any alphabet and numerals that hold no
separator. Read from the left, an escaped id is one token
per character, and no token begins with a separator that is not escaped; so two
escaped ids that stand, each followed by a separator, at the head of one string
are equal, token by token (`HeadsAgree`), and what follows them is equal too
(`NamesPart`); a numeral ends at its first separator (`PlainFieldsPart`). The
flattening in `Escape` is unrolled by induction over its
prefixes (`EscapeIs`, `EscapeEnds`), which `SetInduction` carries out for one
such sequence at a time.

**Embedding.** `FewMisses` follows from `PermitsInv`: the 404s a call met and the batches
it has posted are together at most `MaxConcurrency`, because nobody posts to the
missing endpoint once the flag is set. `InputOrder` needs for `openai_compat`
that sorting the answer by its index undoes any permutation of it.

**Assumptions.** `GridAssumption`: what `GridSpec` validates.
`RequestsAssumption`: hits and prefetched slices are slices as they are cut, with
distinct refs and natural token counts (`FitForSelection` checks that the query
service hands over nothing else), and options are of their types.
`GenerationsAssumption`: a generation is a finite, non-empty set of texts.
`ServiceAssumption`: configs name sizes of the grid and at least one, menus hold
calls, bounds are natural numbers. `NoneAssumption`: `None` is none of the values
in whose place it stands. `BatchingAssumption`: counts are natural numbers, and
batches, permits and attempts at least one. TLC evaluates each on a run.

**Only model-checked.**

- `ReadsEnd`, `Drains` and the violated runs: liveness needs
  fairness and ENABLED, which the provers do not handle.
- `AnswersAsMemory`, which judges a read against the abstract store: on top of
  `ReadInv` it needs what a walk of several pages adds up to, which `MemoryStore`
  defines by recursion (`Walk`).
- `InspectAccounts`, which counts points over several steps of other clients.

No refinement is claimed where a call may fail or clients meet: an upsert that
fails halfway does not take effect at once, nor do calls that race.

## Not modelled

- `RawScorePool` of `fusion.py`, an experiment on scores that no service uses.
- `list_corpora`, `list_names`: the models have one corpus name. Corpora share
  collections with no other corpus, and the registries are filtered by name.
- `FakeEmbedder` and the embedder registry: a hash and a table of names.
- Token counters: pure calls to tiktoken with a memo; any counter is allowed for
  by the constant `Count`.
- REST, MCP and middleware other than the batch and readiness handlers, request
  schemas, configuration and command line: stateless parsing and formatting over
  the services.
- The evaluation harness: offline statistics.
