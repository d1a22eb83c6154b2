# Verification of the catalogue service

TLA+ models of `shop-catalog-service`, a Go service that keeps a product catalogue in
PostgreSQL, caches it in Redis and announces every change on a Kafka topic through a
transactional outbox. TLC checks the models on small instances; TLAPS proves every safety
property below for all instances. Paths are relative to the root of the repository.

## Inventory of the system

| component | source | state | operations | what makes it correct |
|---|---|---|---|---|
| product repository | `internal/repository/postgres` | tables `products`, `outbox_events` | `Create`, `Update`, `UpdateStock` (one transaction each), `GetByID`, `List` | no lost update, unique skus, stock >= 0, one event per change, honest replies |
| outbox publisher | `internal/outbox` | column `status`; a batch in memory | `Run`, `publishBatch`, `fetchPending`, `markSent`, `markFailed` | nothing marked sent that is not in the topic; every deliverable event sent in the end |
| Kafka producer | `internal/events` | the topic | `PublishRaw` | events of one product in order (claimed) |
| cached repository | `internal/repository/cached` | none of its own | `GetByID`, `List` (cache-aside), `Create`, `Update`, `UpdateStock` (write, then invalidate) | an acknowledged write is visible to later reads; what is stale becomes fresh |
| Redis cache | `internal/repository/redis` | product and list entries with a TTL | get, set, `DeleteProduct`, `InvalidateListCache` (SCAN + DEL) | every list entry present during the SCAN is deleted |
| catalogue service | `internal/service/catalog`, `internal/domain` | none | validation, limits, metric labels, error mapping | only valid commands reach the repository; listing by pages is complete |
| transport | `internal/transport/grpc`, `internal/transport/http` | none | routes, decoding, error translation | the status on the wire tells what happened |
| application | `internal/app`, `cmd/catalog` | servers, clients, publisher goroutine | `main`, `New`, `Run`, `Shutdown`, readiness | everything opened is closed, nothing is used after it was closed, a stop ends |
| in-memory repository | `internal/repository/in_memory` | slice and map under a mutex | the repository interface | same answers as PostgreSQL; not wired in by any program |
| config, migrator, observability | `internal/config`, `cmd/migrator`, `internal/observability` | - | start-up and reporting | - |

Interaction: a request goes through a transport handler and the service to the cached
repository, which reads Redis and falls back to PostgreSQL, or writes PostgreSQL and then
deletes keys from Redis. The write transaction leaves a row in `outbox_events`; the
publisher goroutine of any replica polls that table and calls Kafka. Shared state is
therefore the database and Redis; the goroutines of one process share nothing else that a
request can change. Hard behaviours: concurrent transactions on one row, commits whose
acknowledgement is lost, two replicas publishing the same rows, clocks that differ, crashes
between publish and mark, readers that fill the cache with what they read before a write,
failing invalidations, pages that shift under a client, a start that fails half way, and a
shutdown that races calls, server failures and its own deadline. `PROJECT.json` lists them
as hazards, each at its line.

## Modules

| module | role |
|---|---|
| `ProductRows` | constants, rows and commands; what each command does to a row |
| `ProductStore` | abstract specification: a write is one atomic change of a row with its announcement and its answer |
| `AnnouncedStore` | abstract specification: a `ProductStore` whose announcements reach the topic |
| `PostgresRepository` | the transactions as the code runs them; implements `ProductStore` |
| `InMemoryRepository` | the slice and the map; implements `ProductStore` too |
| `OutboxPublisher` | the publishers of any number of replicas over `outbox_events` |
| `CatalogEvents` | `PostgresRepository` and `OutboxPublisher` composed: from a request to the topic; implements `AnnouncedStore` |
| `CachedRepository` | the cache-aside repository over Redis |
| `ProductListing` | a client paging through `ListProducts` while products are created |
| `RequestHandling` | a request through router, handlers and service, over `ProductStore` |
| `AdminService` | the same layers over the transactions of `PostgresRepository`; implements `RequestHandling` |
| `Lifecycle` | one process: `main`, `New`, `Run`, `Shutdown` |
| `X_proofs` | the theorems of `X`; those of `AdminService` are in `RequestHandling_proofs` |
| `MCX` | small instances of `X` for TLC |

### ProductStore and AnnouncedStore

`ProductStore` is what the interface `ProductRepository` (`catalog.go:23`) promises the
layers above it. A request takes one step: its change and the event that announces it, or a
refusal that is true of the rows at that moment (`RefuseSku`, `RefuseMissing`,
`RefuseStock`), or an error, which says nothing: `Record` too may be answered with one, for
a commit whose acknowledgement is lost. `Answer` makes each request answered once.
`AnnouncedStore` adds what the consumers rely on: only what was committed is delivered, in
any order and any number of times, and what is settled is in the topic for good.

### PostgresRepository

One request is one transaction: `BeginTx`, then the statement that writes the row
(`InsertProduct`, `PatchProduct`, `AddStock`) or is refused (`RejectDuplicateSku`,
`RejectStock`, `RejectMissing`), then `InsertOutboxEvent`, then `Commit`. `Abort` is every
error return before the commit, a cancelled context and the death of the process: the
deferred `tx.Rollback()` or the server undoes the transaction. `Commit` may return an error
although it took effect. Requests that run one after the other in the code are separate
elements of `Requests`; a request that calls several times is several elements.

`table` and `events` are the committed rows, `image` is the row that RETURNING gave and
that is still invisible to others, `begun` is what `NOW()` returns in the transaction and
`occurred` is `OccuredAt`. `ver` in a row is a history variable, the number of changes of
that row; no column holds it. Text values are abstracted to the request that wrote them.

What is assumed of PostgreSQL at READ COMMITTED is written in the head of the module.
`now` is the clock of the database, which `NOW()` reads; `OccuredAt` is read from the clock
of the replica that serves the request, ahead of `now` by `Skew`, any constant per request.
Two transactions may begin in the same microsecond: `BeginTx` advances `now` or leaves it, and
`OutboxPublisher` takes events of equal `created_at` in any order, as ORDER BY does. Of the
two readings behind `OccuredAt` of one product there is always a commit and an UPDATE in
between, so those do differ.

### InMemoryRepository

Every call is one step, because the mutex covers it from the first check to the last
assignment. `products` is the slice and `byID` the map; `Ids` are the ids by position,
which the code makes from the length of the slice. `AddInt32` wraps as Go does; `MaxStock`
is the largest int32, so -MaxStock-1 is the smallest. `offset` and `seen` belong to a
client that pages through `List`. `ImplementsStore` shows that wrapping is harmless (a sum
beyond the range is negative and is refused) and that the made-up ids never clash.

### OutboxPublisher

`Run` waits for a tick (`phase` "waiting"), fetches the oldest pending events, hands them
to Kafka one by one ("publishing") and marks each success ("marking"). The batch is a set:
its next element is any of the oldest, which is what the ordered rows give. A failed
publish may or may not have appended the message, and the loop goes on; a failed `markSent`
leaves the event pending. `Stop` cancels the context, after which no UPDATE succeeds and
`Run` returns at its next `select`; `Crash` loses the batch; `Restart` is a new process.
Not modelled: a message appended after the call that sent it was abandoned has returned
(kafka-go may do so during shutdown), and the columns `attempts`, `last_error` and
`sent_at`, which nothing reads.

### CatalogEvents

Instantiates both modules over one set of variables. `ImplementsContract` maps the
announcements of the delivered events to the topic of `AnnouncedStore` and those of the
events marked sent to its settled ones. The commit of a transaction is the
`Insert` of the publisher's environment, with the transaction's start as `created_at`;
publishers change nothing the repository reads. A request makes at most one event, so the
request serves as the id of its event.

### CachedRepository

The database is reduced to the number of changes of each row, written atomically
(`ProductStore` justifies that); a page is the set of rows that ORDER BY id LIMIT OFFSET
selects from it. A reader misses, reads, fills. A writer commits, deletes the product key
(not after a creation), runs the SCAN loop one call at a time and deletes what it found.
`owed` expresses the guarantee of SCAN: the loop cannot end before every list key present
since its first call was returned. Every call to Redis may fail, with the code's reaction;
a commit may report an error and skip the invalidation. `tainted` is a history variable:
the stale entries that a race or a failure explains.

### ProductListing

`tables` are the tables there have been in the order of ids, `rows` the latest; a creation
inserts its row anywhere, since ids are uuids. The client asks for any limit, the handler
accepts up to `HandlerLimit` (1000), the service puts `EffectiveLimit` in force (20 for 0,
100 for more), and a page comes from Redis or from the table (`ListCached`, `ListRead`).
Redis is shared: a key may have been filled by another client that asked for the same limit
in force and offset, from any of the tables, and may have been kept by a race or a failed
DEL (`CachedRepository` says which), so a hit is a page of any of them. `first` and `known`
remember from which tables the client's first and latest page came, `back` that a page was
older than the one before it; the properties speak of the walks where none was, and these may
be out of date throughout. A call that fails leaves the client where it was, so it is no step.

### RequestHandling

Each request passes `Receive` (the router and what the handler refuses), `Validate` (the
checks of the service), the repository (`Call` for a write; `ReadSucceeds`, `ReadMisses`,
`ReadFails`) and `Respond`, which sets the status label of
`catalog_service_requests_total` and the HTTP status or gRPC code. The repository is
`ProductStore`, which both implementations refine, its answers included. Bodies are reduced
to what the layers tell apart; `MCInputs` has one of each kind on every route, with stored,
unknown, blank and missing ids. A path may lack
the id (`/admin/products/`, or `/admin/products/%2Fstock`, which the `ServeMux` does not
clean because the slash is escaped); the handlers answer it with 400.

### AdminService

`RequestHandling` takes a write for one step; here it is a transaction. `Begin` is the call
of the repository with the command the request carries, `Proceed` every statement of the
transaction, its commit or its abort; the step in which the transaction ends hands the
answer to the service. Between the two the other requests' transactions, reads and
handlers run. `journal`, the store's record of announcements, is the table of events. The
cached repository hands commands and answers on unchanged; its effect on Redis is
`CachedRepository`.

### Lifecycle

`stage` is where the main goroutine is: the calls of `New` one by one with each error
return and what it closes, `run`, the `select` of `main` ("wait"), the calls of `Shutdown`
one by one, and the end ("refused", "panicked", "exited"). The goroutines of `Run` (two
servers, the publisher) and the calls in progress move on their own (`Goroutines`);
`Expire` is the deadline of the shutdown context. `opened` is what still has to be closed,
`errs` the length of `errCh`. A server that fails is "sending" until there is room in it.
The servers are libraries: `GracefulStop` returns when no call is left,
`http.Server.Shutdown` also when its context has expired, and `Serve` returns an error when
its listener fails or, for gRPC, when it is called after `Stop`. A second signal during the
shutdown is swallowed by `signal.NotifyContext` and changes nothing.

## What the runs check

| run | instance | shows |
|---|---|---|
| `repository` | 3 requests, 3 ids, 2 skus, 7 commands, MaxStock 2, one clock ahead | `UniqueSku`, `EventPerChange`, `SerialHistory`, `OccurredInOrder`, `HonestReplies`, the refinement of `ProductStore` |
| `publisher` | 3 events, 1 of them undeliverable, 1 replica, batches of 2, 2 outages | `SentWasDelivered`, `SentIsNotRepublished`, `EventuallySent` |
| `events_safety` | 3 changes of one product, one clock ahead, 1 replica, batches of 2, 1 outage | `OvertakenForAReason`, `TopicConverges` |
| `events_replicas` | 2 changes, both deliverable, 2 replicas, 1 outage | `TopicConverges`, the refinement of `AnnouncedStore`, `EventuallyAnnounced` |
| `event_order` | 2 changes, 1 replica, no outage | violated: `PublishedInOrder` |
| `cache` | 2 writers, 1 reader, 2 products, 2 pages of 1 row | `StaleOnlyIfTainted`, `FreshInTheEnd` |
| `in_memory` | 4 requests, 3 ids, 3 skus, an int32 from -3 to 2, pages of 1 and 2 | `SliceIsMap`, `WalkIsExact`, the refinement of `ProductStore` |
| `lifecycle` | 2 gRPC calls, 2 HTTP requests | `NobodyWaitsOnErrCh`, `ClientsOutliveUsers`, `NothingLeftOpen`, `ExitZeroMeansDrained`, `DrainIsAnnounced`, `ShutdownEnds`, `FailureStopsProcess` |
| `start_failure` | 1 call of each kind | violated: `StartFailureIsReported` |
| `shutdown_timeout` | 1 call of each kind | violated: `ShutdownIsBounded` |
| `requests` | `AdminService`: 2 requests, one product stored, ids for 2 creations, every kind of input | `WireIsHonest`, `LabelMatchesStatus`, the refinement of `RequestHandling`, and `EveryRequestAnswered`: row locks and unique keys never hold a request for ever |
| `listing` | 3 products and 2 to come, limits 0 to 4, default 1, cap 2, handler's limit 3 | `NothingMissed`, `RepeatsAreCreations` |

Each module also states one type invariant. Operators named `X_Something` next to an
operator `X` are deliberately wrong variants of it (a missing row lock, a missing ORDER BY,
a SCAN that stops after one page): with such a variant in the place of `X` the property it
is paired with in `PROJECT.json` fails, which is how the properties are known to depend on
the code they are about.

**Bounds.** Three requests are the fewest that let one transaction commit while two others
hold or wait for locks; two skus, one of them taken, give both a clash with a stored row
and one between two open transactions. MaxStock 2 puts both ends of the column within one
command of the seeded value 1. Three events and batches of two make a fetch that is cut
off. `MaxOutages` bounds stops and crashes; every interleaving puts them at every point of
the loop. Two pages of one row make a creation move a row between pages. `MaxVersion`
bounds the changes of a row. In memory, deltas from -3 to 2 reach both ends of the integer
and wrap past the upper one. Two calls per server let one end while the other holds the
drain. Limits 0 to 4 lie on both sides of the default, the cap and the handler's limit, and
five products make three pages under the cap. Requests meet each other only in the
database, so two of them are enough for `requests`: two creations of one sku, or a change of
a row and one that waits for it, which holds nothing itself, as a transaction waits only in
its first statement. Symmetry is used only where no liveness property
is checked, among requests or products that no other constant tells apart.

**Fairness.** `AdminService`: a request that can go on does (the handler goroutine and the
server keep running); failures are never required. `OutboxPublisher`: weak fairness of
each publisher's own steps, for the ticker keeps firing, and of its restart, an assumption
on the deployment; strong fairness of the success of each event's publish and mark, for
Kafka and the database are down only for a time. Without it nothing could be sent at all.
`CatalogEvents` takes the publishers' fairness alone. `CachedRepository`: a reader that
missed goes on, and entries expire, because every SET carries the TTL and `NewCache`
refuses one that is not positive. Nothing is assumed of writers. `Lifecycle`:
`RuntimeFairness` says that goroutines that can run do and that time passes; strong
fairness for the publisher's return, whose `select` has the cancelled context and the
ticker both ready and picks one at random each time round. `HandlersReturn`, that gRPC
handlers come to an end, is an assumption nothing in the code enforces; `ShutdownEnds` and
`FailureStopsProcess` use it, `shutdown_timeout` is what happens without it. HTTP handlers
need no such assumption.

**Deadlock** is checked in every run. The end of all requests is an explicit step that
changes nothing (`Quiescent`, `Idle`, `Settled`, `Done`, `Finished`, `Ended`).

## What the runs found

`event_order`. `internal/events/producer.go:58` says of the message key that it
"гарантирует порядок событий одного товара" (guarantees the order of the events of one
product). It does keep them in one partition. `PublishedInOrder` states the claim and the
run refutes it without any failure: two transactions on one product overlap, the one that
began first commits last, and its event, the newer one, has the smaller `created_at` and is
published first. `OvertakenForAReason` shows in which ways alone an event is first published
before one of an earlier change: its transaction began first, or in the same microsecond,
of which ORDER BY created_at decides nothing, or a publish of the earlier one failed and the
loop passed over it (`publisher.go:99`). `TopicConverges` shows what a consumer can rely on
instead: `occured_at` orders the events of a product correctly as far as the clocks of the
replicas agree.

`start_failure`. `internal/app/app.go:98-99` goes on without tracing when it cannot start
and leaves `shutdownTracing` nil; the error returns at lines 104, 113, 129, 137, 145 and
153 call it without asking, where `cleanup` (line 164) and `Shutdown` (line 316) ask. With
tracing down, an unreachable PostgreSQL or Redis makes `New` panic instead of returning its
error. `NothingLeftOpen` holds even then.

`shutdown_timeout`. `cmd/catalog/main.go:61` gives `Shutdown` a context with the configured
`shutdown_timeout`, but `app.go:284` stops the gRPC server with `GracefulStop`, which takes
no context and waits for every call; a handler that hangs holds the process past its
deadline for ever.

Limits of the code that the properties make explicit rather than contradict:

- an event may be published more than once, by two replicas or after a crash
  (`SentIsNotRepublished` needs a single replica);
- `attempts` is never consulted, so as many undeliverable events as a batch holds starve
  all others (the premise of `EventuallySent`);
- a cache entry may be stale for a whole TTL after a fill that raced a write, a failed DEL
  or SCAN, or a commit that reported an error (the causes in `StaleOnlyIfTainted`);
- with Redis down every read fails, though the database could answer
  (`cached/product_repository.go:68`; `ReadFails`);
- a stock change by 0 or of a blank id is counted as `invalid_argument`
  (`catalog.go:323`, `331`), and the handler, which does not know its error, answers 500
  (`catalog_admin.go:162-164`; last conjunct of `LabelMatchesStatus`);
- `PATCH /admin/products/{id}/stock` is an update of the product, answered 200, because the
  router looks only at the method below `/admin/products/` (`router.go:51`; `Route`),
  though its comments (lines 45 and 50) give that path to the stock;
- a stream that breaks off is a success in the service's metric and `Internal` on the wire;
- the gRPC handler accepts limits up to 1000 (`handler.go:232`) and the service gives at
  most 100 (`catalog.go:96-98`), with the length of the page as its total: a client may
  take a short page for the last only by the limit in force (`NothingMissed`);
- products created while a client pages make it receive others twice
  (`RepeatsAreCreations`), and one created before its offset it never sees; a page from the
  cache that is older than the page before it may hide more, and nothing prevents one;
- the clocks of the replicas are not bounded: where they differ, `occured_at` may order the
  events of a product wrongly, by less than the difference (`TopicConverges`);
- a server that fails stops the process with exit status 0 (`main.go:55`).

## What is proved

Every invariant and refinement of the passing runs, for all values of the constants that
satisfy the named assumptions. Liveness needs fairness, which is beyond the prover, and is
only model-checked: `EveryRequestAnswered`, `EventuallySent`, `EventuallyAnnounced`,
`FreshInTheEnd`, `ShutdownEnds`, `FailureStopsProcess`.

`PostgresRepository_proofs`, for all sets of products, requests, attributes and skus, every
stock limit and every skew, from the assumptions of `ProductRows` (commands passed
validation; the seed has unique skus). None of the invariants is inductive alone: that a
commit is safe depends on what its transaction may rely on while it holds its locks. `IInv`
adds `Locking` (ids of creations are fresh and distinct, open transactions hold different
rows and skus, and the uncommitted image is the command applied to the row as it is
committed *now*) and `Recorded` (events come from finished requests, and a staged event has
a later clock reading than those of its product). `StepKinds` reduces the actions to
five kinds of step; only a commit touches the committed state (`QuietSteps`, `CommitFacts`).
`RepositoryImplementsStore` then names the one step of `ProductStore` in which a call takes
effect: the commit (`CommitRefines`), or the statement that refuses or the abort
(`RefusalRefines`); every other step is a stutter. Since the answers are part of the
store, it shows that each refusal is true when it is decided.

`OutboxPublisher_proofs`, for any finite number of events and replicas, any batch size and
any number of outages. The strengthening `Held` says what is in a publisher's hands: an
event being marked is in the topic and no longer in the batch.

`CatalogEvents_proofs`, for any finite number of requests and replicas. `ImplementsComponents`
shows that the composition implements both components, so their theorems hold of it and
their invariants may be used in the rest. `Joint` adds how the two tables hang together:
`Coupled` (a row of `outbox_events` has a status exactly if it was committed, and `begun` is
its `created_at`), `Kept` (products are never deleted) and `Known` (publishers hold
committed events). `OvertakingIsExplained` needs
`BatchOrder` besides: an event in a batch has each earlier one of its product in the topic,
failed, beside it, or excused by its `created_at`. `TopicIsRightInTheEnd` then follows from
`NewestEvent`, the event that announced the row as it is. `ContractIsKept` is the refinement
of `AnnouncedStore` from all of it: a transaction's step is a step of the store because the
repository implements one, a publish delivers the announcement of a committed event, a
mark settles one that `SentWasDelivered` has in the topic, and nothing a replica does takes
either back.

`CachedRepository_proofs`, for all sets of products (ordered by their ids), pages, readers
and writers and any bound on the changes: `TypeCorrect`, `StalenessIsExplained` and
`NotFoundIsNeverCached`. The strengthening `OnlyExistingCached` says that neither Redis nor
a reader about to fill it holds anything for a product that does not exist; without it a
creation, which deletes the lists alone, could leave a stale product entry nobody deletes.
The steps fall into those that leave database and cache alone (`QuietStep`), those that
take keys out of Redis (`RemoveStep`), failed calls (`FailStep`) and writes
(`WriteMakesStale` lists what a write makes stale).

`InMemoryRepository_proofs`, for any number of products and any width of the integer. That
the ids made from the length are fresh needs `IdsByPosition` (the product at a position has
the id of that position), and the refinement needs `JournalIsAnswered` (a request that has
announced a change has its reply, so it cannot announce another). The store is the same as
that of PostgreSQL, answers included: `NegativeStock` shows that a sum that is
negative after wrapping did not fit before, so a refusal is true.

`ProductListing_proofs`, for any table, limits, number of creations and pages that others
left in the cache. `TablesOK` says that each creation makes the table one longer and that
every row of a table stands in each later one (`Embeds`), no further to the front; `Ahead`
that every product of the table of the first page has been received or stands behind the
offset in the table of the latest. `WalkMissesNothing` is `Ahead` at a page with nothing
behind it; `RepeatsAreExplained` counts with it: what stands in front of the offset was
received or created meanwhile.

`RequestHandling_proofs`, for any inputs and any store that keeps the promise of
`ProductStore`: `Course` says what each place of the way knows of the request, `Judged`
which route an error can come from and what it says of the store; the properties read it
off at the answer. Its second half is about `AdminService`: `ServiceInv` joins the
repository's `IInv` with `Waited` (a transaction that runs belongs to a request that waits
in the repository and carries its command), `ProceedIsCall` shows that the step that ends a
transaction is the `Call` of `RequestHandling` and that its other steps are invisible to
the layers. `ServiceImplementsLayers` follows, and with it that what holds of the layers
over an atomic store holds of them over interleaved transactions
(`ServiceStatusIsHonest`, `ServiceLabelsAgree`). So the promise of `ProductStore` is
assumed by one half and proved by the other. What stays an argument in words is the cached
repository between the two: that it hands on commands and answers, and that a write may be
one change of a version in `CachedRepository` because the repository implements
`ProductStore`.

`Lifecycle_proofs`, for any number of calls: `Progress` says what has been stopped and
drained at each stage, `Held` what has been opened and not yet closed there, and `Room` that
`errCh` holds at most one error of each server that has sent one, from which
`SendersNeverWait` follows.

## Not modelled

- The migrator calls golang-migrate once and exits; the schema it leaves is the initial
  state of the models.
- Configuration: the values are constants. Of its checks only the consequences matter (a
  TTL `Validate` lets pass and `NewCache` refuses, the shutdown timeout).
- Health, readiness and the log level (`health.go`, `admin.go`, `readinessChecker`): they
  ask, or set one atomic value that only logging reads.
- Logs, durations and spans, which the system does not read back; of the metrics only the
  status label.
- The JSON encodings, which store every field (`description` alone is missing from the
  events), the values of the fields in replies, generated code, and the test client.
