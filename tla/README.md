# Helium multi-tenant: a TLA+ development

Helium takes invoice files from many tenants, stores and de-duplicates them,
parses them in a queue, and tells browsers and services what became of them.
This directory holds TLA+ models of the parts of `src/services` where ordering,
failure and sharing matter, the TLC runs that check them on small instances,
and proofs, checked by TLAPS, for every value of the constants.

    tlasany M.tla                        parse a module
    tlc -workers 2 -config X.cfg MCM     check a run (CoreQueue.cfg with MCCoreQueue, ...)
    tlapm CoreQueueProofs.tla            check the proofs of a module

## 1. Inventory

`PROJECT.json` lists every component with its sources and says which are
modelled. In short:

| component (under `src/services/`) | state | operations | what is hard | what makes it correct |
|---|---|---|---|---|
| Core ingestion queue: `core/src/ingestion/{router,queue_scanner}.py`, `database/schemas/core.sql` | rows of `core_queue` (PostgreSQL) | `POST /enqueue`; the scanner loop of each Core process: select, `process_entry`, stale recovery | check and INSERT on two connections; row locks released before the work; unconditional UPDATEs; crash while PROCESSING; announcement after the commit | one row per blob; each entry tried a bounded number of times; outcome final; announced once; every entry settles |
| Relay ingest: `relay/src/services/ingestion.py`, `db/ledger.py`, `core/dedup.py` | `ingest_ledger` (SQLite file), blobs and duplicate table of HeartBeat, Core's queue | the seven steps of `ingest`, write-first ledger, replay of stored results, prune at every n-th insert and at start | awaits between check and effect; several files per request; crash at any step; answers lost after the work; prune under running requests | one pipeline per key; nothing stored without a trace; success only when everything is stored; a replay is the answer of a completed ingest |
| Core event stream: `core/src/sse/*` | `event_ledger` (BIGSERIAL), ring buffer, in-memory counter, one queue per connection | `publish`, stream with replay, catch-up pages, restart | two number generators; commits out of order; ring forgets; pages cut; reconnects | companies kept apart; nothing of the ledger is lost to a client that resumes |
| Core finalize: `core/src/finalize/*` | invoices, line items, customers, inventory, Edge; an idempotency table nothing reads | fetch preview, validate edits, number, commit in one transaction, submit to Edge | repeats, under another service or direction; a preview that changes in between; commit, then submit; an error handler that raises | source data survives; one record per invoice and IRN; what is answered is so |
| Core orchestrator: `core/src/orchestrator/*` | the row's status, the state of a run, previews in HeartBeat | claim, seven phases, soft timeout with background continuation, two repair jobs, immediate finalization | a claim that raises; timeout against completion; status writes without condition; places counted in rows and in invoices | who is promised a preview has one; a claimed row gets one; a wrong invoice is on the failed sheet |
| Core processing: `core/src/processing/*` | circuit breakers, what was read of the tables | transform, enrich, resolve | concurrent callers of a breaker; tables that change between two reads; two spellings of one name | each invoice comes out complete or flagged; a customer is matched for what it is |
| Core data and entity API: `core/src/api`, `data`, `jobs/cleanup_deleted.py` | entity rows, edit history | update, delete, recover, purge | read, then compare, then lock; delete against recover and purge | no value is lost to the history; the recovery window holds |
| Core reports and observability: `core/src/reports`, `observability` | report rows, files, notifications and read marks, the cache of statistics | report task, download, clean-up, mark as read, figures of a section | four effects of a task nobody waits for; several SELECTs behind one answer; double marks | what was announced stays true; figures were true not long ago |
| Ledger upkeep: `core/src/sse/event_ledger.py` | watermark cache, ledger rows | watermark, prune in batches | fill, invalidation and prune overlap | a watermark is behind by its TTL at most; no early prune |
| Relay finalize: `relay/src/services/finalize.py` | keys recorded in memory | look up, trigger Core, record | calls for one document that overlap or repeat; restart | a repeat stops at the relay |
| Relay batch and AMQP ingest: `batch_external.py`, `amqp_consumer.py` | seen set of a batch, broker | ingest per record, acknowledge at the end | redelivery, overlap, repeats inside a batch, an exception half-way | one content of a tenant, one blob, unless its finished row was pruned; a verdict per record |
| Relay clients: `relay/src/clients/*` | none between calls | retry loop, each operation's reading of each reply | a write that timed out is repeated | doubt only where an answer was missing |
| Relay rate limit: `redis_client.py` | the daily counter in Redis | count, set expiry, compare, fall back to HeartBeat | several processes, two round trips, errors that let pass | Redis lets pass what is within the limit |
| Relay caches: tokens, keys, modules, configuration | cached answers and their age | read-through fills, refresh by loop, webhook, endpoint | fills that overlap or fail half-way | caches keep up in bounded time; one release at a time |
| Relay HTTP surface: `relay/src/api`, `core/auth.py` | none of its own | authentication, drift guard, body checks, the answers of the routes | services that go down between two steps | lookups answer whatever is down |
| entity listener, API encodings, crypto, parsers, simulators, mocks | none of their own | | notifications lost while reconnecting | |

How they interact: Relay's `ingest` is called by the HTTP routes, the batch
service and the AMQP consumer. It calls HeartBeat (another repository) to check
for duplicates, write blobs, register them and write audit rows, and hands the
upload to Core. Core's scanner takes queue rows, downloads the blob from
HeartBeat, and publishes on the event stream, as do the entity API, the reports
and the notification service. Clients follow the stream and catch up from the
ledger. At this commit the Core client of Relay is a stub
(`relay/src/clients/core.py:83`): the model keeps the outcomes that the code
around the call tells apart.

The hazards of the code, each with its line and the properties that watch it,
are in `PROJECT.json` under "hazards".

## 2. Modules

| module | models | composed with |
|---|---|---|
| `CoreQueue` | the queue table, the enqueue handler, the scanners | |
| `QueueLifecycle` | what the queue promises, without scanners, clock or crash | `CoreQueue!Lifecycle` is an INSTANCE of it |
| `CoreQueueProofs` | theorems about `CoreQueue` | |
| `RelayIngest` | the ingestion pipeline, the ledger, the two services it calls | |
| `RelayIngestProofs` | theorems about `RelayIngest` | |
| `EventStream` | publish, ring, ledger, stream, catch-up, clients | |
| `EventStreamProofs` | theorems about `EventStream` | |
| `LedgerUpkeep` | watermark and prune of the ledger, beside the stream | |
| `RelayFinalize` | finalization by reference at the relay | uses `Retry` |
| `Retry` | what one attempt of `call_with_retries` leads to | |
| `HeartBeatCalls` | one call of each HeartBeat operation, with its retries | uses `Retry` |
| `RelayBatch` | batches and messages over an abstract ingest | ingest itself is `RelayIngest` |
| `RelayQuota` | the daily limit | |
| `TokenCache`, `KeyCache`, `RelayCaches` | introspection, key sets, modules and configuration | |
| `RelayRequest` | authentication, guard and answer of each route | |
| `Finalize`, `FinalizeProofs` | finalization of a batch in Core, with Edge | uses `EditRules` |
| `EditRules` | the edit validator and the tables of `provenance.py`, as operators | |
| `Orchestrator`, `OrchestratorProofs` | the preview pipeline and its jobs | uses `Branching` |
| `Branching` | from rows to invoices, flags and sheets, as operators | |
| `Resolving` | customers and products against tables that change | two instances |
| `Enrichment` | enrichment of a file behind circuit breakers | |
| `Entities`, `EntitiesProofs` | one entity: edits, deletion, recovery, purge, history | |
| `Statistics` | figures and their cache | |
| `Reports` | report tasks, downloads, notifications | |
| `MCCoreQueue`, `MCRelayIngest`, `MCEventStream`, `MCEntities`, `MCResolving` | the instances TLC checks of one module | |
| `MCFinalize` | the batch, its previews and submissions, for `MCCoreServices` | |
| `RelayServices` | the parts of the relay around its pipeline, side by side | INSTANCE of each |
| `RelayServicesProofs` | theorems about every part of `RelayServices` | |
| `CoreServices` | the parts of Core around its queue, side by side | INSTANCE of each |
| `CoreServicesProofs` | theorems about `CoreServices`: what is proved of `Finalize`, `Orchestrator` and `Entities`, and the proofs about `Statistics`, `Reports`, `LedgerUpkeep`, `Enrichment`, `Resolving` | EXTENDS the proofs of the first, INSTANCE of those of the next two |
| `MCRelayServices`, `MCCoreServices` | the values for TLC of these two | |

Modules that share no state are not composed. What one leaves for another (a
preview, a table, a blob, a queue row) is an input of that other one, which
takes every value the first may leave. So in `RelayServices` and
`CoreServices` a behaviour picks a component, its `focus`, and runs that one:
their interleavings would add states and nothing else. Both are written for any
values of the constants; theirs are the specifications that TLC checks and that
the theorems are about. Composed are those that
do share state: `Finalize` with Edge and the tables, `RelayBatch` with ledger
and HeartBeat, `Reports` with clean-up, downloads and marks, `Orchestrator`
with its jobs.

Each module also has a few operators marked "Seeded fault": one plausible bug
each, referred to by nothing else in the module. Put in the place of the
operator they name they make a property fail, which shows that the property
looks at the code.

### CoreQueue

A row is named by its `blob_uuid`. `status`, `retries` (`retry_count`),
`created` (rank of `created_at`) and `stale` (is `processing_started_at` older
than the threshold?) are the row; `pc`, `todo`, `cur` are a scanner's place in
`_loop`, the rest of its batch and the row `process_entry` has in hand; `call`,
`asked` are the enqueue requests. `runs` and `published` are history.

* One SQL statement, or the statements of one connection context, is one step,
  because `get_connection` commits when its context exits. The exception is the
  SELECT ... FOR UPDATE of `_tick`: its transaction stays open from `TickSelect`
  to `TickRelease`, and other statements on these rows wait (`Locked`).
* `ClaimEntry` is the UPDATE ... AND status = 'PENDING'. Its row count is not
  looked at (`router.py:221-228`), so the handler goes on whatever the status.
* `CompleteEntry` and `FailEntry` are unconditional UPDATEs. Each statement may
  raise: `ClaimRaises`, `WorkRaises` (also download, detection, parsing),
  `FailRaises` (logged, the row stays). `publish` of `queue.entry_processed`
  cannot raise: the event carries no company, so `publish` touches no database.
* `RecoverStale` is both statements of `_recover_stale`, one transaction.
  `Crash` is the death of the process or `stop()`: `CancelledError` is not an
  `Exception`, so no handler of `process_entry` sees it.
* `created` is the rank of insertion. The code takes `created_at` from the clock
  of the handler shortly before the INSERT; nothing checked here depends on the
  difference, which moves a row within its priority only.
* A statement that raises is taken not to have been applied. A commit whose
  answer is lost is not modelled here: the row would be as after the step, and the
  handler go on as after a failure. (`EventStream`, `Finalize` and `Reports`, where
  it matters to what is announced, have it.)
* `IntervalBinds` says whether the driver binds a parameter inside a quoted
  literal. The code needs it (`INTERVAL '%s seconds'`); psycopg 3, which
  `requirements.txt` asks for, does not do it. TRUE is the queue as written,
  FALSE the queue as that driver runs it (section 4).

### RelayIngest

A request is `at` a step of `ingest`, with its `tenant`, its `files` (contents
named by their SHA-256; files with one hash are one content) and how many of
them it is `done` with in the current step. The ledger is one row per
`<<tenant, sha of the first file>>`, as `ingestion.py:215` has it: `result`,
`owner` (the request whose `data_uuid` it was inserted with), `payload` (the
request whose result is in `result_json`), `rank` (order of `received_at` and
`rowid`), `old` (past the retention window), `sincePrune`. `blobs`, `known`,
`queued` are what HeartBeat and Core hold.

* A step ends where the handler awaits a service; ledger calls are synchronous.
  So `LedgerNew` is the INSERT, the write counter, and the prune when it is due,
  which may fail and is then only logged.
* `Victims` is the DELETE of `prune`: processed rows past the window, and the
  oldest processed rows by which the whole table exceeds `MaxRows`. The code
  never writes 'duplicate' into `result`, so the other value of its filter does
  not occur.
* `WriteFails` is the end of the retries, or a rejected token: the blob may be
  there all the same, and `mark_error` may itself fail. `RegisterBlob`,
  `EnqueueCore` are best effort: they take effect or do not, and go on.
* The session cache of `DedupChecker` is filled after the blobs are written
  (`ingestion.py:306`), when its request checks no more; it is empty at every
  check and has no variable.
* `LedgerRaises` is a ledger statement that raises and takes the handler along.
* `CrashRestart` ends all requests in flight; ledger and services stay.
* The ledger is taken to be enabled (`RELAY_DB_PATH` set) and Relay to run as
  one process, which is what its in-memory gate and lock presume.

### EventStream

`pub` is how far the publication of an event is. `PublishUnscoped` is an event
without company: counter, ring, queues in one step. With a company it is
`LedgerInsert` (BIGSERIAL draws `seq`), `LedgerCommit` (the row is visible) and
`Announce` (back on the event loop), or `LedgerFails`, after which the event is
sent with a number of the counter; the write may have raised before the INSERT,
after it, or after a commit whose answer was lost, and then the event has a row
under another number as well. `Dispatch` is the tail of `publish`: id,
ring, queues of matching connections. `Connect` is subscribe and replay,
`CatchUp` one page of `/api/sse/catchup`, `Receive` one event of the stream,
`Restart` a new process with `sync_sequence_from_ledger`.

* `turn` is an event's place in the order of dispatch. The queue of a connection
  is the set of the events in it, read in that order, which is the order they
  were put in.
* The client is not part of the repository. Assumed: it opens the stream with
  the last id it has seen, catches up until there is no more, then reads the
  stream and remembers the id of each event, as `Last-Event-ID` works.
* Queues of connections have no bound, as in the code (`models.py:39`); the
  eviction of slow clients therefore cannot happen and is left out.
* Watermark and prune are in `LedgerUpkeep`. Left out: pattern and `data_uuid`
  filters, keep-alives, expiry of the token (`Disconnect` stands for it).

### The relay around its pipeline

* `Retry!After` gives the verdict of `BaseClient.call_with_retries` on one
  attempt: return, raise, or again. Only a 5xx becomes a TransientError; a
  refused connection is permanent in that code; silence is retried. In
  `RelayFinalize` an attempt of `Trigger` is one step: the client is answered,
  and the key recorded (`Anchors`), when the loop has ended, whether Core
  answered or not. `earlier` notes which calls were answered before, for the
  properties. `Restart` empties `anchors`, which live in the process.
* `HeartBeatCalls` has one call at a time, and per operation the replies it may
  get (`Possible`), what each is taken for (`Outcome`) and what the caller gets
  in the end (`Result`). `carriedOut` counts what HeartBeat did: any number is
  possible when an answer is missing or broken.
* `TokenCache`, `KeyCache`, `RelayCaches`: a fill is asked, read at the source,
  and landed in three steps, so fills overlap; landing touches the cache without
  an await and is one step. `Flight` bounds the time an answer takes, as the
  clients' timeouts do. `RelayCaches` tells modules apart by their checksum, where
  they have one, and keys by their csid, as the refresh does: what is new under an
  old csid is not taken up.
* Of the errors of a client, only those it catches become "unavailable"
  (`introspect.py:365` names three); any other ends the request with a 500. Both
  are in `TokenCache!Fails`, which leaves the cache as it is, and in
  `RelayRequest!ByHeartBeat`.
* `RelayQuota`: `Increment` is INCRBY and TTL in one round trip, `Expire` the
  second one. `RedisFails` at either marks the relay's client unavailable for
  good; the upload passes. A later one goes to `AskHeartBeat`.
* `RelayBatch` reduces ingest to duplicate check, claim of the ledger row of the
  tenant and the file (a record is one file), blob, registration and
  `mark_processed`. A claim that inserts may prune any finished rows, and so does
  the start after a crash (`Prune`; `pruned` counts for the property).  What can go
  wrong before the claim is `IngestRefuses`, afterwards `StoreFails` and
  `SettleFails`. `Crash` loses requests and starts messages again from
  their first record. The consumer has no prefetch limit, so batches overlap.
* `RelayRequest` follows one request with its credential through
  `Authenticate`, `Guard`, `ReadBody` and its route, while services go down and
  come back (`Outage`, `Repair`) between the steps. `failed` notes which service
  a step found down.

### Core around its queue

* `Finalize`: an IRN is made of the invoice number, the `service_id` of the
  request and the issue date (`Parts`). `Commit` is the transaction of
  `RecordCreator.commit_batch` (ON CONFLICT DO NOTHING, UNIQUE irn, customers by the
  direction of the row, counters by product), after which the call is at "edge";
  `CommitUnheard` is a commit whose answer is lost. `EdgeAccepts` sends what the
  request has, not what the table has; `NoEdge` is a pipeline made without a
  client. `QrRaises` and `EdgeFails` are the warnings that raise (section 4).
  `Reprocess` replaces the preview at any time. A row is a record of one field per
  class of the provenance tables (`EditRules`): fields that the tables treat alike
  are one. At this commit `app.py` does not mount the router, and the statements of
  `RecordCreator` have `$1` placeholders, which the driver does not take, and an
  ON CONFLICT (tin, company_id) no index stands behind: as it is, every commit would be
  `CommitFails`. The model has the statements as they are meant.
* `Orchestrator`: one upload, several requests to process it. `Claim` is the
  conditional UPDATE, `ClaimRaises` the error that is only logged. A phase is a
  step; `Slow` lets the soft timeout pass, `TimesOut` answers 202 and starts
  again in the background with the old start time. Status writes are
  unconditional and may fail (`Written`). `FailStale` and `Expire` are the jobs.
  `TellHeartBeat` is `update_blob_status`. A bundle is "generated" when it is
  uploaded; what it contains is `Branching!Branch`.
* `Branching` has a flag per severity and place. Parse flags lose their row
  (`Unplaced`), default flags count rows while sheets count invoices, and the model
  takes the places as the code counts them. The default flag for a missing
  invoice number (`transformer.py:270-278`) is left out: `_map_row_to_invoice`
  makes up a number where the row has none.
* `Resolving`: `LoadCustomers` and `LoadVariants` are two statements, between
  which `Rename`, `Delete`, `Recover` happen. A name is a core and a suffix;
  `ResolverForm` and `EntityForm` are the two normalizations. The ratio of two
  cores is a constant, `Alike`, and letters of different case always differ. The
  loop that keeps a best score and a best match is said in closed form
  (`Better`, `Owned`, `ByName`).
* `Enrichment`: `Start` is the semaphore; each call asks its breaker (`Ask`),
  then `Reply`, `ReplyError` or `ReplyRaises`. `Seen` is `state`, which moves an
  open breaker to half-open when looked at. The stub client never fails; the
  failures are those of a client that keeps the protocol.
* `Entities`: `Read`, then `LockForUpdate` (history entries and the UPDATE),
  then `CommitUpdate` or `Abort`, under READ COMMITTED: the record may have
  changed since `Read`. `Delete` and `LockForRecovery` likewise; `Purge` is the
  job; time counts hours, on one clock for the process and the database. A row that
  is locked makes others wait.
* `Statistics`: `Begin` resolves the period or the dates given and looks in the
  cache under section, period, dates and company, `Select` is one SELECT, `Store`
  fills the cache. `past` has all the states the data had, so that a figure can
  be compared with what was true. Days turn for `date.today()` of the process and
  CURRENT_DATE of the database at once; what is overdue is compared with the day of
  the SELECT.
* `Reports`: the steps of the task nobody waits for, its rescue, downloads,
  clean-up, `LookForMark` and `MakeMark` of `mark_read`, and `Crash`. The UPDATE to
  "ready" may raise after its commit (`Ready`).
* `LedgerUpkeep`: `Insert`, `Commit`, `Invalidate` of a write; `Poll`,
  `ReadBounds`, `Store` of a watermark; `BeginPrune`, `DeleteBatch`.

## 3. Runs

| run | instance | shows |
|---|---|---|
| `core_queue` | 1 scanner, 2 blobs of different priority, 3 requests, `MaxAttempts` 2, batches of 2, 1 crash | with one Core process the queue implements `QueueLifecycle`; attempts are bounded; outcomes are final and announced at most once; three racing requests create a row once |
| `core_queue_two` | 2 scanners, 1 blob, 2 requests, `MaxAttempts` 1, 1 crash, `FairSpec` | with two processes the batches are disjoint only while locked, each process may use up the attempts, and an entry still settles for good |
| `core_queue_contention` | 2 scanners, 1 blob | violation: both have the row in hand |
| `core_queue_stuck` | 1 scanner, 1 crash, `IntervalBinds` FALSE | violation: a stuck row is never recovered |
| `relay_ingest` | 3 requests, 2 tenants, uploads `<<f1>>` and `<<f1, f2>>`, a cap of 1 row, prune at every 2nd insert, 1 restart | who holds a row, the trace of what is stored, commit point, replay, life of a row, prune |
| `relay_ingest_twice` | 2 requests of 1 tenant, uploads `<<f1>>` and `<<f2, f1>>` | violation: a file is stored twice |
| `event_stream` | 2 companies, 4 events (one without company), 1 client, ring of 2, pages of 1, 2 connections, 1 restart | companies apart, counter covers the ledger, which ids can be shared, nothing lost while ids come in order |
| `event_stream_lost` | 3 events, no restart | violation: a client misses a row for good |
| `relay_services` | the eight components of `RelayServices`: 3 finalize calls with 2 attempts and a restart; 10 operations of HeartBeat; 2 requests on each cache, a cache of 1 token, times to live of 1 or 2 ticks and a clock that outlasts them; 3 uploads by 2 relays against a limit of 3 over 2 days; 3 releases of which one is broken; 2 tenants with 2 batches of up to 3 records, a ledger that is pruned and a crash; requests of each route and credential with 4 services that go down | repeats stop at the relay and are told which call they repeat; doubt only after silence; caches keep up in bounded time and are of one release; the quota is not overdrawn; a second blob of a content only after a prune; answers of batches and lookups stand |
| `core_services` | the nine components of `CoreServices`: 2 finalize calls on 2 previews, with 2 services and directions, with and without Edge; 2 preview requests on 3 files, 3 writers on one entity, 2 customers and 2 products with a variant each, a file of 2 and one of 3 invoices on 2 slots, 2 readers of statistics over two days, 2 reports with a download and marks, 2 ledger writes and 2 polls; a crash where a process can die | source data survives; what clients and Edge are told is so; previews are backed; no value is lost to the history and the recovery window holds; matches are on merit and near names are found; enrichment loses nothing silently; figures were true, announcements stay true, watermarks cover the ledger |
| `entities_trail` | 2 writers, 2 fields | violation: an overlapping edit puts a value back and leaves no trace |
| `resolving_names` | 2 customers, 3 names | violation: a customer is not found by its own name |

Bounds, and why they are enough. Three requests are the fewest with which a
check, an insert by another and a late insert by a third interleave
(`core_queue`), or a row is inserted, replayed or refused, and evicted by an
insert of the other tenant (`relay_ingest`). `MaxAttempts` 2 gives a first
attempt, a recovery, and the recovery that gives up. A cap of one row with a
prune at every second insert makes evictions happen with pending, error and
processed rows beside each other. A ring of two events out of four forgets;
pages of one row make each catch-up take several pages; a second connection
takes up where the first broke off, and its end shows what the two have missed.
`MaxCrashes`, `MaxConnects` and `MaxRestarts` only bound how often the
environment acts. In `relay_ingest` requests and tenants are symmetric, in
`event_stream` the two events of the client's company; the liveness run has no
symmetry.

In `relay_services` (1.2 million states) two requests are the fewest whose fills
of a cache cross; a token cache of one entry evicts; three finalize calls give
two that overlap and a third that repeats; two records with one id, or one
content, in overlapping batches, and a redelivery, are what could store twice;
three uploads of size 1 or 2 against a limit of 3 can overdraw it in all orders.
`Flight` 1 with TTL 1 and 2 lets an answer be read before and land after the
event it should have told of; the clocks of the caches run until after the
latest time an entry made before the event may last, so that the bounds of
`CachesKeepUp` can be exceeded, and its mutant, a key set that does not age,
exceeds one. Two contents of two tenants, repeated, meet rows that were pruned.
In `core_services` (1.4 million) a submission is a preview as it was shown, or
differs from one in a field that only a direction allows, one the source gave, a
doubtful and an enriched one, a quantity, or the number of its rows, and what
was sent for one preview may be compared with the other, where an id and a total
differ; what the rules say of the other fields is left to the theorem; the three
files take each way through the pipeline; with a window of 1, `MaxHour` 2 is the
first hour at which a record may be purged and a recovery comes too late;
`MaxUpkeep` 1 lets an entry of TTL 1 expire and, with a retention of 0, a row of
the hour before be pruned. `Statistics` has one invoice, which is what one
figure can be wrong about, that may change its company, its day and its status,
and two questions, of today and of given dates, which are the same on the first
day but of different companies; `AtFirst` bounds what the tables hold at the
start, and `MaxReading` 4 lets an entry of TTL 1 be kept a unit too long, which
the mutant shows. `Requests`, whose slots are alike in each component, are
symmetric, and in `relay_services` tenants, user tokens and relays.

Deadlock: `core_queue*` runs check it, since scanners never stop. In
all others the system really comes to rest, when all requests are answered, all
events published and time is at its bound, so the check is off there.

The mutants in `PROJECT.json` name, for every property, a seeded fault that
breaks it.

### Fairness

Only `core_queue_two` and `core_queue_stuck` need it. `FairSpec` assumes weak
fairness of each scanner's own steps (the event loop schedules its task and its
sleeps end; a container that died is restarted by `restart: unless-stopped`),
weak fairness of `Age` (time passes) and strong fairness of `ClaimEntry` and of
`RecoverStale`: the database does not refuse the same statement every single
time it is tried. Nothing is assumed of requests, crashes, the success of the
work, or the UPDATE that records a failure.

## 4. What was found

* **Contention** (`core_queue_contention`). `_tick` says that SKIP LOCKED keeps
  scanner instances off each other's rows. The locks end with the SELECT's
  connection context, before the first row is processed. With more than one
  Core process an entry can be processed by each of them, PROCESSED can turn to
  FAILED and back, and the event can be published more than once. With one
  process none of this happens: that is the theorem list below.
* **Recovery that never runs** (`core_queue_stuck`). See `IntervalBinds` above:
  the recovery UPDATE raises on psycopg 3 each time, and `_loop` logs it.
* **The same file twice** (`relay_ingest_twice`). The contract's "only one blob
  is stored" does not hold for uploads that overlap when the shared file is not
  first in both.
* **A lost event** (`event_stream_lost`). The sequence is not gap-free, nor
  visible in order, and shares the cursor with a counter of the process.

* **An edit without a trace** (`entities_trail`). The schema promises a full trail
  with before and after of each change. An edit whose field was changed by
  another since it was read writes back what it was shown, and no row tells of it.
  What does hold, `EditsLeaveTraces`, is that no value is lost: each is named in
  some row of its field.
* **A customer unknown by its own name** (`resolving_names`). The entity API
  stores normalized names in lower case, the resolver compares in upper case.

Met on the way, modelled as the code has it, without a run of its own:

* Relay: an error row of the ledger refuses that file for ever. A record of a
  batch may be answered "duplicate" though nothing came of the one before. A
  release that breaks off leaves modules of two versions until the next refresh
  that lands whole. Redis is not asked again after one error.
* Event stream: most events are published without a company, so they go to all
  clients and cannot be caught up. The fill of the watermark that overlaps a
  write undoes its invalidation: the answer is behind by up to the TTL. Events
  of an entity are published before the transaction commits.
* Finalize: a comment says that an Edge failure is non-fatal
  (`pipeline.py:318-319`). The handler passes keywords to a logger of the standard
  library, which raises TypeError (305-321) after the commit, so the request ends
  with an error while its invoices are in the tables. A repeat under another
  `service_id` finds its invoices in the tables, leaves them, and sends Edge the
  new IRNs, which no record has; it is answered with them, too.
  `EdgeOnlyCommitted` therefore speaks of the IRN only where the service is one.
  A commit whose answer is lost is answered 422 although everything is stored.
* Relay finalize: the header of the service says that a repeat returns the cached
  202 (`services/finalize.py:18-20`); the code answers 409 and names the first
  call.
* Orchestrator: the background continuation keeps the start time of the request
  that was late, so it is late at once and ends FAILED. 'SKIPPED' is not allowed
  by the table's CHECK. The parser sets no `invoices`, so the limit on them is
  void. A `.hlm` upload has an empty preview. The stale detector fails a row
  whose pipeline still runs. Flags of parsing lose their row, default ones count
  rows where the sheets count invoices.
* Processing: a variant whose customer was not read lends its score to the best
  customer before it, or hides a weaker variant of another. A
  half-open breaker lets any number of calls through. An exception passes an
  invoice on without its items, flagged.
* Entities: of two edits that overlap, the history of the later is against the
  value it had read. `repo.recover` does not look whether the row is deleted.
* Reports: the announcement says "available for download" (`service.py:205`),
  but a download reads `blob_response.data` (`router.py:142`), which there is
  not, and ends in an error whatever the row says. When the UPDATE to "ready" is
  committed and its answer lost, and the rescue fails too, `report.failed` is
  published of a row that is ready. Where the dates are given, an overdue count
  made before midnight may be answered from the cache after it. A report whose
  process dies stays "generating". 'expired' is never set. Two marks of one
  notification may both be inserted. Clean-up of notifications is never
  scheduled. The SELECTs of a section need not agree with each other, and some
  name columns that no schema has.

## 5. Proofs

`CoreQueueProofs`. `TypeCorrect` and `EnqueueCorrect` hold for any number of
scanners and callers: a request can be answered 201 only by the step that
inserts the row, and rows never disappear. All others assume `OneScanner`
(there is at most one Core process), without which they are false. The argument
is the inductive invariant `OneScannerInv`: in "working" the row is PROCESSING,
in "publish" it is PROCESSED and not announced, in "failing" it is unsettled,
the rest of the batch is PENDING (`HandOK`); and the attempts of a PENDING row
equal its retries, those of a PROCESSING row are one more (`AccountOK`). The
first is what makes the unconditional UPDATEs harmless, the second what bounds
the attempts through crashes and failing statements. Finality and the
refinement (`ImplementsLifecycle`) follow step by step; recovery of several
rows at once is why `QueueLifecycle!Recover` takes two sets.

`RelayIngestProofs`. The inductive invariant is `IngestInv` with `TypeOK`.
`HoldsItsRow` needs that only processed rows are pruned and that no stored
result belongs to a pending row (`StoredResults`); `CommitPoint` needs how far
each request is with its files (`FilesLeft`, `Progress`); `TraceSurvives` needs
that a row with an owner in the pipeline cannot be taken over, and has the
corollary `FirstFileStoredOnce`: only where a finished row has been pruned can a
first file be stored by a second request, which bounds the finding of
`relay_ingest_twice` (there the shared file is not the first of both).
`ReplaySound` needs that stored results come from completed requests.
`RowLifecycle` is an action property under the same invariant, and so is
`PruneKeepsNewest`, which counts: the rows older than the oldest row that stays
are all among the victims, and they are at least as many as the table is too
large by (`VictimsEnough`).

`LocksKeepApart` and `AttemptsBoundedPerScanner` are about any number of
scanners. Two that have selected under their locks have no entry in common,
because each skips what the other holds; and each scanner by itself keeps the
account of its own attempts, whatever the others do to the row.

`EventStreamProofs`, for any events, companies, clients and restarts. `Numbered`:
the ledger gives a number to one event, at most `drawn`, and only a publication
under way or over has a row. `LedgerIds`: an id of source "ledger" is the number
of the row. With `RingBelowCounter`, that the counter is at or above every id in
the ring, `SharedIdsAreLedgerLate` and `CounterCovers` follow.
`NothingLostWhenOrderly` is the long one: while ids come one at a time and from
the ledger, the order of dispatch is that of the numbers (`InLedgerOrder`,
`TurnsCounted`), so a client has everything visible up to its cursor, and what it
lacks beyond is queued, still to be sent, or to be caught up (`ClientsKeepUp`).

`RelayServicesProofs` has one part for each property of the relay's services.

* `Recording`: as long as the process lives, the key of every answered call is
  recorded and every record is that of an answered call of the key; a call past
  the lookup had no answered call of its key before it. `RepeatsStopHere` follows.
* `CallInv`: as long as no attempt was unclear, the operation was carried out once
  at most, not at all while the loop still runs, and not when the caller is told
  of a failure. The number of attempts is arbitrary (`ClearIsNeverBlurred`).
* `InHand` and `Claims`: a batch inside ingest has a record with a content, and
  the batch that stores a content claimed the ledger row of its tenant and
  content, which is pending, alone; no prune touches a pending row. So a row has
  one blob more than it has been pruned, or none more while it is claimed and
  before it is stored. A crash gives claims up without releasing them, and a
  failed `mark_processed` leaves its row pending, which is why a second blob
  needs a finished row that was pruned (`OneBlobPerContent`). `Coverage` counts
  the verdicts record by record, and `SurfaceInv` says that only HeartBeat, when
  it must say who calls, fails a lookup; together they are `AnswersHold`.
* `CachesHold` is about ages: an entry that still says a token is active was asked
  for before the token was revoked, an answer under way is no older than
  `Flight`, a key set that was fetched has what was published when it was asked
  for, and nothing else. From these the bounds of the three caches follow for any TTL.
* `QuotaInv`: a day's counter is no less than the number of files of that day
  which Redis let pass, counting those whose TTL is still to be set. It goes up
  by a whole upload before that upload is compared, so what passes fits below the
  limit (`QuotaHolds`); files counted for a refused upload only add to it.
* `ServicesKeepTypes` adds to these invariants what they leave open (`Bounds`): a
  call that may be tried again has an attempt left (`CallTyped`, which holds
  because the loop ends with the last one), a token has one entry in the cache
  and an insertion makes room (`PutsOne`; `RestOf` says what is left of a
  sequence without one of its places), whatever is held of the modules and keys
  was released at some time (`HeldOfARelease`).

`EntitiesProofs`. `Promised`: no promise reaches beyond the window from the last
deletion, and a deleted record's promises end with it; so the purge comes after
all. `Editing`: who holds the row will write editable fields only. `Trail`: what an
editor was shown of a field is what the record has, or an edit came in between
and the history names both; so what a step overwrites or puts back is named
there, and `EditsLeaveTraces` follows. That an entry follows every change
is not true (`entities_trail`).

`OrchestratorProofs`. `Backed`: who is about to promise a preview made one.
`Named`: a preview is what its run made of its flags, and the run does not touch
them any more. `Alone`: unless some run began without a claim, at most one ever
begins. The places on the failed sheet follow from `Named` and the definition of
`Branch`.

`FinalizeProofs`. `Compared`: a call past the check was compared with a preview
that HeartBeat has held, and found legal; that legal rows keep what the source
said is a lemma about `EditRules`. `ToldOfABatch` adds `Genuine` and
`Sound`, that a batch that may be committed has previewed rows under the numbers
and dates they had there, each invoice once, so that their IRNs differ between
calls by the service alone; and `Accounted`: the tables and Edge hold rows
of committed calls only, a committed call has all its invoices in the tables, and
who was told of success has committed and reached Edge, if there is one. That two
calls with the same invoice leave one record is then a matter of what the
transaction's conflict clause does with an id that is there. An IRN that Edge has
of a repeat under another service is in no record: the statement is about Edge
and the tables agreeing on ids, and on IRNs where the service is one.

`CoreServicesProofs` carries the theorems of `OrchestratorProofs` and
`EntitiesProofs` over to `CoreServices`: its steps are steps of the component in
focus (`EachSteps`), and the instance in `CoreServices` and the one the proofs
speak of are the same, action by action (`SamePreviewing`, `SameEditing`).
`ReportsAreTrue` is proved there directly, of three components. `FiguresInv`:
each figure that has been read was true, of the dates and the company its request
asks for and on the day of its SELECT, since the request began; and what is
kept was true within `Flight` of the time it was kept at, under exactly the key
it is kept under (`KeptTrue`). `ReportsInv`: where the task is of a report that
was announced, and that the task of a row that is ready is past the upload, be it
in the rescue (`Stands`), and that a mark answered for is stored. `UpkeepInv`:
an entry, a read and an answer cover the rows that were committed before they
were asked for (`Covered`), and the cut-off of a prune was far enough back when
it began (`Ripe`). `EnrichmentInPlace` is about files of any length: each item
keeps what it was given (`ItemKept`), and where an invoice is says what its last
item still lacks (`Stage`), so that an answer, whenever it comes, is put where it
was asked for. The breakers play no part: an open one is one more reason for an
answer not to come. `MatchesOnMerit` is one argument for customers and products
(`ResolveInv`). The code goes through names and variants with a best score so
far; `Resolving` says in closed form what that comes to: the last entry that is
nearer than all before it is the nearest of all (`LastBetterIsBest`), and as long
as every variant has its customer among those read, the owner of that entry is
the one chosen (`FoundIsNearest`). What was read stays as it is, so a match once
made keeps its merit while the table is written. The premise is needed in both
halves: a variant without its customer can raise the best score and leave nobody
chosen, or somebody chosen before, so that a later and weaker variant of a
customer that is known no longer counts and a new customer is made. What needs no
premise is `NearNamesAreFound`: the names of customers read come before all
variants, so one of them that comes near is chosen before any variant can raise
the score, and raising it only makes the match easier (`FoundNear`). It bounds the
finding of `resolving_names`: only names stored in another form are missed.

`CoreKeepsTypes` adds to these invariants what they leave open, component by
component, and joins them (`FocusTyped`); `FinalizeTypes`, `EntityTypes` and the
`TypeInv` of `OrchestratorProofs` come from the modules of their own. Most of
it is plain; what is not is where a type relates two things. The number a row of
the ledger draws is one more than those drawn before it (`NumbersDrawn`), so no
two are alike, although rows commit in any order. Whoever reads the bounds of
the ledger reads the lowest and the highest number of one set (`LowestFirst`). A
figure replaces the one kept under its key (`FiguresBounds`). The marks of a
report are counted against the calls that are over (`Marking`): two may both find
none and add one each, and that is all they can add. A record is dated exactly
while it is deleted (`Dated`), and who is in the background is late
(`BackgroundIsLate`).

The assumptions are the ASSUMEs of the modules (finite sets, bounds that are
numbers), `OneScanner` where said, and `LegalConstants` of a module: what is
sent has the form its handler accepts, bounds are numbers, and a value that
stands for "none" is no member of the set; of the previews of `Finalize`, that
the ids of one preview are distinct, that an invoice keeps its number and date
from one preview to the next, that "" and "absent" are no ids, and that no IRN
is made without number and date; of the durations, thresholds and bounds on
time, writes and crashes, that they are numbers. `RelayServices` and
`CoreServices` assume it of their instances (`RelayConstants`, `CoreConstants`),
so that TLC evaluates it.

Model-checked only: `Settles` and `ProcessedIsAnnounced`: liveness under fairness
is out of the prover's reach. Every other property of a passing run is stated by
a theorem. `IngestHolds` states the inductive invariant of `RelayIngest`, which no
run lists: it is the conjunction of what the run checks with bookkeeping.

## 6. Not modelled, and the plan

Not modelled, with reasons:

* parsing, amounts, company scripts, rendering, envelopes, QR and signatures:
  pure functions of their input, without state or order;
* the entity listener: a source of events that keeps nothing and loses what is
  notified while it reconnects; it would be another publisher of `EventStream`;
* `WorkerManager`: the pipeline submits no task to it at this commit;
* the idempotency table: nothing reads or writes it; its absence is in
  `Finalize`, where a repeated request runs everything again;
* HIS feedback, audit rows, metrics: single calls whose errors are swallowed;
* lists, searches and reads of the APIs, which change nothing;
* the connection of the AMQP consumer and its reconnects: `RelayBatch` has what
  they do to a message, a redelivery;
* start-up and wiring, configuration, simulators and mocks.

What could follow, in this order:

1. Liveness of `Orchestrator` (a claimed row settles while the stale detector
   runs) and of `Reports`, under the fairness of their jobs.
2. The entity listener as a lossy source of `EventStream`.
