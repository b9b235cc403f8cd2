# Verification of QuantumLeap (ngsi-timeseries-api)

QuantumLeap receives NGSI notifications over HTTP, stores the entities in them
as time series in CrateDB or Timescale, and answers queries on them. This
directory holds TLA+ models of the parts of it where concurrency, failures and
long sequences of calls make the code hard to test, TLC configurations that
check them on small instances, and TLAPS proofs of the most important results
for every instance. Paths below are relative to the application's source
directory, `src/src/`.

## Inventory

| Component | State it keeps | Operations | What makes it hard | What makes it correct |
|---|---|---|---|---|
| SQL translators, schema side (`translators/sql_translator.py`, `crate.py`, `timescale.py`) | data tables, the metadata table, the Redis query cache | `insert`, `drop_table`, `delete_entities` | several workers, no transactions, DDL that fails or is swallowed, three copies of the schema | a recorded column exists or is being created; an insert finds its columns; stored data stays visible |
| SQL translators, insert pipeline (`translators/`, `reporter/reporter.py`) | entities of a notification grouped by service path and type, rows split into statements | `notify`, `insert`, raw fallback | partial failure and retries; column types fixed by others; conversions | nothing reported as stored is missing; copies bounded by runs; a value that fits is kept |
| Batch splitter (`utils/itersplit.py`) | an iterator shared by nested generators | `iter_batches`, `list_batches` | put-back, items above the goal, termination | batches join up to the stream and are as few as the goal allows |
| SQL translators, query side | none of its own; the list of table names in the cache | `query*`, `delete_*`, `_format_response` | a request is several statements while others insert, delete and drop; paging, grouping | rows that were there are shown; pages meet; a deletion is complete |
| Work queue (`wq/core/task.py`, `mgmt.py`, `rqutils.py`, `wq/ql/notify.py`) | RQ job hashes and registries in Redis | enqueue, run, retry, stop, delete, count, list | exc_handler is several Redis transactions after RQ's own; crashes | runs bounded by retries; every task settles; outcomes final |
| Worker processes (`wq/core/rts.py`, `server/gconfig_telemetry.py`) | timers, telemetry buckets, the shared connection | serve, sample, exit | threads, a daemon thread, an exit at any moment | durations are their request's own; little is lost on exit |
| Telemetry (`server/telemetry/`) | a buffer shared by threads, CSV files | `put`, `empty`, flush, sample | lock released before the file is written; a reader of the directory | nothing lost, no partial file, buffer capped |
| Query cache and connections (`cache/`, `utils/connection_manager.py`) | Redis hashes with one expiry each; one connection per database, shared by threads | get, put, delete; set, get, reset | stale entries put back after they were forgotten, reconnection in an error handler | a stale list is gone in the end; a failed connection is not handed out |
| Reporter (`reporter/`) | none | validate, notify, query, delete | filtering before pairing with paths; grouping of results over types and entities | rows under their entity's path; results under their type |
| Geocoding (`geocoding/`) | the cache of locations, in Redis | look up, normalise; parse a geographical query | an external provider, values read lazily, a key shared by different addresses | a location is kept; malformed queries are refused |
| Time index, health, SQL AST, configuration, server set-up | none or external | | | |

A notification goes from the reporter to an insert task, which is run at once or
put on the work queue; the task calls the translator's `insert`; the translator
reads and updates the metadata through the cache, changes the table and inserts
the rows in batches. Errors go back through `translators/errors.py`, which
tells the task whether to be retried or to raise `StopTask`. A query goes from a
handler of the reporter to the translator, which lists tables, queries each and
formats its rows with its metadata. The telemetry runs beside all that, called
by the web server's hooks and the workers.

## Modules

| Module | What it models |
|---|---|
| `SchemaSync` | one entity type's data table, metadata row and cached row under concurrent workers |
| `SchemaSyncProofs` | type correctness and the safety of `SchemaSync`, proved |
| `MCSchemaSync` | model values and symmetry |
| `WorkQueue` | tasks on the RQ work queue, from the notify request to the registries |
| `TaskCount` | counting the tasks, one registry after another, while `WorkQueue` goes on |
| `TaskLifecycle` | what `mgmt.py` promises of a task's status, the abstract specification `WorkQueue` refines |
| `WorkQueueProofs` | its inductive invariant, bounded runs, what becomes of a task, how far a count is off and the refinement of `TaskLifecycle`, proved |
| `MCWorkQueue`, `MCTaskCount` | model values and symmetry |
| `ObservationBucket` | the telemetry bucket, its lock, its files and the reader of the files |
| `ObservationBucketProofs` | type correctness, confinement, no loss, whole files and the memory cap, proved |
| `MCObservationBucket` | model values and symmetry |
| `CostSplitter` | `IterCostSplitter` |
| `CostSplitterProofs` | that its batches join up to the stream and are as few as possible, proved |
| `SequenceFacts` | sequences flattened, reversed and searched, and the induction these rest on: lemmas of the two proof modules about data |
| `InsertDelivery` | a notification from the notify endpoint through its task and its retries to the rows it leaves |
| `ValueMapping`, `Geocoding` | conversions of attribute values, finding and normalising a location: operators `InsertDelivery` uses |
| `Delivery` | what a notification is promised, the abstract specification `InsertDelivery` refines |
| `InsertDeliveryProofs` | type correctness, the five safety properties and the refinement of `Delivery`, proved |
| `MCInsertDelivery` | notifications and deployments |
| `QueryApi` | requests that query, delete and drop, statement by statement, against a database that changes |
| `QueryTranslator`, `GeoQuery` | clauses, limits, orders, formatting and grouping; geographical queries: operators `QueryApi` uses |
| `QueryApiProofs` | all five invariants of `QueryApi`: type correctness, no row missed, pages that meet, grouping, complete deletions, proved |
| `MCQueryApi` | rows, requests and deployments |
| `WorkerProcess` | a web or RQ worker with telemetry: its threads, connection, timers, sampler and exit |
| `WorkerProcessProofs` | its three safety properties, proved |
| `MCWorkerProcess` | deployments |

`ValueMapping` is extended by `Geocoding` and that by `InsertDelivery`; `GeoQuery`
by `QueryTranslator` and that by `QueryApi`.

Each model module also holds mutants: copies of an action with a plausible bug,
marked `Mutant` in the comment above. They are used by no specification; each
shows that one of the properties would notice the bug.

### SchemaSync

A worker (`Procs`) runs one operation at a time; `pc[p]` says which SQL
statement or cache call it makes next, and each action is one such call, for
both databases commit every statement on its own. `keys[p]` is
`original_attrs.keys()`, `known[p]` is `persisted_metadata`, `todo[p]` is the
difference `_update_metadata_table` returns. The columns are `Base` (type, id
and time index) and `Attrs`; the columns a table always has and metadata never
names (service path, raw entity, instance id) are there as soon as the table is.
Names and types of attributes are left out: whether a name is present is all the
properties depend on. `conf`, chosen from `Deployments` at the start and never changed, is
the deployment: the database, whether a query cache is configured, and the
faults that may strike. `conf.backend` selects the two translators' differences: Crate
adds columns one at a time and fails on one that exists, raises DDL errors and
falls back to raw entities on any error; Timescale adds all columns with `if not
exists`, swallows errors of guarded statements (`with_connection_guard`) and falls
back only when the database rejected the statement.

Of the faults `transient` is a connection error that
`sql_error_handler` repairs, the statement executed or not; `down` one where it
cannot reconnect and raises itself; `crash` the death of a worker; `cache` a
Redis error, which `_cache` and its siblings log and ignore. `Evict` is the
expiry of the whole cache hash and is always possible.

`lost` records the columns whose DDL was abandoned (failed, swallowed, or its
worker died) or undone by `drop_table`, so that the properties can say what is
guaranteed outside of these cases and not only that something may go wrong:

* `MetadataBacked`: a column named in the metadata row, its cached copy or a
  worker's copy exists, is owed by a worker between storing the metadata and
  finishing its DDL, or is lost.
* `InsertFindsItsColumns`: when the insert statement runs, a column it lacks is
  owed by *another* worker or lost.
* `SerialInsertsSucceed`, `SerialSchemaAgrees`: with one worker and no failure,
  every row is stored in full and the copies agree between operations.
* `StoredDataIsVisible`: with a single writer, no crash makes a column with
  values drop out of the metadata row.
* `MetadataKeepsPreviousInserts`: only `drop_table` shrinks the row. It holds for
  one worker without failures (proved), but not once the metadata query may fail
  (a finding), nor with a cache and a worker that dies between storing the row and
  caching it: the next insert builds its row on the older, cached one.

### WorkQueue

The state is RQ's: the job hash (`job`, `retries`), the queue and the
registries. The web side is `Enqueue` (with its two failures, before and after
Redis executed the command, and the recovery from it), `RunHere` and
`RunAction`. A worker's `phase` follows RQ's order: `handle_job_failure` first
(part of `RunRaises`), then our `exc_handler`, one action per Redis
transaction: `AddException`, `IsScheduled`, `RemoveFromScheduled`,
`AddToFailed`. `loaded` is the `Job` object the worker holds; `SaveJob` writes
it back whole, as `j.save()` does. `Fetch`, `RunSucceeds`, `HandleJobFailure`,
`EnqueueScheduled`, `CleanAbandoned` and `Expire` are RQ's steps, external,
modelled from what the code and its comments rely on.

`Delete` is one entry of `delete_jobs`, as one step: RQ removes the hash, the entry
on the queue and, of the registries, the entry in the one that goes with the job's
status (`TakeOut`). A job may be in another: one whose task raised `StopTask` is
`scheduled` and filed as failed, and deleting it leaves its entry there.

`TaskCount` adds `count_all_tasks`: each length is a Redis call of its own
(`ReadNext`), and any step of the queue may come in between (`Meanwhile`). The
started registry is not read, so running tasks are not counted; a comment in the
code says so. `CountOffByMoves`: a task that stays where it is while the lengths
are read is counted once; one that moves may be counted up to once per read, or not
at all; what is counted and does not exist is a deleted task that had raised
`StopTask`.

`PromptHandler` assumes that `exc_handler` is done before the shortest retry
interval (20 seconds) is over. It is the only timing assumption; without it the
scheduler may enqueue a stopped task before the handler has removed it.

`TaskLifecycle` is the abstract specification: none, pending, then succeeded or
failed, then gone. `LifecycleRefined` checks that `WorkQueue` implements it
under the mapping `StatusOf`, the translation of RQ's statuses in
`_task_status_from_job_status`.

### ObservationBucket

`phase[t]` is where a thread is in `put` or `empty`; `Flush` and `NewStore` are
the two assignments of `ObservationBuffer.flush`, between which the store is both
in the buffer and in the local variable. `put` releases the lock before it
writes the file, `empty` writes it holding the lock. Rows are written one by one
to a `.tmp` file; `Rename` makes it visible to the reader (`Consume`). Memory is
counted in units of `OBSERVATION_MIN_SZ`; the estimate is never reset.

`FlushedIsSaved` says, from the start of a `put`, that the observations get into
the bucket although `empty` writes files holding the lock that every request
thread needs; that one in a bucket over its threshold, or in one that is about to
be emptied, ends up in a file; and so does one in a store already taken out. An
error of the file system while a store is saved is not modelled: `_save_csv` has
no handler for it, and the store is gone.

### CostSplitter

An item is its cost; the stream, the iterator with an item put back, the
batches yielded so far and the batch being drained are sequences of costs. Both
callers drain every batch before they ask for the next one, so the nested
generators run one after the other. `Total` is the last of a sequence's prefix
sums (`Sums`), a recursive function. There is no type invariant:
`BatchesJoinToStream` fixes every variable but two counters.

### InsertDelivery

A task is one notification. The handler's first loop is `Read`, one entity a
step (validation, time index, geocoding and normalisation), other requests at
work in between, so that an error in the third entity leaves the first two in
the cache of locations. `Notify` is the rest of it: both filters (`Reported`) and
the hand-over of `InsertAction.enqueue` with its fallbacks. An entity is known by
its place in the notification, so `payload[t]` is a function on the places that were
kept. A run is `Begin` (connecting and grouping), and for each group of path and
type (`group`) `Prepare` (column types, table, conversion of the rows),
`InsertRows` for each batch, the rows `left`, and `InsertRaw` when one failed. `LoseConnection`, `BreakBatch` and `Crash` are the failures; `Fail` is
what `_handle_exception` and the queue make of one.

What is reduced, because another module has it: the statements that create and
alter a table are one step (`SchemaSync`), the registries of the queue are an
outcome (`WorkQueue`), a batch may be any prefix of the rows left (`CostSplitter`).
What is abstracted: an entity has one attribute besides location and address; a
value is one of the kinds the conversions tell apart; a time is its place in the
priority list; the provider's answer to an address is an error, nothing, a match
or something else, and the lookup is part of `Read`. The value of an attribute
`location` that is said to be GeoJSON is a geometry, because the `geojson` package
decides what becomes of another one (`GivenLocations`); any other attribute of such
a type may have any value. The instance id of a full row, a UUID drawn for each entity by
each run, is the number of the run (`instance`). Crate's `geo_point` and
`geo_shape` columns are one kind, so batches that mix a location nothing could
parse with GeoJSON are not among the scenarios. `KEEP_RAW_ENTITY` is off; what it
adds to a full row is the JSON that a raw one has.

Conversions that raise are modelled where the exception leaves `insert`: `float` of
an integer that it cannot hold and `int` of an infinity (`huge`, `infinite`,
`hugenumeral`) raise `OverflowError`, which neither the conversions nor
`_preprocess_values` catch; Timescale's `encode_as_wkt` fails on a GeoJSON value that
is no geometry, and both translators on a simple location that does not parse. So
does the check for the reserved name `__original_ngsi_entity__`
(`NamesReserved`). An infinity that is kept as a `Number` is no JSON: Crate cannot be
sent the batch (`Unsendable`) and falls back to raw rows; there it is in a string,
while Timescale refuses the JSON (`Unwritable`).

* `FailuresHaveACause`: a task that no fault struck fails only for a header that
  does not match, a location that cannot be encoded, a number out of range or the
  reserved name. No row that the database rejects makes it fail, whatever values
  collide. The causes are read off the payload, not off the steps of the run.
* `CopiesWithinRuns`, `RetriesStoreTheSameRow`: at most one full and one raw copy per
  run, and the full copies are the same row but for the instance id, which makes
  each retry's row a new one to a reader of `instanceId`.
* `RowsUnderOwnPath`: see the hazard of the dropped entities.
* `ConformingValueKept`: a value that a notification brings and that fits its type
  is in every full row of its entity, and the entity is stored once the task is
  finished, if the entities of that type agree on the attribute. It is about the
  notification as sent. `FilteredOut` names what the reporter takes away before: an
  attribute without a type is deleted when Python takes its value for false, a zero
  and a `false` included, and an entity with nothing but an empty text, a 0.0 (of a
  declared `Number`, too) or the object of a relationship is dropped as empty.
* `DeliveryRefined`: `Delivery`, under the mapping at the end of the module; a failed
  task that was answered 400 counts as refused and must have stored nothing.

### QueryApi

A request is a thread or process; `phase[q]` is the statement it makes next. The
handlers are records (`Query1T1E1A` .. `DropTable`) of what they do differently:
the translator's method, whether the type is searched for, the codes, the
grouping; `HandlerOf` names the one that serves an operation. What a request may
ask (`IsRequest`) and what a row is (`IsRow`) is what the routes and the
translators let through, and `ScenariosAssumption` says it of every scenario.
`TablesAssumption` says that all tables are listed once, `LowerAssumption` that a
table's name has its type in it, as `_et2tn` makes it. `Find` lists the tables in
any order, for the statement has no ORDER BY. `Find` and `Search` are
`_get_entity_type`, `List` and `Fill` the table names through the cache, `Select` and `FormatRows` one query and the metadata read
that formats it, `Erase`, `Drop`, `Unmeta` and `Forget` the deletions. A query's result
is any order the ORDER BY leaves open (`Orders`, `SortedBy`). `Limit` is `_get_limit`;
`query_ids` and `query_last_value` have a limit of their own, `HardLimit` (10000),
whatever the configured default is. Limits below 1 and offsets below 0 are not
among the requests: `specification/quantumleap.yml` gives `minimum: 1` and
`minimum: 0` (299-318), which Connexion enforces before a handler is called, and
`op.query` passes no limit. Without a tenant these two methods remove the names with
a `.` from the list they are going through, which passes over the name after
one that was removed (`Undotted`). `until` is `toDate`, `pattern` the set of ids
that `idPattern` matches. `_format_response` is
`Format`: the rows `Taken` table by table, those of one id its `Own`, the `Entity`
made of them, in the order of the ids (`Ascending`). `stable` is history:
the rows visible from a request's start on; `shifted` says whether a row came in
before others, or went. Where the two databases differ (anchoring of the path's
pattern, the distance of a near query) the deployment says which.

An insert is one step; a table is its tenant and its lower-case type; entities
have one attribute that a request asks for; places are integers on a line and a
shape is the stretch between its outermost points. LIKE's `_` matches any
character, so a tenant's name may match another's (`Alike`).

`TypeOK` also says that a request is only given tables of its own tenant and only
shows rows of it. It says nothing of paths: `Where` is the pattern of the code, which
on Timescale is searched for anywhere, so that `/a` shows the rows of `/x/a` too,
although a comment calls it a "prefix of fiware service path"
(`sql_translator.py:818`). The other properties are about the rows that match it.
An empty path matches nothing, because `insert` stores `/` for it. `StableRowsAreShown` spells out where a
row may be missing: beyond the page, in a table that a cached list lacks, and,
for the listing of ids, when one table was dropped, which fails the whole query
and is answered with an empty list, and, without a tenant, in a type whose name has a
`.` (`Hidden`). `op/query` answers with nothing at all when one
of the entities it was asked for has no value. `PagesMeet` needs rows of different
times (`NoTies`): the order the database gives rows of one instant may change
between two pages. `GroupedByType` needs types with tables of their own: `Room`
and `room` share one, and their entities come mixed in the order of the ids.

### WorkerProcess

A thread's `phase` goes through the translator's set-up (kept connection or a new
one, kept before Crate's version is asked for), one statement, and, when that
failed, `sql_error_handler`, which gives the kept connection up and sets up again.
Timers are started by the hook before a request and stopped by the one after it.
`stage` is the process's way out: `Monitor.stop` empties one bucket after the
other while request threads may still run, then the interpreter waits for them
and takes the sampler with it. A bucket is its contents: `ObservationBucket` has
the inside, and whether a put flushes is left open here. The first statement that
fails stands for the request. A process that is killed outright is not
modelled: it loses its buffers.

## Runs

| Run | Checks | Bounds |
|---|---|---|
| `SchemaSync_concurrent` | type invariant, `MetadataBacked`, `InsertFindsItsColumns` | 2 workers, 2 attributes, 3 operations, both databases, all faults, cache on; symmetric in workers and attributes |
| `SchemaSync_single` | `SerialInsertsSucceed`, `SerialSchemaAgrees`, `StoredDataIsVisible` | 1 worker, 2 attributes, 5 operations, both databases, cache on or off, no fault or crashes |
| `SchemaSync_reread` | `MetadataKeepsPreviousInserts` is violated when the metadata query fails | 1 worker, Timescale, transient faults, no cache |
| `WorkQueue_faults` | type invariant, `RunsWithinRetries`, `TaskInOneRegistry`, `CountOffByMoves` | 2 tasks, 2 workers, 1 retry, crash in any phase, failing enqueue, deletion at any time; symmetric |
| `WorkQueue_steady` | `NoTaskInLimbo`, `LifecycleRefined`, `StoppedNeverRunsAgain`, `EventuallySettles` | 2 tasks, 2 workers, 2 retries, crashes while running a task, failing enqueue, fairness |
| `WorkQueue_stopped` | `StoppedTaskIsFailed` is violated: see the findings | 1 task, 1 worker |
| `ObservationBucket_shared` | type invariant, `Confined`, `NoObservationLost`, `FilesAreComplete`, `MemoryCapped`, `FlushedIsSaved` | 3 threads, 2 observations, threshold 1, fairness |
| `ObservationBucket_estimate` | `EstimateIsLowerBound` is violated | 1 thread |
| `CostSplitter_split` | `BatchesJoinToStream`, `FewestWithinGoal`, `StreamIsSplit` | streams of up to 5 items with 4 costs below, at and above the goal |
| `InsertDelivery_faults` | type invariant, the five safety properties above, `DeliveryRefined`, `EventuallySettles` | 2 tasks, up to 3 entities, 2 types, 1 retry; both databases, queue on and off, geocoding off, on and cached; every declared type with every kind of value; faults by scenario |
| `QueryApi_requests` | type invariant, `StableRowsAreShown`, `PagesMeet`, `GroupedByType`, `DeletesAreComplete`, `StaleListHeals` | 2 requests, 3 tables of 2 tenants, up to 6 rows, `HardLimit` 3; a tenant with a name, without one and with types that have a `.`; every kind of query alone with inserts and faults, geographical ones, two pages, four kinds of query against each kind of deletion |
| `WorkerProcess_exit` | `OnlyLateSamplesLost`, `OwnDurations`, `FailedConnectionDropped` | 2 request threads or 1 RQ worker, 3 requests, 2 samples, 1 outage |

Why the bounds are enough. Every schema hazard involves at most one worker that
records a column, another that relies on it, and a drop: two workers, two
attributes (one shared, one of each worker's own) and three operations; five
operations for a lone worker cover insert, change, drop, insert and delete in
any order. A task interferes only with itself except for places on the queue,
so two tasks and two workers are enough to have the same task in the hands of
the scheduler, a worker and the delete endpoint at once; with one retry a task is
scheduled, queued again and filed, so it may pass by a count that reads. Three threads put one
in the lock, one saving and one waiting. A notification with three entities of two
types has a first, a middle and a last batch and a group after a failed one; the
second task is there to fix a column's type first or to run between two
batches; one retry is enough to store twice. A request and one other suffice for
each race of the query side, for a request holds no state that a third could
disturb but the cached list, which two rebuild. Two threads and one outage give a
thread that resets the connection another has just opened. The theorems remove the
bounds where they apply.

Deadlock is not checked where the system may stop: `SchemaSync` when its
operations are used up, `WorkQueue` and `InsertDelivery` when all tasks are done,
`QueryApi` when all requests are answered, `WorkerProcess` when the process is
gone, `CostSplitter` when the stream is split. `ObservationBucket` is checked for it.

Fairness. `WorkQueue`: workers poll for ever, each runs a scheduler, registry
clean-up is periodic, and supervisord (`wq/supervisord.conf`, `autorestart`) restarts a
dead worker; nothing obliges a client to call. `InsertDelivery`: as long as a task
waits or a run can go on some step of these is taken, which is less than fairness
to each task; nothing obliges a client to notify or a fault to strike. `QueryApi`: only
that a cached list reaches its time to live. `WorkerProcess` states no fairness. `ObservationBucket`: a thread that has called `put` or `empty`
keeps running, and the lock, which has no order of service, is granted in the
end to a thread that could have it infinitely often; nothing obliges a thread to call.
`CostSplitter`: a generator is pulled until it ends.

## Findings

1. `_update_metadata_table` takes a lost connection for a missing metadata
   table and overwrites the metadata row (`SchemaSync_reread`).
2. A task that raised `StopTask` with retries left is filed as failed and
   reported as pending (`WorkQueue_stopped`).
3. The telemetry's memory estimate is never reset: after the first flush every
   `put` flushes and writes a file (`ObservationBucket_estimate`).

Seen while modelling, without a run of their own: `count_all_tasks` leaves out
tasks a worker is running (a comment there admits that it is not consistent with
`find_pending_job_ids`), and `load_pending_tasks` leaves out the tasks that wait on
the queue; a task
deleted while it runs comes back when its worker files it, so `LifecycleRefined` is
checked without the delete endpoint; `IterCostSplitter` fills batches from
the left of the stream, the specification in its comment from the right, with
equally few batches; deleting a task that raised `StopTask` leaves its entry among
the failed ones, where it is counted until RQ cleans up (a note in `delete_jobs`
expects the registries to be cleared); an attribute beyond a float's range fails a whole
notification; queries without a tenant skip types with a `.` and, among those, not
each second one; limit and offset apply to each table of a query over all
types, not to the response; a table takes every fetched row whose type occurs in
its name, and entities of two types with the same id are merged; the pattern of a
service path has no anchor, so on a database whose `~*` searches, `/a` also matches
`/x/a`, against the comment next to it; the point of an address is read from an attribute that the provider's
result does not have, so a match fails the notification; the cache of locations
has one key for different kinds of address; coordinates beyond those read to build
a shape are parsed outside of the handler that expects them to fail, with a 500
for a 400; Timescale's near query excludes its least distance, Crate's includes
it; Timescale's health check does not give a broken connection up; and the profiler and
`time_it`, which keeps its timer's id in the decorator shared by all calls, are not used by the
application.

## Proofs

The theorems hold for every value of the constants that satisfies the named
assumptions next to their declarations. Those say of what kind a constant is
(numbers, faults that exist, rows in the table of their type); none restricts
what the code may be configured to. What a theorem needs beyond that is a
hypothesis in its statement: one worker, a fault that does not strike,
`PromptHandler`. Each temporal theorem has the same shape: `Init` implies an
invariant, every action preserves it, and it implies the property.

`SchemaSyncProofs`. `TypeCorrect` is inductive as it stands.
`MetadataBacked` is inductive together with `KnownCoversKeys` (after the
difference is computed, a worker's copy of the row contains its own columns);
their conjunction `SyncInv` is preserved action by action (`SyncStep`), and
`InsertFindsItsColumns` follows from it because a worker that runs its insert
statement no longer owes DDL. For a lone worker without failures (`Procs = {w}`
and deployments without faults) `SerialInv` says, phase by phase, how far the three copies may be
apart; `SerialInsertsStore`, `SerialSchemasAgree` and `SerialMetadataKept` follow.
For a lone worker that may be killed at any step `VisibleInv` takes its place: what
the copies it left behind still have in common. Its heart is that the cached row is
never ahead of the stored one while there is a table, and that a worker that
records columns does so on top of all that hold data; `StoredDataStaysVisible` is
its first conjunct.

`WorkQueueProofs`. `QueueInv` joins the types with
`WorkerInv` (the flags of a worker in each phase), `OneWorkerEach` (no two workers
have the same task, and a worker's copy of the job has the job's retries),
`RegistryInv` (a job's status is that of the registry it is in, but for a job of a
`StopTask`, which stays `scheduled` where it is filed as failed) and `BusyInv`
(where the task in a worker's hands may be filed while `exc_handler` goes through
its transactions). From it:

* `TypeCorrect` and `TasksAreInOneRegistry`;
* `RunsAreWithinRetries`, with `RunsInv`: the runs of a task are counted by the
  retries it has left, plus one while it runs, plus the synchronous run of a client
  whose enqueue failed after Redis had executed it;
* `CountIsOffByMoves`: at any moment the registries are disjoint sets and an entry
  without its job is of a stopped task that was deleted (`DanglingInv`); from read to read the sum
  grows by what was found there, at most one for a task that did not move and for
  each that did (`TallyInv`);
* `TasksAreFiled` and `QueueImplementsLifecycle`, with `KeptInv` (nobody deletes a
  job under its worker) and `FiledInv` (a job is filed where its status says);
* `StoppedTasksStayStopped`, with `StoppedInv`: a task that raised `StopTask` is only
  scheduled while the exception handler holds it.

All but `TypeCorrect` assume `PromptHandler`. Without it the scheduler may
enqueue a task that its handler is about to file as failed. The hypotheses on
faults and on the delete endpoint are where the property is known to fail:
a worker killed in `fail` leaves the task nowhere, one killed in `save`, `check` or
`unschedule` leaves a stopped task scheduled, a deleted task comes back, and a task
that was run here after an enqueue that had failed too late is run by a worker as well.

`ObservationBucketProofs`. `TypeCorrect` is inductive as it stands. The invariant
`IInv` joins the four properties with
`LockInv` (who is inside the lock), `PhaseInv` (what a thread has in hand in
each phase), `SampledInv` (new observations are nowhere) and `EstimateInv` (the
estimate bounds the buffer from above, so the buffer can only be past the
threshold in the hands of a thread about to flush it).

`WorkerProcessProofs`. `ConnectionInv`: a connection that is about to be kept was
opened by the thread that does so, differs from the one that is kept and was not
given up, and no other thread has it; so what was given up cannot come back.
`TimerInv`: every request served has a timer of its own, every duration is of a
timer that was stopped. `StoreInv` and `PlaceInv`: an observation is in one bucket,
store or file. `ExitInv`: what a bucket holds after it was emptied for the last
time came late. `RequestInv`: every request still has its timer or has its duration
somewhere.

`InsertDeliveryProofs`. `InputInv`, `ReadInv` and `EntryInv` tie the payload to
the notification, place by place, through both filters; `RunInv` and
`GroupInv` say what a run has left to do and that its group is all the entities of
one path and type; `CopyInv` bounds an entity's copies by the runs, with
room for one more while the run has not come to it; `StoredInv` says that what a run has
behind it is stored; `RowsInv` that a full row is `RowOf` its entity, a function of
payload, deployment and, for the instance id alone, the run; `CauseInv` is the failed
tasks' cause, which the payload names (`Blamed`) wherever a run raises. That a value that
fits is kept needs a case for each pair of declared type and kind of value
(`ConformingIsConverted`), and that all entities of a group which agree on an
attribute have it recorded for its column. `InsertImplementsDelivery`: `AbstractMove`
maps a step of one task, `RefinementStep` every step.

`QueryApiProofs`. `TablesAreOwn` shows the part of `TypeOK` that keeps tenants
apart: the cached names of a tenant and those given to a request are of its own
tables, which the pattern on table names alone does not guarantee (`Alike`).
`DeletionsAreComplete` follows a removal through its statements (`RemovalInv`):
while `delete_entity` searches for the type of its entity, every row that was there
throughout and is to go is in a table still to be searched or of a type
already found (`SearchInv`); when it erases, all such rows are in the
table it erases from (`EraseInv`), or the request would have been refused as
ambiguous. The lemma `OthersKeep` is the frame: what another request does takes
nothing from that, for `stable` only shrinks.

For queries the invariant is `QueryInv`: the data (`DataInv`), the tables a request
is given (`OwnInv`), the types found so far (`FindingInv`), and how far each query
is (`Queried`). The last is a chain, each link shown from the one before:

* `FetchedOf`, of the rows one statement fetched: they are of its table and ids,
  in the order asked for, and a stable row in scope is among them or the page is
  full before it;
* `Pending`, of what is found and still to run: entities and statements are in the
  order of the tables, each entity of one table, all ahead of the statements left;
* `Careful`, unless a fault struck: a stable row is found, or its statement is
  still to run, or the cached list lacked its table;
* `Answered` and `Complete`, the same of the groups of the answer.

`TypesAreRight` adds which codes belong to which phases (`Coded`) and that a row is in
a table that exists (`Placed`). `NoRowIsMissed` is `Complete` at the end of the chain.
`AnswersAreGrouped` follows from the order of the tables in `Pending`: equal types are
next to each other, so the last group is always the right one to put an entity
into (`Follows`, `Grows`). For `PagesDoMeet` a row has a `Rank`, the number of rows of
its table that match and are not later. While only newer rows come in the rank does
not change, and a page holds the rows whose rank is above its offset and within its
limit, no others (`Fits`, `Shows`): two pages that
follow each other share no rank and leave none out. That a listing cut by the limit
is a full one (`IsListed`) is shown by counting: each row the statement returned has
a place of its own in the index of an entity (`PlaceOf`).

What the operators compute is shown first, for data of any size: `Ascending` gives
each number of a finite set its place (`AscendingFacts`), `Those` keeps order and
members, a page of a sorted listing has the ranks of its window, `Format`
makes one entity for each id of exactly its own rows (`EntityFacts`, `FormatFacts`),
and the recursive function of `ByType` exists and has its equations, along the
lines of `JoinsExist` below.

`CostSplitterProofs`. `GreedyInv`: any other way to cut the stream within the
goal has made as many cuts, up to where the closed batches end, as there are closed
batches. It is kept because an item is put back only when it takes the batch above
the goal, so such a way has a cut among the batch's items (`MustCut`). What `Total`
and `Flatten` compute is shown for sequences of any length by the principle that a set
of numbers has a least member (`LeastNumber`, in `SequenceFacts`): the recursive functions are
shown to exist (`SumsExist`, `JoinsExist`), then to have their equations
(`SumFacts`, `PrefixSums`, `FlattenFacts`).

Only model-checked: liveness under fairness (`EventuallySettles` of both modules,
`FlushedIsSaved`, `StreamIsSplit`, `StaleListHeals`), which is out of the prover's
reach. Every invariant and action property and both refinements that the passing
runs check are proved.

## Not modelled

`query_entity_types`, `query_instanceId` and the conversion of database values back
to NGSI; the text of SQL and of shapes; the aggregation of the health of several
services. The worker pool (experimental; the deployments use supervisord), the
profiler and the background repeater, which the application does not use. Web
server set-up, configuration reading, API documents and the subscription helper
have no state of their own. The container scripts are run once, by hand, one at
a time.

## Plan

The invariants are proved; what may be added is more of the code. In order of use:

1. `query_entity_types` and `query_instanceId`, as further operations of `QueryApi`.
2. The conversion of database values back to NGSI (`_db_value_to_ngsi`), and that it
   undoes `ValueMapping` for values that fit their type.
3. The worker pool (`wq/core/cli.py`), if deployments come to use it in place of
   supervisord.
