# A formal model of the data_processing platform

TLA+ modules for the parts of this repository whose correctness depends on the
order of steps of several processes, on crashes and retries, or on arithmetic at
a boundary; TLC configurations that check them on small instances; and TLAPS
proofs of the results that matter most, for every size. `PROJECT.json` lists the
components, the runs with their properties, a mutated definition for each
property that the run has to catch, the source lines of every definition
(`map`), the hazards of the code and the theorems.

## 1. The system

Impressions come from a generator behind an HTTP API. An hourly Airflow DAG pulls
each page type with a Spark job, lands the raw file, the partition of
`impressions` and a manifest, and aggregates the hour; a second DAG, triggered by
the dataset event, judges the hour. Beside it run a realtime path (Kafka, a Python
consumer or ClickHouse's Kafka engine, materialized views, a Flink rollup, a query
API), a Postgres warehouse whose releases are promoted to the schema `gold`, a
semantic catalog and a service of query templates on top of it, a monitoring
agent, a vector index, an Iceberg table, a change-capture path, an AWS pipeline,
and the same four analyses of the impressions on five engines.

| component | state it keeps | operations | what is hard | what makes it correct |
|---|---|---|---|---|
| raw landing (`api_pull.py`, `utils/landing.py`) | status, staged file, raw file, partition, manifest, quarantine of a slice | fetch, stage, parse, quarantine, gate, write, promote, publish, complete | crash or exception between any two calls; retries with other bytes; a zombie beside its retry | a completed slice is of one response; nothing is published ahead of the partition; every slice lands |
| storage adapters (`utils/storage.py`) | the files, objects and rows inside those calls | open, fill, rename, copy, delete, put | calls that are several operations; readers in between | a manifest or a status is whole or absent, but where the adapter writes in place |
| row-count gates (`quality.py`, Rust port, `quality_checks.py`) | none | volume check, quarantine ratio, the Airflow check | three implementations; zero, empty, even, exact bounds, missing days | they agree |
| hourly DAG, aggregation, quality DAG | task instances, slots, `impressions_aggregated`, events, verdicts | schedule, retry, clear, pull, aggregate, check | hours in parallel over one output; clears during checks; events that pile up | no stale rows after success; the newest hour is judged; a backfill drains |
| salted join | none | add salt, explode, join | random draws, nulls, unmatched rows | it is the join |
| Kafka consumer (`consumer.py`) | buffer, positions; offsets in Kafka; rows | poll, insert, commit, back off, stop | crash between insert and commit, lost answers, rebalances with rows buffered, timers | no record is skipped; offsets go forward; every good record arrives; bounded wait |
| Flink rollup, ClickHouse views, query API | windows, watermarks, checkpoints; raw rows, counts, TTL | window, emit, replay, insert, merge, expire, rebuild, query | idle and uneven partitions, replays summed twice, views fed per block, windows against the TTL | no early close; counts exact without faults, never short with them; answers are the rows' |
| gold promotion (`002_gold_promotion.sql`) | release log, schemas, gold | `promote()`, `rollback()` | READ COMMITTED statements, catalog locks, retention | log, schemas and gold agree; rollback undoes a promotion |
| catalog sync, template service | catalog rows, loaded templates | sync, search, describe, run | two syncs; files, catalog and server that part; what a lint leaves to run time | one manifest; a call is as declared |
| monitoring loop and agent (`ops_agent`) | results, alert log, run and finding logs | measure, judge, throttle, sense, classify, report | rebuilds, dry runs, replays, dying runs, renamed columns | a collapse is reported, once; the report is faithful; drift is exact |
| vector index (`pinecone_deployment`) | two indexes, their model records, a pointer | open, upsert, dual write, backfill, cut over, offboard | one of two writes failing, races on an index's record, stale batches | one model per index, nothing lost at the cut-over, offboarded stays gone |
| Iceberg table | snapshots, files, stream position | merge, replay, erase, compact, expire, remove orphans, roll back | writes in flight beside maintenance | replay converges; live files exist |
| CDC path | connector offsets, windows, checkpoints, counts | send, count, checkpoint, restart | two at-least-once stages in a row | counts per window are exact |
| AWS pipeline | objects, executions, crawler, partitions | notify, start, check, crawl, load, count | redelivery, one crawler for all, overlapping executions | a landed file is processed; an older one never replaces a newer; the count is of what was written |
| analyses (dbt, DuckDB, Polars, ClickHouse, Trino) | the copies of the slices | load, four analyses, reconcile | overlapping and failing loads; rounding, ties, bad dates | all engines answer alike |

They interact through stores and events, not calls: the DAG starts the jobs, the
jobs meet in the file store, the aggregation reads what the pulls wrote, the
checks read manifests and statuses; the consumer and Flink share Kafka topics;
the agent reads the snapshots and schema of a table others write; the template
service reads the schema the promotion renames. The full list is `components` in
`PROJECT.json`.

## 2. The modules

### Raw landing: `VolumeCheck`, `RawLanding`, `SettledSlices`, `RawLandingProofs`

A *run* is one process started by Airflow for a slice. `pc[r]` names its next
storage call; the actions `Start`, `Fetch`, `DiscardStale`, `Stage`, `Parse`,
`Quarantine`, `Gate`, `WriteTable`, `Promote`, `Unstage`, `Publish`, `Complete`
follow `main()` and `landed_raw_file`, `Abort` and `MarkFailed` its exception
path. `Raise` lets any call raise, before or after it took effect, and `Crash`
ends the process anywhere. `CopyThenDelete` selects the S3 adapter, whose move is
a copy (`Promote`) and a delete (`Unstage`). A payload is the content of one
response, known by its numbers of valid and bad rows; two fetches of a slice may
differ, as the generator draws fresh users. `SettledSlices` is the abstract
promise: a consumer that reads a slice only while its status is `completed` sees
raw file, manifest and partition as if written at once. `SettledSpec`
instantiates it with the refinement mapping `View`.

The cached data frame is read once (`parsed`), and HTTP retries are one fetch.

### Inside the calls: `StorageAdapters`, `RawLandingProofs`

A run of `api_pull` is the sequence of file operations it has still to do
(`LandingOps`); a file is opened and filled in two steps, an open file keeps its
handle when it is renamed, and a PUT or a Delta commit is one step. `BeginAttempt`,
`DoOperation` and `CallFault` are an attempt's steps; `ListStatuses`, `ReadStatus`
and `JudgeFreshness` the Airflow freshness check, which lists and then reads one
status at a time. `CallsHold` says what is left of `RawLanding`'s atomic calls for
each adapter; `FreshnessTells` that the check is right about every job whose
completion did not change while it read.

### Row counts and the join: `VolumeGates`, `SaltedJoin`, `HourlyPipelineProofs`

`VolumeGates` sets three judgements of one batch side by side: `CheckVolume` and
`QuarantineRefused` (the job), `CheckVolumeRs` (the Rust port: median by sorting,
indexed from 0) and `CheckFails` (`volume_from_manifests`), over a history in
which days may lack a manifest. Ratios are integer cross-products, so nothing is
rounded. `SaltedJoin` has the salts as a variable that is drawn freely; the plain
join is the reference definition.

### The hourly pipeline: `HourlyPipeline`, `HourlyPipelineProofs`

`run[h]` and `task[h][t]` are Airflow's; `StartRun` takes a slot, `Pull`,
`PullFails`, `AggregateReads`, `AggregateWrites` (one output partition at a time,
as the job's commit moves them), `AggregateEnds`, `AggregateFails`, `FailRun` and
`Clear` are what the scheduler, the jobs and an operator do. A pull is one step
here; `RawLanding` has its inside. `StartCheck` consumes all events that piled up
and resolves them to the newest hour, `CheckPage` reads one manifest. Airflow is
modelled as the DAG files configure it (slots, retries, dependencies).

### The realtime consumer: `EventConsumer`, `EventConsumerProofs`, `FlushDeadline`

`EventConsumer` is `run()` and `flush()` for a group of processes. What the broker
and kafka-python do is modelled as the loop meets it (external in the map): a
member joins a generation in its poll, its positions restart at the committed
offsets while the buffer is kept, and a commit of an old generation raises. A
record is good, malformed (skipped), poison (parses, but ClickHouse refuses the
block) or undecodable (the deserializer raises). When the flush deadline passes
is left open there; `FlushDeadline` has the same loop in ticks, for inserts that
succeed.

### Realtime counts: `FlinkRollup`, `FlinkRollupProofs`, `AnalyticsStore`, `DataPathProofs`

`FlinkRollup` is the PyFlink job (`Read`, `GoIdle`, `Advance`, `Checkpoint`,
`Fail`, `Submit`) and ClickHouse's reading of its topic (`Land`, and
`LandUncommitted` for a block whose offsets were not committed). The watermark is
the lowest of the partitions that are not idle; a checkpoint has offsets, open
windows and watermark together, and what was written to the topic stays there.

`AnalyticsStore` is the path without Flink: `Produce`, blocks of the topic into
the raw table and the three views (an insert may fail after some of the views),
`MergeDay`, expiry by TTL, the rebuild of the views from raw rows, and the queries
over the endpoints' windows. A row is its place in the topic, and a view's sums
are how often each event was counted; the model and channel of a response are
left out, so its latency endpoint has one row. `AnswersFollowRows` joins what views
owe the raw rows with the windows that end in the future, and the endpoints with
each other.

### Gold promotion: `GoldPromotion`, `GoldPromotionProofs`

Sessions call `promote()` and `rollback()`; each SELECT is a step that sees what
is committed, the swap takes the catalog row of `gold`, a session that finds it
taken waits and raises when the holder commits. What a transaction does after it
holds the row is invisible until the commit and is one step. `Raise` ends a call
anywhere. `before` and `overlapped` are history.

### Search by embeddings: `IndexMigration`, `CatalogSync`, `SearchIndexProofs`, `QueryTemplates`

`IndexMigration`: a loader, API processes with the store they opened, and a
migration that opens a shadow index, writes to both, backfills in batches, moves
the pointer and deletes the old index; opening looks and then creates or records
(`Look` and what follows), an upsert may give up with the vectors written or not,
tenants are offboarded at any time. The service returns an index's tags or not.

`CatalogSync`: a sync reads the entries, embeds what differs (`ToEmbed`) and
writes and deletes in one transaction; another manifest or model may be synced
beside it.

`QueryTemplates`: files are edited, a server loads all of them once (`Service`)
or none, the catalog is synced from them apart from that, and an agent searches,
has a template described and calls it. `Valid` is the lint; `Coerced`, `Accepted`
and `Binding` are `bind`; `PostgresFails` and `TrinoFails` what each engine makes
of placeholders by name and by position. A JSON value is its kind and what it
reads as. `CallsAsDeclared` relates what the agent was told to what was bound,
refused, or failed, for templates that are `Sound`: see section 4 for what the
lint leaves out.

### The agent: `OpsMonitor`, `OpsAgent`, `SchemaWatch`, `OpsAgentProofs`

`OpsMonitor` has the table as its snapshots, the monitor's results and the alert
log; ingestion, rebuilds, row deletes, rewrites and snapshot expiry commit beside
monitor runs, reruns and replays of a day, which may die between persisting and
routing. `OpsAgent` extends it by the graph, one append at a time, and by what
the report says of two days. A finding is its key and a severity, and the key of a
renamed, retyped or watched column stays while its severity changes (`Evolve`,
`SeveritiesOf`); `Act` writes an incident file per key, `Die` may leave some of them
written. `MayKeep` is what `_latest_per_key` may return: of the rows of one key and
day any, as the query orders none, so `MayBeClean` says that some choice of rows
reads clean. `SchemaWatch` is a table whose columns are added,
dropped, renamed and widened (Iceberg tells them apart by field id, the contract
by name), with the four judges of it: `SchemaDrift`, `EnumDrift` and
`DateFindings` of the sensors with their severities, `TypeBreach`, `Arrival`, and
`Refused`, the gate of a build.

### Lake and files: `ServerlessPipeline`, `CdcCounts`, `IcebergTable`, `DataPathProofs`

`ServerlessPipeline`: landings, notifications (delivered twice, or naming two
objects), invocations with their two repeats, and executions of encoding check,
crawl, Glue job, crawl, count, over one crawler. The Glue job's write is two steps,
`RemoveFiles` and `LandFiles`, with other executions' crawls and counts and its own
death in between (`emptiedBy`). `CdcCounts`: changes in the log,
a connector that resumes at its last flushed offset, a job that resumes at its
last checkpoint, and counts written under a key per window. `IcebergTable`: a
write puts its file and commits later, or dies in between, beside compaction,
expiry, orphan removal and rollback; a stream merges again what came after its
committed position.

### The analyses: `ImpressionAnalyses`, `OpsAgentProofs`

Loads of slices into Postgres, DuckDB, Polars or ClickHouse, each a delete and an
insert that is atomic or not as the loader has it, with failures and one overlap;
the four analyses per engine (`Funnel`, `PageTypeSummary`, `HourlyTraffic`,
`UserEngagement`) from bags of event rows; Trino's copies and their reconciliation with gold.

### Instances

`MCRawLanding`, `MCEventConsumer`, `MCGoldPromotion`, `MCHourlyPipeline`,
`MCFlinkRollup` give TLC values for the constants. Modules that share nothing are
put into one run, with a variable, fixed in the initial state, that says which one
a behaviour is of: `MCStorage` ("landings" of `RawLanding`; "documents" and
"freshness" of `StorageAdapters`), `MCPipelineChecks` ("hours", "gates", "join",
"loads", "copies"), `MCBackfill` ("backfill", "schema"), `MCOpsAgent` ("table",
"alerts", "agent", "drift": what may happen often), `MCSearchIndexes` ("index", "catalog", "templates") and `MCDataPaths`
("files", "changes", "batches", "loop", "tenants", "rebuild").

## 3. The runs

| run | instance | shows |
|---|---|---|
| `RawLanding` | S3 adapter, one slice, three attempts, two faults, four kinds of response | `CompletedIsConsistent`, `PublishedInOrder`, the refinement `SettledSpec`, `EventuallyLanded` |
| `RawLandingOverlap` | landings: two slices, three attempts alive together, one fault, volume check in fail mode; documents: three adapters, two attempts, two faults; freshness: the check beside attempts, three minutes, an SLA of one | `RefusedNeverInTable`, `CallsHold`, `FreshnessTells` |
| `EventConsumer` | four topics, two consumers, two partitions, rebalances, one fault | `NothingLost`, `CommittedNeverBack`, `NoDuplicateWithoutFault`, `EverythingStored` |
| `GoldPromotion` | two promoters, two operators, five releases, three kept | `GoldMatchesLog`, `RollbackRestores` |
| `HourlyPipeline` | two hours at once, two failures, a clear; batches and histories of four days; joins of three rows; two loads that overlap and one after them, five slices, four stores | `SettledOutputFresh`, `NewestHourJudged`, `JudgementsAgree`, `DropIn`, `EnginesAgree` |
| `Backfill` | two hours, one slot, retries; three schema changes with every set of five values | `BackfillDrains`, `DriftExact` |
| `HourlyPipelineRerun` | two hours, nothing fails | violation of `RerunKeepsOtherHours`, section 4 |
| `FlinkRollup` | two partitions of two records, one quiet at times, checkpoints, one restart, one more fault | `OnlyStragglersDropped`, `CountsHold`, `PassedWindowsLand` |
| `OpsAgent` | five snapshots, four monitor runs, two agent runs, baselines of three, throttle of two, findings of two keys with two and three severities | `CollapseReported`, `MeasuresTheBatch`, `AlertsLoggedOnce`, `ReportFaithful` |
| `OpsAgentDeath` | the same | violation of `CleanSaysWhatRan`, section 4 |
| `SearchIndexes` | two conversations of two tenants, one fault, one API restart; up to four syncs, two at a time, of four manifests; two template files, ten templates, 82 arguments | `OneModelPerIndex`, `CutOverKeepsAll`, `OffboardedStaysGone`, `CatalogOfOneManifest`, `CallsAsDeclared` |
| `DataPaths` | two landings and two faulty calls; two change histories with a restart of each stage; two batches, four snapshots; the timed loop; two conversations, or one with a failed insert and a rebuild | `CountsWhatItWrote`, `LandedAloneIsProcessed`, `ProcessedNeverBack`, `WindowsExact`, `ReplayConverges`, `FilesExist`, `WaitBounded`, `AnswersFollowRows` |

**Bounds.** Three attempts are the least in which two fail and a third has to
clean up after both; with two faults every pair of calls can be the failing one.
Runs of different slices share nothing but the baseline the volume check reads.
Two consumers are enough for a rebalance to hand a partition over and back; three
records and a batch of two give full, partial and mixed blocks. Five releases
fill the retention of three beside an active and a dropped one. Two hours and two
page types are enough for two aggregations to interleave in both partitions. The
row counts of the gates stand on and next to each bound (0, 1 %, half,
double), and four days give odd and even medians. Three schema changes are a
rename, a drop and a column of the freed name. Two windows of two time units and a
delay of one make a partition early, late and idle for the same window. Five
snapshots hold batch, rebuild, refill, batch and an expiry; a baseline of three is
half filled with breaches by two. Two agent runs are one on each of two days, or
two of a day with different severities of a key. Two tenants are enough for a batch read before
one of them leaves; two syncs for one to write between the other's read and write.
Two files of one template name are the least that stop a server, and the
arguments hold for each parameter a value of its type, text of it, another type, a
NaN, a null and nothing. Two executions are enough for the older to come last. In
"documents" two attempts are alive together only at one job, and in "freshness"
one at a time without faults: the check then judges what one writer does. The
bounds that cut behaviours short are `MaxFaults`, `MaxStorageFaults`,
`MaxCallFaults`, `MaxInsertFaults`, `MaxRestarts`, `MaxStreamDeaths`, `MaxClears`,
`MaxReleases`, `MaxSkipped`, `MaxMinutes`, `MaxHour`, `MaxSnapshots`, `MaxWrites`,
`MaxRuns`, `MaxAgentRuns`, `MaxDay`, `MaxSyncs`, `MaxEdits`, `MaxLandings`,
`MaxLoads`, `MaxChanges`, `MaxConversations`, `MaxRebuilds`, `BaselineDays` and
`Runs`.

**Deadlock** is checked in `EventConsumer`, which never stops. The others stop when
attempts, ids, changes or inputs are used up or a backfill is finished, and their
configurations say so.

**Fairness.** `RawLanding`: a live process keeps running, and Airflow retries a
task that has not succeeded; nothing makes a call raise. `EventConsumer`: the
supervisor restarts a process that ended; the coordinator rebalances when members
come or go (strong: the members have to be in their polls together, which happens
again and again); a polling loop is given the record it polls for and a flush
deadline passes in the end (strong, since a round without a record may come in
between). `Backfill`: the scheduler starts what may start and workers finish what
they run; clears and failures are not forced, and the behaviours about the schema,
in which no hour runs, are not fair. `FlinkRollup`: a running
job reads its partitions and emits its watermark, and ClickHouse reads its topic;
no checkpoint, idleness, restart or resubmission is forced.

## 4. Where the code and its texts part

Two disagreements are kept as runs that TLC has to find violated.

* `HourlyPipelineRerun`: `impression_pipeline.py:16-17` says a re-run replaces
  exactly its hour's partitions. `aggregation.py:168-172` partitions the output by
  `page_type` alone, so each hour's aggregation replaces every other hour's rows.
* `OpsAgentDeath`: `report.py:170` says of a clean day that the agent ran and raised
  nothing actionable. A run that dies after `ops.agent_runs` was appended
  (`graph.py:103`) and before `ops.finding_log` was (110) reads as clean.

The others were met on the way, and the properties are stated so as to say what
does hold.

*Landing and storage.* `landing.py:25` says a manifest exists only if raw file and
partition came from the same bytes, but a re-run of a landed slice that fails
after its table write leaves the old manifest beside the new partition. An empty
response completes and keeps the old partition. The quarantine append is repeated
by retries. Databricks writes the manifest in place: an attempt that dies there
leaves one that later days' baselines cannot read until the slice is published
again, and `quality_source` reads Databricks statuses as local files. Overlapping
local attempts share the staged and the temporary file and may mix their bytes. A
completed job that runs again hides its completion from the freshness check while
it runs. `RawLanding` leaves out one outcome: the last status write taking
effect and then raising, after which the retry lands the slice anew.

*Consumer and Flink.* `consumer.py:160` says one bad record must not stall the
partition; one that parses and that ClickHouse refuses does. A block that failed
grows by a row per retry, and a replay cuts blocks elsewhere, so the deduplication
of identical blocks does not catch it. The flush timer alone does not bound a
row's wait (`WaitBounded` has the bound). A restarted Flink job writes closed
windows again, which the summing table adds up (`CountsHold`: never short, exact
without faults).

*Analytics store.* `_day_window` returns one day more than asked for. A
conversation that spans midnight has its end counted on the next day. Views count
a replayed block twice, and a failed insert may be in some of them only; a rebuild
from raw rows loses the expired days, counts copies that were not merged yet, and
counts rows twice that come in between its `CREATE` and its backfill. Events are
stamped ahead of the produced time, out of the hour window.

*Gold.* A `rollback()` that overlaps others and whose first read went stale
renames the present gold to a name that retention has freed; hence
`NothingDropped` in `GoldMatchesLog`. Three rolled-back releases push the replaced
one out of the retention. Promotions that overlap commit out of id order, and a
rollback then undoes the wrong one.

*Catalog and templates.* `content_hash` leaves out a column's place, so a moved
column is not updated. Two overlapping syncs may leave a mixture of their
manifests. The README of `mcp_deployment` (165) says adding a template is one file
and a catalog sync, but a running server keeps the templates it loaded at its
first call, and one bad file leaves server and sync without any. The lint looks at
a statement without its comments, the engines at all of it: a placeholder or
percent in a comment is a parameter too many on Trino, or an error of psycopg; an
undeclared one on Trino is a `KeyError` outside the handler. The types of choices,
bounds and defaults are not linted: a quoted date never equals a date, a bound of
another type raises `TypeError`, a NaN passes every bound, a default is bound
unchecked, and an optional parameter without a cast is a NULL that PostgreSQL
cannot type. `CallsAsDeclared` promises a call only for templates without these.

*Agent.* A batch right after a table was emptied is taken for a rebuild's refill
and not measured; a row-level delete is measured as a batch of none; expiry of the
emptying snapshot makes a refill look like a batch. The throttle counts days that
logged alerts (its docstring says runs), dry runs among them, and a broken monitor
and a collapse share a key. Baselines include breaches, reruns of the day, and
newer days when an old one is replayed. `report.py:52` says that of the rows of one
key the last write wins, but its query (68) orders nothing and the rows carry only a
date; with a severity that differs from run to run, that of one run may hide that of
another: `ReportFaithful` promises a
finding in the verdict only if each run of the day that had its key found it
actionable, and nothing of a run that did not come to its end. Keys decide what is new
or cleared, so a finding that changes from benign to breaking is still open.
`first_seen` ignores that a finding was cleared.

*Schema watch.* Declared names are looked up before field ids, so a name that was
freed and taken again hides what happened (`NamesStay`). Iceberg reuses the schema
id of a schema that comes back; the last entry of `schema_history` is then not the
table's, and the scan fails by name or a rename is reported that was undone. A
column renamed and widened is breaking, though each alone is not. The
column-type monitor breaches for renames the classifier says not to page for. The
window of gaps runs to the day itself, so any lag breaches as a gap and `max_lag`
never decides.

*Search index.* `pinecone_deployment/README.md` (81) says the API reads the pointer
on each request, but `get_store` is cached for a process's life, and the
query embedder is the environment's. The dual writer has no delete; a backfill
begun before dual writing leaves a gap; without tags, a failed or raced read of an
index's record lets another model claim it.

*AWS.* The crawl state has no retry, so an execution that meets another's crawl
fails and its file is not processed; one transient fault in a notification of two
records may lose the second; a file without a valid row leaves the old partition;
an execution reads the object as it is by then. The overwrite removes the old files
of a partition before the new one lands (`etl_job.py:175-182`; `main.yaml:278-279`
and 443-445 say so), so a crawl or a count of another execution may find the
partition empty, and a Glue run that dies there, with its one retry, leaves it empty:
`CountsWhatItWrote` leaves exactly that out, and says the count is then none and not
one of older rows. A partition is never partly there, since its rows are one file
(`repartition` by the partition keys) and a PUT is atomic; and a crawl removes
nothing from the catalog that has files no more (`CrawlEnds`).

*CDC and Iceberg.* Redelivery raises `event_count`, the distinct count stays exact.
`upserts.py:42-43` says the merge survives a renamed column, but a renamed key is
left out of the join. Duplicates within a batch are both inserted, and later
replays then raise. A replay after an erasure brings the rows back.
`time_travel.py` orders snapshots by their time, and a rollback adds none. A
write whose base is no longer the current snapshot is refused by the model, where
Iceberg validates it and may rebase it: the model has fewer behaviours there.

*Analyses.* Overlapping loads of a slice double it in Postgres and DuckDB; a load
that fails leaves part of a slice in DuckDB, and none in ClickHouse and Polars; a
lone reload repairs each. A date of the right form but of no calendar stops dbt's
build, though `safe_casts.sql` (2-6) says it becomes NULL. Rows without a date are
in dbt's funnel only, in DuckDB's summaries too, and stop its user query.
ClickHouse rounds half to even, though the docstring of `_round2` says all engines
round half away from zero. dbt's `DISTINCT ON` has no tie-break. The reconciliation
does not see rows that are doubled on one side, since its metrics count distinct
ids.

## 5. The proofs

TLAPS checks these for every value of the constants that meets the named
assumptions of the modules, for any number of faults.

* **`RawLandingProofs`.** `TypeCorrect` and `RefusedBatchStaysOut` need no
  assumption on overlap; their invariant `GateInv` adds what a run holds at each
  step and that a run about to write has passed the gate. `CompletedConsistent`,
  `PublishesInOrder` and `ImplementsSettledSlices` assume `~Overlap`, the one thing
  about Airflow they need: one attempt of a task instance at a time.
  `CompletedIsConsistent` is not inductive: the status is written last, so the
  strengthening `Inv` says for each step of a run which stores already hold its
  bytes (`RunInv`) and that no other run is at work on the slice (`Exclusive`). One
  lemma per action; the action property and the refinement follow from the same
  invariant, step by step. Inside the calls, `CallsAreWhole` (`StorageInv`,
  `JobsInv`): a call's operations come in one order (`Orderly`), and those it has
  done fit what the stores hold (`Fits`); as long as no other attempt of the job is
  alive nothing comes between. `FreshnessIsTold` (`FreshInv`) adds what the check
  has read: of a job that did not change meanwhile it is what stands there.
* **`EventConsumerProofs`.** `AtLeastOnce`, `CommitsOnlyGrow` and
  `ExactlyOnceWhenQuiet`. `NothingLost` says nothing of records that were read and
  not committed, so a commit could break it; `DeliveryInv` says where they are: a
  process that was given a partition has them in its buffer, unless they are stored
  (`HeldInv`), and when it is about to commit its whole buffer is stored
  (`ReadyInv`). A rebalance resets positions to the committed offsets, and a buffer
  left from an old generation does no harm. That nothing is stored twice is the
  other half (`CalmInv`, `LoneInv`): what a process alone in its group has in its
  buffer it has read since its last commit, each record once, and what is stored is
  committed or about to be.
* **`GoldPromotionProofs`.** `GoldAgreesWithLog` and `RollbackUndoes`, by
  `PromotionInv`. `GoldMatchesLog` has to survive commits of sessions that read
  long ago: `SessionInv` says what a read is still good for (the release was in the
  log, and the holder of gold's catalog row can swap), `SoloInv` that a call that
  nothing overlaps has read what is so. `RollbackRestores` needs `ChainInv`: in a
  log without overlaps each release that was not rolled back superseded the one
  `before` it, and retention keeps the newest.
* **`HourlyPipelineProofs`.** `SettledOutputIsFresh`, by `FreshInv`: while an
  aggregation runs its pulls are over, so the table still holds what it read, and
  what it has already replaced is from that. `NewestHourIsJudged`, by `VerdictInv`:
  of a newest hour that succeeded the event waits, or a check is under way and has
  refused none of the pages it read, or its verdict stands; a later pull takes the
  success away and announces the hour again. The newest of the announced hours is
  found by well-founded induction from the library (`WFMin`), without induction
  over the set. `SaltedJoinIsJoin` and `SaltedJoinNoDuplicates`: a row has a partner
  under the one salt it drew exactly when the keys match. `GatesNeverDisagree`
  (`BatchInv`): the three read the same manifests, a missing one skipped
  (`LandedAreCounts`). The job takes the count with half of the others below it,
  the port the one in the middle of a sorted list; `KthIsKthSorted` shows that the
  k-th by rank is the k-th by sorting, for lists of any length with repeated
  counts, by counting how many places hold no more than it. The rest is arithmetic
  on cross-products.
* **`SearchIndexProofs`.** `CatalogIsOfOneManifest` of the catalog, and of the
  vector index `ModelsNeverMix` (`MarkInv`: what an open has read of an index's tag
  or record is still so when it decides, and every store and vector agrees with
  it), `GoneStaysGone` (`GoneInv`: an offboarding that crosses nothing is of the
  only index there is, and nothing of the tenant is on its way) and `CutOverKeeps`
  (`KeepInv`: what was promised by the live index alone is in the shadow or in what
  is left of a backfill begun under dual writing). All three rest on `SteadyInv`:
  an index that is open exists, and the migration keeps the shadow open.
  `CallsAreAsDeclared` (`TemplateInv`): what the server has loaded passed the lint
  file by file; a call keeps the template it was told of and whether that is the
  one served, so binding and both engines meet a `Sound` template.
* **`DataPathProofs`.** `NoFileLost` (`FilesInv`): a write in flight keeps files
  only of the snapshot it began on, and its commit is refused if that is no longer
  the table's; its own file is in no snapshot yet and too young to be an orphan.
  `ReplaysConverge` (`MergedInv`): the table has each key of the
  batches merged so far once, and the last value of those the replay has come to
  again; so has what a write in flight on the current snapshot will commit. `NeverBack` and
  `CountIsOfItsRows` (`CountInv`) assume `MaxConcurrentRuns = 1`, the default of
  `main.yaml:108-117`: with two runs the older may write last. So does
  `AloneIsProcessed` (`AloneInv`): of landings that came one by one at most the last
  is under way, and what the one before wrote is cataloged. Between the two steps of
  a write `CountInv` knows whose run has the partition empty (`emptiedBy`), and that
  a recrawl that finds it so remembers it. `WaitIsBounded`
  (`ClockInv`): the time since the last flush exceeds the interval only by the
  records read since, each at most a poll timeout after the one before.
  `CountsAreExact` (`ExactInv`) assumes `WithinDisorder`, the bound the watermark
  is configured with; TLC evaluates it on the instance (`MCWithinDisorder`). Its
  invariant says that what the topic has is the log up to the connector, tails of
  it repeated; that the open windows, and those of the last checkpoint, have the
  changes up to their offset; and that a written minute cannot get another change.
  `AnswersAreOfRows` (`StoreInv`): the raw table has every row as often as it was
  inserted and not merged away (`RowsInv`), a view has what was inserted since it
  was made and, when its rebuild is over, all before (`ViewInv`), and what a
  backfill has yet to add is known (`TodoInv`). That sums by day and by hour are
  one sum (`SumByGroups`) is a bijection between the events counted, group by group;
  no induction is needed, since `Sum` is the number of events.
* **`FlinkRollupProofs`.** `DropsOnlyStragglers` (`StragglerInv`): the watermark,
  running or checkpointed, is not ahead of what each partition that was never idle
  has shown, so a window closed to its record means the record is out of order.
  `EventsAreCounted` (`RollupInv`, with `CountsInv`): the open windows, those of the
  last checkpoint and the rows written hold together every event read, and an event
  read again is one the checkpoint had not seen; the rows landed are those of the
  topic up to the committed offset, tails of it repeated.
* **`OpsAgentProofs`.** Of the agent: `BatchIsMeasured` (`BatchInv`: what a rebuild
  or a compaction commits is told from a batch by its operation and its counts),
  `ReportIsFaithful` (`ReportInv`: every row is of a finding some run of its day had,
  a run that ended has a row of each, and so has an incident file and a run that is
  about to act), `AlertsAreLoggedOnce` and `CollapsesAreReported`
  (`CollapseInv`). No later run changes what an earlier one logged, so each is kept
  by the step that makes it. `DriftIsExact` (`SchemaInv`): as long as no name went
  to a second field and no schema came back, the last change tells what each name of
  the contract is now. Of the analyses: `EnginesAnswerAlike` (`StoresInv`). A slice
  is as its last load left it but for rows a mutation will delete (`AsLoaded`);
  between delete and insert of a load that is alone it is empty, or Postgres has
  read all of it (`SeenInv`). From the rows of impressions, each once, `Aggregated`
  and `Funnel` are then computed one impression and one stage at a time
  (`GroupsOfRows`, `FunnelOfRows`).

The assumptions on the constants are those of their types: finite groups
(`GroupAssumption`), distinct names that are no indexes (`NamesAssumption`), lengths
and bounds that are numbers (`BatchesAssumption`, `WalsAssumption`,
`RunsAssumption`), a delay and a disorder above zero (`MinuteAssumption`), finite
contracts, days and values (`SchemaAssumption`), finitely many alerts of others
(`MonitorAssumption`), templates and arguments of their shapes
(`TemplateAssumption`), and fetches that are finite, of their slice and without two
impressions of one id (`AnalysesAssumption`, as `_make_impression_id` makes them
within a response).

Every invariant and every action property of the runs is a theorem, and so is the
refinement. Model-checked only are the four liveness properties `EventuallyLanded`,
`EverythingStored`, `BackfillDrains` and `PassedWindowsLand` (fairness and ENABLED
are out of the prover's reach) and the two violations of section 4. Sums, medians and
counts are defined by the number of the things they count (`Sum`, `SumOf`,
`TwiceMedian`), not by recursion over the data, which is what lets them be proved
about: an induction over data would be out of reach.

## 6. Not modelled

What Spark, Flink, ClickHouse, Kafka, Postgres, Iceberg and Airflow do beyond what
the code relies on. Of the realtime path: latency sketches, the drill-down to one
conversation, the TTL of the views, the table layouts of the tuning stages. Of the
template service: `describe_table`, which reads columns and release in statements of
their own, the connection pool, the roles; a statement that reads two tables while
gold is swapped is PostgreSQL's matter. Of the agent: struct columns, the
language-model fallback, the YAML of feeds and contracts, rendering. Of the index:
retrieval quality. Of Iceberg: partition evolution, branches, the metrics queries.
Of the CDC path: the print sink, idleness, the schema registry. The Spark debugging
cases are demonstrations of query plans; deployment scripts, generated and example
files have no behaviour of the system. Components with the status `partly` in
`PROJECT.json` say what is left out.

## 7. Plan

1. `describe_table` beside `GoldPromotion`: columns and release read on two
   connections.
2. Liveness of `ServerlessPipeline` and `IndexMigration` under the retries they
   have.
3. A refinement from `StorageAdapters` to the calls of `RawLanding`, for which
   `CallsAreWhole` has the facts.
