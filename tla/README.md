# Schema Sentry: a verification project

Schema Sentry watches the tables of a PostgreSQL source. A scan reads
`information_schema.columns`, compares it with the accepted baseline, records
the differences as changes with a severity, and queues alerts. An operator
accepts changes one by one; acceptance edits the baseline. A catalog file says
which pipelines read which columns, and a pipeline asks before it runs whether
a BREAKING change concerns it.

These modules model the part of the program whose correctness depends on
concurrency, on transactions and on the policy rules. Paths below are those of
the repository; `scans.py` without a directory is
`src/schema_sentry/infrastructure/db/repositories/scans.py`, `changes.py`,
`alerts.py` and `catalog.py` are its neighbours, and "design" is
`docs/superpowers/specs/2026-08-01-schema-sentry-design.md`.

## 1. Inventory

| Component | State it keeps | Operations | What must hold |
|---|---|---|---|
| Schema diff (`domain/diff.py`, `fingerprint.py`) | none | `compare_column`, `diff_columns`, `change_fingerprint` | a diff is empty exactly when nothing is to report; it names one change of a kind per column |
| Type rules (`domain/type_rules.py`) | none | `canonicalize_postgres_type`, `classify_type_change` | "compatible" loses no value, composes, is not reversible |
| Collector (`postgres_collector.py`) | none | `collect` | one snapshot, or an error within its timeouts |
| Scan service (`scan_service.py`, `scans.py`) | `scan_runs`, `schema_changes`, `expected_columns`, `datasets`, `alert_deliveries` | `run_scan`: lock, create, collect, load, diff, complete or fail | one scan per source; what it read stays true until it commits; open changes are the drift |
| Change acceptance (`change_service.py`, `changes.py`) | `expected_columns`, `baseline_version`, change state | `accept` | the operator changes what was displayed; every version is one acceptance |
| Sessions (`api/dependencies.py`, `db/session.py`) | the open transaction and its locks | commit, rollback, close | an interrupted request leaves nothing behind |
| Catalog sync (`catalog_service.py`, `catalog.py`, `cli.py`) | `pipelines`, `lineage_edges` | `sync` | the catalog is one file's, not a mixture of two; a command that waits for another is not waited for |
| Lineage impact (`domain/lineage.py`) | none | `impacts`, `impacts_for_columns` | exactly what is reachable, one shortest path each, termination on cycles |
| Pipeline validation (`validation_service.py`, `airflow/dags/daily_revenue.py`) | none | `validate_pipeline` | no run while a BREAKING change that reaches the pipeline stays open; no refusal without one; an end despite failures |
| Alert delivery (`notification_service.py`, `alerts.py`) | `alert_deliveries` rows | `dispatch_scan`, `dispatch_system_error`, `retry` | at most three attempts, delays respected (from arrival to arrival), records agree with what was sent |
| Notifiers (Slack, e-mail) | none | `send` | failure is always `DeliveryFailure` |
| Queries and dashboard | none | `latest`, `get`, `recent` | the version on the page belongs to what the page shows |
| Security, configuration, logging, health, schemas, migrations, deployment | - | - | not modelled, see section 7 |

How they interact. Requests (HTTP handlers, the Airflow client, the catalog
command) share one metadata database and nothing else: there is no shared
memory between them. A request is one transaction at READ COMMITTED, so every
statement sees what has been committed by then, and three locks order
requests: the advisory lock a scan tries, the row lock `FOR UPDATE` an
acceptance waits for, and the `FOR KEY SHARE` lock that PostgreSQL takes on the
same `data_sources` row for the foreign key of a new `scan_runs` row. The last
one is nowhere in the code. It is what keeps an acceptance from changing
the baseline under a running scan.

The hard behaviours: values read before a lock wait and used after it; a page
read by two statements; the advisory lock together with the row locks; process
or connection loss between any two statements; errors that commit and errors
that roll back; an operator's sequence of acceptances; a dispatcher that
attempts several deliveries in one transaction while operators retry them; one
failed scan overtaken by another; a validation of three statements between which
scans, acceptances and catalog commands commit, asked again after a timeout; two
catalog commands that delete each other's rows; a lineage graph with cycles
through several pipelines. `PROJECT.json` lists them at their lines.

## 2. Modules

| Module | Models |
|---|---|
| `SchemaPolicy` | the pure core: types, severities, diff, fingerprint, effect of an acceptance |
| `TypeEvolution` | a column whose type is altered again and again; a reference semantics of types |
| `BaselineReview` | scan, accept all, scan again, without concurrency |
| `ScanLifecycle` | scans, acceptances and catalog runs on one source, statement by statement |
| `AlertDelivery` | dispatchers and retries on the committed outbox, with a clock |
| `DriftContract` | the abstract specification: baseline, version, open and reported changes, one step per scan or acceptance |
| `LineageImpact` | the lineage graph and, by closed sets, what a change reaches |
| `ImpactAnalysis` | the breadth-first search of `LineageGraph`, iteration by iteration |
| `CatalogSync` | concurrent catalog commands, with row locks and unique keys |
| `PipelineGuard` | a guarded DAG run and its validation requests, beside `DriftContract` and `CatalogSync` |
| `SchemaPolicyProofs` | lemmas and theorems about the policy |
| `TypeEvolutionProofs`, `BaselineReviewProofs`, `ImpactAnalysisProofs`, `PipelineGuardProofs`, `AlertDeliveryProofs` | the theorems about those modules |
| `ScanSafetyProofs` | type correctness of `ScanLifecycle`, its inductive invariant and every safety and action property of `scan_lifecycle` |
| `ScanRefinementProofs` | `ScanLifecycle` implements `DriftContract` |
| `MC...` | the values of the constants for TLC |

How they build on each other:

    SchemaPolicy <- TypeEvolution, BaselineReview, ScanLifecycle, CatalogSync
    ScanLifecycle -implements-> DriftContract
    LineageImpact <- ImpactAnalysis (the search finds LineageImpact!Impacts)
    PipelineGuard = DriftContract + CatalogSync + LineageImpact!Impacts + DAG runs

`PipelineGuard` uses the two results: instead of the statements of scans and
acceptances it takes the steps of the contract they implement, and instead of
the search what the search is proved to find. That keeps the composition small
enough for TLC and exact. The one point at which the contract is coarser, the
lineage a scan judges severities by, is any lineage there, hence more behaviour
than the program has.

`TypeEvolution`, `BaselineReview` and `ScanLifecycle` extend `SchemaPolicy`, so
the same `DiffColumns` and `ApplyChange` are checked alone and inside the
transactions. An operator whose name has an underscore (`LockSource_AnyVersion`)
is a seeded fault: the operator before the underscore with one plausible
mistake. Nothing uses it; it documents, per property, a bug the property
catches.

### How state and actions correspond to the code

`ScanLifecycle` has one variable per table (`baseline` is `expected_columns`,
`version` is `data_sources.baseline_version`, `changes`, `runs`, `datasets`,
`lineage`, `outbox`), one per lock, and one record per request. A request's
record holds what its Python locals and its uncommitted rows hold: `observed`,
`expected`, `diff`, `open` for a scan; the page's `version` and the change read
before the wait, `target`, for an acceptance. The actions of a scan are, in the
order of `run_scan`: `TryLock` or `AlreadyRunning` (409) or
`RejectUnknownSource` (404), `CreateRunningScan`, `Collect` or `FailScan`
(503), `LoadExpectedColumns`, then `CompleteInitialBaseline`, or
`LoadDependencyColumns`, `ReadOpenChanges` and `CompleteDriftScan`, or
`BaselineDatasetNotFound` (500). Those of an acceptance: `ReadPageVersion` and
`SubmitChange` (the page), `ReadOpenChange` or `ChangeNotFound` (404),
`LockSource` or `BaselineVersionConflict` (409), `ApplyAcceptance` or
`ApplyFails` (500). `CrashScan` and `CrashAccept` can happen at any step.

Writes become visible at the commit, so a handler's last action is all of its
writes, its COMMIT and the release of its locks; everything it reads before is
an action of its own, because another request can commit in between. The lock
releases (`EndScan`, `EndAccept`) are those of the end of a transaction.

Some choices worth knowing:

- `scan_runs` rows in state RUNNING are never visible to another transaction
  (they are inserted and updated in one), so `runs` has no such state.
- `schema_changes.baseline_version` is written and never read; it is left out.
- A change row is identified by scan, column and kind (`SameRow`) instead of a
  UUID. That a scan never inserts two such rows is part of the invariant.
- `accept[a].seen` is a history field: the baseline at the moment the page read
  the version. No action reads it.
- One source. Sources share no row that a lock protects except `lineage_edges`.
- The page is modelled as `latest()` reads it. An API client that sends a
  version it did not read is outside `AcceptsWhatWasDisplayed`, not outside
  the other properties: `version` of a request is any version that existed.

`AlertDelivery` has the committed `rows`, and for each worker (a dispatcher per
scan, a retry request) its time, the deliveries still to attempt and the rows
its transaction has locked and written. A row is locked exactly when some
worker has it among its writes. `calls` and `received` are the outside world:
what a provider was asked to send and what arrived. A rollback does not reach
them. `row.at` is a history field, the time the code passes to
`mark_attempt_started` and does not store.

`ImpactAnalysis` has the locals of `impacts_for_columns`: `queue`, the `path` of
the column being expanded, `todo` for the rest of the inner loop, and `found`,
whose domain is also `visited` (the code adds to both in the same iteration).
`TakeColumn` is the head of the outer loop, `SkipEdge` and `FollowEdge` are the
two ways through the inner one, `Return` its end. `Rank` is the sort key of
`__init__`.

`CatalogSync` has the committed rows, each with the command that wrote it (a
history field), and per command its file, the keys it has still to insert and
what it deleted. The actions of `sync`: `CheckFile` (load and validate),
`DeleteCatalog`, `InsertPipeline` for each pipeline in the order of the keys,
`CommitCatalog` (with the edges, for which nothing waits); `AbortCommand` at any
point. PostgreSQL makes a DELETE wait for rows another transaction is deleting
(`Deletable`), an INSERT wait for a key that another transaction has inserted or
is deleting (`KeyPending`), and fail on one that is there (`KeyTaken`). The code
orders two commands in one way only: `sync` sorts the pipelines by key, so two
commands meet at the first key they share and the one behind holds nothing the
other needs. Without the sort (`NextKey_AsListed`) TLC shows each of two commands
holding the key the other waits for. Simplifications: the two DELETEs are one
action; a command deletes what is committed when it no longer waits, which is
what the re-evaluated DELETE leaves of the rows it waited for; a pipeline's key
stands for its DAG id as well.

Two circles of waits exist in the program and not in the run; in both, some
commands found no catalog to delete. DAG ids have a unique key of their own, and
their order may differ from that of the keys. And with three commands, the first
may insert key a while the second commits key b, which the third then deletes: the
first waits for the third to end, the third for the first. (The model has this one;
the run has two commands.) PostgreSQL breaks such a circle by an error in one
command, an `AbortCommand`, so the safety theorems cover it; `CommandsEnd` is
claimed for two commands, `KeysDoNotCircle` for waits for inserted keys only.

`PipelineGuard` has one record per DAG run. A try of the task `schema_guard` is
`AskGuard`, then the statements of the request, `FindPipeline` (404 if missing),
`ReadLineage`, `ReadChanges` (200 or 409), each of which sees whatever has been
committed by then, then `EndAttempt`, in which the task succeeds, fails for good
(409) or is tried again. `FailRequest` is any other status, `LoseRequest` an
unreachable service or the timeout of five seconds, before or after the answer.
`StartAggregate` and `EndAggregate` are the task behind the guard. `standing` is
a history variable: what has blocked the pipeline without interruption since the
run last asked.

## 3. Runs

| Run | Instance | Shows |
|---|---|---|
| `type_evolution` | 20 rows of `information_schema`: 14 built-in scalars, 4 user-defined types, 2 arrays; sequences of three | the policy's "compatible" against a reference semantics; only namesakes are confused |
| `baseline_review` | 2 columns, 2 types, nullable or not, 2 defaults | every order of acceptances applies and ends the drift |
| `scan_lifecycle` | 3 scans and 1 of an unknown source, 2 operators, 1 catalog run, 2 columns in 2 tables | all safety properties, with crashes, and the refinement of `DriftContract`; the requests at work never all wait for a lock |
| `scan_liveness` | 3 scans, 2 operators, 3 snapshots, fairness | every request that holds or waits for a lock is answered |
| `alert_delivery` | 1 scan, 2 channels, 3 retries, clock 0..3 | limits, delays, no lost attempt, no false record |
| `alert_liveness` | 2 scans that may both fail, 2 channels, 1 retry | a worker waits only for rows that come after those it holds; every worker ends |
| `impact_analysis` | every graph without loops over 3 columns and 2 pipelines (4096), searched from no column, from one, and from two (the second may be the first again) | the search is complete, sound, explained, shortest, and ends |
| `pipeline_guard` | 1 DAG run of 3 tries, 2 catalog commands with 4 files, 2 snapshots, 1 acceptance, fairness | the guard stops what stays blocked, refuses nothing else, catalogs do not mix, everything ends |

and four runs that end in a counterexample, section 6.

Bounds. The built-in rows of `type_evolution` are each integer, three lengths of varchar,
character(3), text, four numerics, double precision and a boolean, as PostgreSQL
16 reports them (integers have a precision too); each rule of
`classify_type_change` compares two numbers at most, and `Limit` = 7 exceeds all
of them. The user-defined rows hold two names that differ in schema and case only,
and a type called varchar. Two columns are the smallest number on which an acceptance can
touch a column it should not; two definitions that differ in type and
nullability produce both changes of one column at once. Three scans are needed
for baseline, drift and resolution, and two operators for a race; more of
either only repeats the pairwise interactions, and the theorems hold for
any number. `Snapshots` are four schemas, chosen so that a column changes in
both aspects, disappears and appears, and a table appears after the baseline.
`Defaults` and `Ordinals` are single in the concurrent runs: no guard of a scan
or an acceptance reads them. `LastTick` = 3 lets the two delays (1 and 2, for 60
and 300 seconds) elapse one after the other. Three columns and two pipelines
give `impact_analysis` every shape the search can go wrong on: a column reached
over two ways of different length, by two pipelines, and cycles within and
across pipelines; two input columns give the first level of the queue more than
one element, and the same column twice is what `impacts_for_columns` would do with
an iterable that repeats itself. In `pipeline_guard` the four files make the DAG's pipeline
depend on another one's output, on the source directly, be missing, or have a
loop, so that a catalog commit between two statements changes the answer in each
direction; `MaxAttempts` = 3 as in the DAG; `MaxVersion` = 2 allows
one acceptance, and as scans are unbounded the BREAKING change can come, be
resolved, be accepted and come back. Symmetry is used in safety runs
only, over requests, which no action distinguishes.

`Terminated` is a step of the models in which every request is answered, so TLC
checks for deadlock everywhere else.

## 4. Fairness

`ScanLifecycle`: weak fairness of the steps of a scan or an acceptance once it
runs. The code justifies it: the collector connects with `connect_timeout=3` and
`statement_timeout=5000`, everything else is a statement on the metadata
database, and PostgreSQL grants a row lock that is free. Weak fairness is enough
for the lock waits because the holders end: an acceptance that holds the row has
one step left, and when scans keep taking the KEY SHARE lock there are finitely
many of them in the model. With an endless supply of scans an acceptance would
depend on PostgreSQL queueing lock requests fairly, which the model does not
represent. No fairness is assumed of clients and operators, nor of crashes.

`AlertDelivery`: weak fairness of the steps of a worker that has begun; both
notifiers have timeouts of five seconds. Retry requests, the clock and crashes
owe nothing.

`ImpactAnalysis`: weak fairness of the loop, which is one call. `PipelineGuard`:
weak fairness of a command's and of a DAG run's next regular step. The database
answers or fails and the client waits five seconds, so a try ends; Airflow
schedules the retries (a delay of one minute is any delay in the model) and the
task behind. A lock is granted once free. Failures, aborts, scans and
acceptances owe nothing, and no strong fairness is needed: a command that waits
does so for one that can go on.

## 5. Proofs

TLAPS checks these for every value of the constants: any number of scans,
acceptances, columns, types, channels, retries, pipelines, commands and DAG runs.
The assumptions are the named ASSUMEs of the modules (types of the constants;
`Absent` and `Nobody` are not values; ranks are injective; a catalog file has an
edge). `EvolutionAssumption` says what `information_schema.columns` reports: at
most one length, precision and scale, a length only for character and bit types,
a scale only with a precision, and no alias as a `data_type` but ARRAY. TLC
evaluates all of them in every run. `DriftContract` assumes nothing.

| Theorem | States |
|---|---|
| `CompatibleComposes`, `CompatibleIsOneWay` | "compatible" is a strict order on canonical types |
| `CompatibleKeepsValues`, `EvolutionComposes`, `RollbackBreaks`, `FamiliesAreKeptApart` | the properties of `type_evolution` |
| `ReviewTyped`, `EveryChangeCanBeAccepted`, `ReviewsAlign`, `AcceptanceIsLocal` | the properties of `baseline_review` |
| `TypeCorrect` | `Spec => []TypeOK` |
| `InductiveCorrect` | `Spec => [](TypeOK /\ Inductive)` |
| `ScanReadsCurrent` | what a scan read still holds when it commits |
| `OpenChangesUnique` | one open change of a kind per column |
| `DisplayedIsAccepted` | an acceptance changes the baseline its operator saw |
| `VersionsAreAcceptances` | the version counts the accepted changes |
| `AcceptedStaysAccepted` | no step loses a change or alters an accepted one |
| `OpenChangesFollowDrift` | a drift scan leaves open exactly its diff |
| `OutboxIsExact` | deliveries exist for exactly the scans to announce |
| `SomebodyGoesOn` | of the requests at work one waits for no lock |
| `ScansImplementContract` | `Spec => Contract!Spec` |
| `SearchTyped`, `SearchFindsReachable`, `PathsAreExplained` | the search is complete and sound, and each path explains its target |
| `SearchInvariantHolds`, `SearchFindsShortest` | the search goes level by level, so each path is a shortest one |
| `EveryStepCounts` | every step of the search makes progress that nothing undoes |
| `GuardTyped`, `CatalogsStayApart`, `StandingChangesStopRuns`, `ConflictsHaveReasons` | the safety and action properties of `pipeline_guard` |
| `KeysDoNotCircle` | no catalog commands wait in a circle for keys they have inserted |
| `DeliveryTyped`, `RetryTimes`, `RecordsAreTrue`, `AttemptsAreCounted`, `BackoffIsKept` | the properties of `alert_delivery` |
| `LocksInOrder`, `WaitsInOrder`, `NoCircularWait` | workers take rows in one order, hence wait in no circle, of any length |

### Scans and acceptances

None of the safety properties is inductive by itself. `ScanReadsStayCurrent`
says nothing of an acceptance that is about to write while a scan reads;
`VersionCountsAcceptances` nothing of two requests that hold the same row.
`Inductive` adds what the code relies on without saying it:

- `LockDiscipline`: who holds a lock is where it should be in its handler, and
  KEY SHARE and FOR UPDATE exclude each other. An acceptance that writes then
  leaves no scan past `CreateRunningScan`, which is all that
  `ScanReadsStayCurrent` needs.
- `RowsOfCompletedScans`: a scan at work has no rows yet, so the rows it writes
  cannot be confused with older ones and a row's identity is unique.
- `DiffDistinct`: a diff has one change of a kind for a column. With
  `scan[r].open = OpenChanges` it gives `OpenChangesDistinct`: a row left open
  has its fingerprint in the diff, hence no new row beside it.
- `PageIsCurrentOrStale`: a page with the current version shows the current
  baseline, and a request whose row another request accepted carries an older
  version. The second part makes `ApplyAcceptance` accept a row that was not
  accepted (`OneMoreAccepted`), from which the count follows. The baseline
  changes without its version only in `CompleteInitialBaseline`, which runs
  on an empty baseline: hence the exception for pages shown without one.

Each part has a lemma of its own (`LockDisciplineNext`, ...) that uses the parts
before it; `StoreWriters` reduces the cases to the four steps that write.
`scan_lifecycle` checks `Inductive` as an invariant too.

`NotEverybodyWaits` follows from `LockDiscipline`. An acceptance that waits for
the row waits for an acceptance that holds it, which has one step left, or for
scans past `CreateRunningScan`, none of which waits again; a scan that waits holds
the advisory lock but no row lock, and so blocks nobody whom it waits for. TLC
finds no deadlock in a small instance; the theorem speaks of any number of
requests.

The refinement maps the open rows and all rows to the fingerprints of what they
report; baseline and version map to themselves. Only four actions change those:
`CompleteInitialBaseline` is `Establish`, `CompleteDriftScan` is `Drift`,
`ApplyAcceptance` is `AcceptOpen`, or `AcceptWithdrawn` when the row was
resolved meanwhile, and every other action stutters. That `CompleteDriftScan` is
a `Drift` of the CURRENT baseline is `ScanReadsStayCurrent`; that the open rows
afterwards are the diff is `OpenChangesDistinct` with `DriftKnown`, the invariant
that a scan's diff is that of its snapshot. `TargetsKnown` says that the row an
acceptance was given still reports the same. `AcceptWithdrawn` is the weak spot
of the contract, and it cannot be left out: see `resolved_is_final`.

### The other components

`BaselineReview`: each column is settled (it reports nothing), or untouched (its
open changes are its diff), or `Adjusted`, and an acceptance moves one column
towards settled.

`TypeEvolution`: a type is known only through the row that reports it, so the
first lemmas say what a canonical type with a given name, length, precision or
scale tells of its row (`RulesReadTheSource`); without `EvolutionAssumption` an
alias of one type could carry the numbers of another. Then each rule of
`classify_type_change` is held against the reference semantics: ranks against
bits, lengths against lengths, precision and scale against the digits before and
after the point. `WideningComposes` and `RevertingAWideningBreaks` need no
reference; they hold of canonical types (`SchemaPolicyProofs`), hence of rows.
`Namesakes` is the exact exception: without any of its disjuncts TLC finds a
counterexample among the rows of the run.

`ImpactAnalysis`: `SeenIsExpanded` (a seen column is queued, or its edges are
found or in `todo`) makes the columns seen a closed set when the queue is empty,
hence everything reachable was found; `OnlyReachable` is the other inclusion. A
column is expanded once per pipeline that reaches it, which is why the argument
is about columns seen and not about the visited keys. Shortest paths need the
order of the queue: the paths in it are sorted by length, at most one longer than
the path at hand (`LevelsInOrder`), and a column n steps away is queued so, or its
targets are found with n + 1 steps (`LevelsAreExpanded`). With an empty queue a
shorter explanation of a target would have to leave the found levels at some
edge, and the invariant names that edge as found. `EveryStepCounts` is the
progress that `SearchEnds` rests on: a step takes an item off the queue, or an
edge off `todo`, and only a target not found before puts one in.

`PipelineGuard`: `OneReplaces` (of two commands at work at most one deletes
anything), `RowsAreCommitted` and `KeysAreFree` (an inserted key is nobody else's)
carry `CatalogsDoNotMix`. `KeysInOrder` (what a command has inserted comes before
what it has still to insert) excludes circles of keys, by the argument that
`AlertDelivery` uses below. For
`StandingChangeStops`, whatever is in `standing` blocks the pipeline now, and so
it did at each statement of the request: at the lineage statement it was
reachable over the edges that were read, at the change statement it was open.
The proof uses only that reachability depends on the edges alone.

`AlertDelivery`: a row a worker has written is one attempt further than the
committed row (`WritesFollowRows`), no two workers have written the same row
(`LocksExclude`), the committed rows tell the truth (`RowsTruthful`), and a scan
that was not committed has no rows. For the locks, what a worker holds comes
before what it has still to take (`LocksBeforeTodo`), because it always takes the
first of its list. If some workers waited in a circle, the one that waits for
the least of their rows would hold a row another of them waits for, and that row
would be smaller still.

### Only model-checked

Liveness (`scan_liveness`, `WorkersFinish`, `SearchEnds`, `CommandsEnd`,
`RunsEnd`), because liveness under fairness is outside what the prover handles,
and the runs of section 6. Every invariant and every action property of a
passing run is a theorem.
## 6. Where the code and its documents differ

Each of these is a run that TLC ends with a counterexample; `PROJECT.json`
quotes the line that says otherwise.

- `resolved_is_final`: an acceptance reads the OPEN row, waits for a scan, and
  accepts the change that the scan has resolved. No version protects it,
  because a resolution does not change the version.
- `sibling_change`: accepting one of two changes of a column adopts the other
  as well; its row then becomes RESOLVED though nothing returned.
- `alert_rollback`: the dispatcher's single transaction forgets a Slack message
  it has sent when the e-mail delivery was retried meanwhile.
- `alert_latest_failed`: after a failure the router dispatches for the latest
  failed scan instead of its own; an overtaken failure is never reported.

More are visible in the models and have no run of their own:

- A table created after the baseline makes every scan end in a 500 without any
  record (`BaselineDatasetNotFound`), because only the initial baseline creates
  `datasets` rows; docs/architecture.md:160 says that later complete
  observations are persisted and compared.
- `ARRAY` is canonicalised without its element type, so a change from one array
  type to another is no change, where docs/architecture.md:176 says BREAKING. Of a
  user-defined type the schema, the case and surplus blanks of the name are dropped
  (type_rules.py:28-30, 60): a change between two such types of one name in two
  schemas is no change, and one from a type called varchar to text is a WARNING.
  `OnlyNamesakesAreConfused` states the exceptions, and that there are no others.
- The guard answers for the time of the question. A BREAKING change that is
  opened after the answer, and before or while the aggregation runs, does not
  stop it; docs/portfolio-mapping.md:11 speaks of a fail-closed guard.
  `StandingChangeStops` says exactly how far that goes. Since lineage and changes
  are read by two statements, a run may also be refused for a combination of an
  old lineage and a new change that never existed together, hence the condition
  in `ConflictHasReason`.
- Two catalog commands on an empty database do not wait for each other's rows: with
  different pipelines both commit and the catalog is the union, which
  `CatalogsDoNotMix` excepts; with a common one the second fails.

- A change's fingerprint covers default and ordinal. A new default of a column
  with an open type change resolves the row, opens another and alerts again
  (design:104 promises no repeated alert for the same drift).
- `run_scan` takes an empty baseline for a new source. After the last column is
  accepted as dropped, the next scan adopts what it sees under the same version
  (docs/architecture.md:159). `AcceptsWhatWasDisplayed` excludes pages shown
  without a baseline for that reason.
- `_attempt` does not look at the status: a delivery that is SENT can be sent
  again and end as FAILED (design:149 speaks of failed deliveries).

## 7. Not modelled

The security filters, health endpoints, configuration, logging and
serialisation keep no state and order nothing. The connection pool is
unbounded in effect for the model: waiting for a connection happens before any
lock is taken. The SQL of the collector, rendering of messages, migrations and
deployment files are outside. That an answer may reach the client before the
session's commit (the session is closed by the framework after the handler) is
not distinguished: an acceptance's answer and its commit are one step.

Also outside: the scheduled scan DAG (`schema_consistency_scan.py`), which is one
more client of the scan endpoint whose retries are further scan requests; the
delay between the tries of a task; several DAG runs at once (the theorems cover
any number, the run has one); the DAG's own SQL; several sources, whose changes
the validation reads together (`PipelineGuard` has the columns of all in one
baseline); `catalog_digest`, `find_open`, `list_open_for_source` and
`get_dataset`, which only tests call; the read-only views of scans and impacts,
which use the same `LineageGraph`.
