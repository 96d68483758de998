---------------------------- MODULE ScanLifecycle ----------------------------
(***************************************************************************)
(* The baseline of one source and the requests that read and write it:     *)
(* scans, acceptances and catalog synchronisations, each one transaction   *)
(* of the metadata database (PostgreSQL, READ COMMITTED), interleaved      *)
(* statement by statement.                                                 *)
(*                                                                         *)
(* What a transaction writes becomes visible when it commits, so the       *)
(* writes of a handler and its COMMIT are one action and everything before *)
(* them is held in the request's own record.  Three locks order requests:  *)
(*  - the advisory lock a scan tries to take, or fails with 409;           *)
(*  - the KEY SHARE lock on the data_sources row that the foreign key of   *)
(*    scan_runs takes when the RUNNING row is inserted;                    *)
(*  - the FOR UPDATE lock on the same row that an acceptance waits for.    *)
(* PostgreSQL lets KEY SHARE and FOR UPDATE wait for each other; all three *)
(* are released when the transaction ends.                                 *)
(***************************************************************************)
EXTENDS SchemaPolicy, FiniteSets

CONSTANTS
  Scans,        \* scan requests; a request names its scan_runs row
  Known,        \* the scan requests that name a registered source
  Acceptances,  \* acceptance requests, each with the page it was sent from
  Syncs,        \* runs of the catalog command
  Channels,     \* the enabled alert channels
  Datasets,     \* DatasetRefs
  DatasetOf,    \* the dataset of each column
  Snapshots,    \* what the collector can observe of the source
  Lineages,     \* sets of upstream columns a catalog file can declare
  Nobody        \* no lock holder, no row

ASSUME LifecycleAssumption ==
  /\ Known \subseteq Scans
  /\ DatasetOf \in [Columns -> Datasets]
  /\ Snapshots \subseteq Schemas
  /\ Lineages \subseteq SUBSET Columns
  /\ Nobody \notin Scans \union Acceptances

VARIABLES
  baseline,   \* expected_columns
  version,    \* data_sources.baseline_version
  datasets,   \* rows of datasets
  lineage,    \* upstream columns of lineage_edges
  changes,    \* rows of schema_changes
  runs,       \* committed status of scan_runs
  outbox,     \* rows of alert_deliveries: <<scan, channel>>
  advisory,   \* holder of the source's advisory lock
  keyShare,   \* scans holding KEY SHARE on the data_sources row
  forUpdate,  \* acceptance holding FOR UPDATE on the data_sources row
  scan,       \* the scan requests
  accept,     \* the acceptance requests
  sync        \* the catalog runs

store  == <<baseline, version, datasets, lineage, changes, runs, outbox>>
locks  == <<advisory, keyShare, forUpdate>>
vars   == <<store, locks, scan, accept, sync>>

-----------------------------------------------------------------------------
(* Rows and request records. *)

ChangeStates == {"OPEN", "ACCEPTED", "RESOLVED"}

\* A row's baseline_version is written and never read: it is left out.
ChangeRow ==
  {row \in [scan: Scans, column: Columns, kind: ChangeTypes,
            severity: Severities,
            before: ColumnDefinition \union {Absent},
            after: ColumnDefinition \union {Absent},
            state: ChangeStates] :
     Reports(row.kind, row.before, row.after)}

ScanWorking  == {"locked", "running", "collected", "loaded", "diffed", "reconciling"}
ScanAnswered == {"201", "404", "409", "500", "503", "lost"}

ScanRequest ==
  [pc: {"idle"} \union ScanWorking \union ScanAnswered,
   observed: Schemas, expected: Schemas,
   diff: SUBSET SchemaChange, open: SUBSET ChangeRow]

AcceptWorking  == {"submitted", "found", "holding"}
AcceptAnswered == {"200", "404", "409", "500", "lost", "left"}

\* version is the one on the page; seen is a history variable, the baseline
\* of that moment.
AcceptRequest ==
  {request \in [pc: {"idle", "viewing"} \union AcceptWorking \union AcceptAnswered,
                version: Nat, seen: Schemas, target: ChangeRow \union {Nobody}] :
     request.pc \in AcceptWorking => request.target \in ChangeRow}

SyncRequest ==
  [pc: {"idle", "validated", "synced"}, upstream: SUBSET Columns]

TypeOK ==
  /\ baseline \in Schemas
  /\ version \in Nat
  /\ datasets \subseteq Datasets
  /\ lineage \subseteq Columns
  /\ changes \subseteq ChangeRow
  /\ runs \in [Scans -> {"NONE", "COMPLETED", "FAILED"}]
  /\ outbox \subseteq Scans \X Channels
  /\ advisory \in Scans \union {Nobody}
  /\ keyShare \subseteq Scans
  /\ forUpdate \in Acceptances \union {Nobody}
  /\ scan \in [Scans -> ScanRequest]
  /\ accept \in [Acceptances -> AcceptRequest]
  /\ sync \in [Syncs -> SyncRequest]

OpenChanges == {row \in changes : row.state = "OPEN"}

\* A row keeps its identity while its state changes.
SameRow(row, other) ==
  /\ row.scan = other.scan
  /\ row.column = other.column
  /\ row.kind = other.kind

ScanRecord(pc) == [pc |-> pc, observed |-> NoColumns, expected |-> NoColumns,
                   diff |-> {}, open |-> {}]

AcceptRecord(pc) ==
  [pc |-> pc, version |-> 0, seen |-> NoColumns, target |-> Nobody]

Init ==
  /\ baseline = NoColumns
  /\ version = 1
  /\ datasets = {}
  /\ lineage = {}
  /\ changes = {}
  /\ runs = [r \in Scans |-> "NONE"]
  /\ outbox = {}
  /\ advisory = Nobody
  /\ keyShare = {}
  /\ forUpdate = Nobody
  /\ scan = [r \in Scans |-> ScanRecord("idle")]
  /\ accept = [a \in Acceptances |-> AcceptRecord("idle")]
  /\ sync = [s \in Syncs |-> [pc |-> "idle", upstream |-> {}]]

-----------------------------------------------------------------------------
(* The scan request. *)

EndScan_KeepsRowLock(r, answer) ==
  /\ scan' = [scan EXCEPT ![r] = ScanRecord(answer)]
  /\ advisory' = Nobody
  /\ UNCHANGED <<keyShare, forUpdate, accept, sync>>

\* COMMIT or ROLLBACK, and the answer: the scan's locks are gone.
EndScan(r, answer) ==
  /\ scan' = [scan EXCEPT ![r] = ScanRecord(answer)]
  /\ advisory' = Nobody
  /\ keyShare' = keyShare \ {r}
  /\ UNCHANGED <<forUpdate, accept, sync>>

RejectUnknownSource(r) ==
  /\ scan[r].pc = "idle"
  /\ r \notin Known
  /\ scan' = [scan EXCEPT ![r] = ScanRecord("404")]
  /\ UNCHANGED <<store, locks, accept, sync>>

TryLock(r) ==
  /\ scan[r].pc = "idle"
  /\ r \in Known
  /\ advisory = Nobody
  /\ advisory' = r
  /\ scan' = [scan EXCEPT ![r].pc = "locked"]
  /\ UNCHANGED <<store, keyShare, forUpdate, accept, sync>>

AlreadyRunning(r) ==
  /\ scan[r].pc = "idle"
  /\ r \in Known
  /\ advisory # Nobody
  /\ scan' = [scan EXCEPT ![r] = ScanRecord("409")]
  /\ UNCHANGED <<store, locks, accept, sync>>

\* The foreign key check of the INSERT waits for an acceptance to end.
CreateRunningScan(r) ==
  /\ scan[r].pc = "locked"
  /\ forUpdate = Nobody
  /\ keyShare' = keyShare \union {r}
  /\ scan' = [scan EXCEPT ![r].pc = "running"]
  /\ UNCHANGED <<store, advisory, forUpdate, accept, sync>>

Collect(r) ==
  /\ scan[r].pc = "running"
  /\ \E snapshot \in Snapshots :
       /\ snapshot # NoColumns
       /\ scan' = [scan EXCEPT ![r].pc = "collected", ![r].observed = snapshot]
  /\ UNCHANGED <<store, locks, accept, sync>>

\* The source is unreachable, times out or shows no column.
FailScan(r) ==
  /\ scan[r].pc = "running"
  /\ runs' = [runs EXCEPT ![r] = "FAILED"]
  /\ outbox' = outbox \union ({r} \X Channels)
  /\ EndScan(r, "503")
  /\ UNCHANGED <<baseline, version, datasets, lineage, changes>>

LoadExpectedColumns(r) ==
  /\ scan[r].pc = "collected"
  /\ scan' = [scan EXCEPT ![r].pc = "loaded", ![r].expected = baseline]
  /\ UNCHANGED <<store, locks, accept, sync>>

\* The first scan, and any scan that finds the baseline empty.
CompleteInitialBaseline(r) ==
  LET observed == scan[r].observed
  IN  /\ scan[r].pc = "loaded"
      /\ scan[r].expected = NoColumns
      /\ baseline' = [c \in Columns |-> IF observed[c] = Absent
                                        THEN baseline[c] ELSE observed[c]]
      /\ datasets' = datasets \union {DatasetOf[c] : c \in ColumnsOf(observed)}
      /\ runs' = [runs EXCEPT ![r] = "COMPLETED"]
      /\ EndScan(r, "201")
      /\ UNCHANGED <<version, lineage, changes, outbox>>

LoadDependencyColumns(r) ==
  /\ scan[r].pc = "loaded"
  /\ scan[r].expected # NoColumns
  /\ scan' = [scan EXCEPT
       ![r].pc = "diffed",
       ![r].diff = DiffColumns(scan[r].expected, scan[r].observed, lineage)]
  /\ UNCHANGED <<store, locks, accept, sync>>

ReadOpenChanges_AnyState(r) ==
  /\ scan[r].pc = "diffed"
  /\ scan' = [scan EXCEPT ![r].pc = "reconciling", ![r].open = changes]
  /\ UNCHANGED <<store, locks, accept, sync>>

ReadOpenChanges(r) ==
  /\ scan[r].pc = "diffed"
  /\ scan' = [scan EXCEPT ![r].pc = "reconciling", ![r].open = OpenChanges]
  /\ UNCHANGED <<store, locks, accept, sync>>

NewChanges_OnePerColumn(r) ==
  {c \in scan[r].diff : \A row \in scan[r].open : row.column # c.column}

\* The changes whose fingerprint no open row carries.
NewChanges(r) ==
  {c \in scan[r].diff : \A row \in scan[r].open : Fingerprint(row) # Fingerprint(c)}

NewRow(r, c) ==
  [scan |-> r, column |-> c.column, kind |-> c.kind, severity |-> c.severity,
   before |-> c.before, after |-> c.after, state |-> "OPEN"]

Vanished_WholeColumn(r) ==
  {row \in scan[r].open : \A c \in scan[r].diff : c.column # row.column}

\* Open rows that the diff no longer reports.
Vanished(r) ==
  {row \in scan[r].open : \A c \in scan[r].diff : Fingerprint(c) # Fingerprint(row)}

Resolve(row, vanished) ==
  IF \E gone \in vanished : SameRow(row, gone)
  THEN [row EXCEPT !.state = "RESOLVED"] ELSE row

Alertable_BreakingOnly(c) == c.severity = "BREAKING"

Alertable(c) == c.severity \in {"WARNING", "BREAKING"}

DatasetKnown(c) == DatasetOf[c.column] \in datasets

CompleteDriftScan(r) ==
  /\ scan[r].pc = "reconciling"
  /\ \A c \in NewChanges(r) : DatasetKnown(c)
  /\ changes' = {Resolve(row, Vanished(r)) : row \in changes}
                  \union {NewRow(r, c) : c \in NewChanges(r)}
  /\ outbox' = IF \E c \in NewChanges(r) : Alertable(c)
               THEN outbox \union ({r} \X Channels) ELSE outbox
  /\ runs' = [runs EXCEPT ![r] = "COMPLETED"]
  /\ EndScan(r, "201")
  /\ UNCHANGED <<baseline, version, datasets, lineage>>

\* LookupError: fail_scan runs, but the router rolls everything back.
BaselineDatasetNotFound(r) ==
  /\ scan[r].pc = "reconciling"
  /\ \E c \in NewChanges(r) : ~DatasetKnown(c)
  /\ EndScan(r, "500")
  /\ UNCHANGED store

\* The process or its connection dies: the database rolls back.
CrashScan(r) ==
  /\ scan[r].pc \in ScanWorking
  /\ EndScan(r, "lost")
  /\ UNCHANGED store

ScanStep(r) ==
  \/ CreateRunningScan(r) \/ Collect(r) \/ FailScan(r)
  \/ LoadExpectedColumns(r) \/ CompleteInitialBaseline(r)
  \/ LoadDependencyColumns(r) \/ ReadOpenChanges(r)
  \/ CompleteDriftScan(r) \/ BaselineDatasetNotFound(r)

ScanArrives(r) == RejectUnknownSource(r) \/ TryLock(r) \/ AlreadyRunning(r)

-----------------------------------------------------------------------------
(* The acceptance request. *)

EndAccept_KeepsLock(a, answer) ==
  /\ accept' = [accept EXCEPT ![a] = AcceptRecord(answer)]
  /\ UNCHANGED <<locks, scan, sync>>

EndAccept(a, answer) ==
  /\ accept' = [accept EXCEPT ![a] = AcceptRecord(answer)]
  /\ forUpdate' = IF forUpdate = a THEN Nobody ELSE forUpdate
  /\ UNCHANGED <<advisory, keyShare, scan, sync>>

\* latest() reads the source row first ...
ReadPageVersion(a) ==
  /\ accept[a].pc = "idle"
  /\ accept' = [accept EXCEPT ![a].pc = "viewing", ![a].version = version,
                              ![a].seen = baseline]
  /\ UNCHANGED <<store, locks, scan, sync>>

\* ... and the open changes in a later statement; the operator picks one.
SubmitChange(a) ==
  /\ accept[a].pc = "viewing"
  /\ \E row \in OpenChanges :
       accept' = [accept EXCEPT ![a].pc = "submitted", ![a].target = row]
  /\ UNCHANGED <<store, locks, scan, sync>>

LeavePage(a) ==
  /\ accept[a].pc = "viewing"
  /\ EndAccept(a, "left")
  /\ UNCHANGED store

StillOpen(a) == \E row \in OpenChanges : SameRow(row, accept[a].target)

ReadOpenChange(a) ==
  /\ accept[a].pc = "submitted"
  /\ StillOpen(a)
  /\ accept' = [accept EXCEPT ![a].pc = "found"]
  /\ UNCHANGED <<store, locks, scan, sync>>

ChangeNotFound(a) ==
  /\ accept[a].pc = "submitted"
  /\ ~StillOpen(a)
  /\ EndAccept(a, "404")
  /\ UNCHANGED store

SourceLockFree_NoKeyUpdate == forUpdate = Nobody

SourceLockFree == forUpdate = Nobody /\ keyShare = {}

LockSource_AnyVersion(a) ==
  /\ accept[a].pc = "found"
  /\ SourceLockFree
  /\ forUpdate' = a
  /\ accept' = [accept EXCEPT ![a].pc = "holding"]
  /\ UNCHANGED <<store, advisory, keyShare, scan, sync>>

LockSource(a) ==
  /\ accept[a].pc = "found"
  /\ SourceLockFree
  /\ version = accept[a].version
  /\ forUpdate' = a
  /\ accept' = [accept EXCEPT ![a].pc = "holding"]
  /\ UNCHANGED <<store, advisory, keyShare, scan, sync>>

\* The lock is granted, the version is read under it and the request ends.
BaselineVersionConflict(a) ==
  /\ accept[a].pc = "found"
  /\ SourceLockFree
  /\ version # accept[a].version
  /\ EndAccept(a, "409")
  /\ UNCHANGED store

\* apply() looks at the row it read before it waited, not at its state now.
MarkAccepted(row, target) ==
  IF SameRow(row, target) THEN [row EXCEPT !.state = "ACCEPTED"] ELSE row

ApplyAcceptance_SameVersion(a) ==
  LET target == accept[a].target
  IN  /\ accept[a].pc = "holding"
      /\ ~CannotApply(target, baseline)
      /\ baseline' = ApplyChange(target, baseline)
      /\ changes' = {MarkAccepted(row, target) : row \in changes}
      /\ EndAccept(a, "200")
      /\ UNCHANGED <<version, datasets, lineage, runs, outbox>>

ApplyAcceptance(a) ==
  LET target == accept[a].target
  IN  /\ accept[a].pc = "holding"
      /\ ~CannotApply(target, baseline)
      /\ baseline' = ApplyChange(target, baseline)
      /\ version' = version + 1
      /\ changes' = {MarkAccepted(row, target) : row \in changes}
      /\ EndAccept(a, "200")
      /\ UNCHANGED <<datasets, lineage, runs, outbox>>

\* ValueError: rollback.
ApplyFails(a) ==
  /\ accept[a].pc = "holding"
  /\ CannotApply(accept[a].target, baseline)
  /\ EndAccept(a, "500")
  /\ UNCHANGED store

CrashAccept(a) ==
  /\ accept[a].pc \in AcceptWorking
  /\ EndAccept(a, "lost")
  /\ UNCHANGED store

AcceptStep(a) ==
  \/ ReadOpenChange(a) \/ ChangeNotFound(a)
  \/ LockSource(a) \/ BaselineVersionConflict(a)
  \/ ApplyAcceptance(a) \/ ApplyFails(a)

OperatorStep(a) == ReadPageVersion(a) \/ SubmitChange(a) \/ LeavePage(a)

-----------------------------------------------------------------------------
(* The catalog command: its columns are checked against the baseline in    *)
(* one statement, the edges replaced and committed in later ones.          *)

ValidateCatalog(s) ==
  /\ sync[s].pc = "idle"
  /\ \E upstream \in Lineages :
       /\ upstream \subseteq ColumnsOf(baseline)
       /\ sync' = [sync EXCEPT ![s] = [pc |-> "validated", upstream |-> upstream]]
  /\ UNCHANGED <<store, locks, scan, accept>>

ReplaceCatalog(s) ==
  /\ sync[s].pc = "validated"
  /\ lineage' = sync[s].upstream
  /\ sync' = [sync EXCEPT ![s] = [pc |-> "synced", upstream |-> {}]]
  /\ UNCHANGED <<baseline, version, datasets, changes, runs, outbox>>
  /\ UNCHANGED <<locks, scan, accept>>

-----------------------------------------------------------------------------

AllAnswered ==
  /\ \A r \in Scans : scan[r].pc \in ScanAnswered
  /\ \A a \in Acceptances : accept[a].pc \in AcceptAnswered

\* Every request has its answer: the only state in which nothing need happen.
Terminated == AllAnswered /\ UNCHANGED vars

Next ==
  \/ \E r \in Scans : ScanArrives(r) \/ ScanStep(r) \/ CrashScan(r)
  \/ \E a \in Acceptances : OperatorStep(a) \/ AcceptStep(a) \/ CrashAccept(a)
  \/ \E s \in Syncs : ValidateCatalog(s) \/ ReplaceCatalog(s)
  \/ Terminated

Spec == Init /\ [][Next]_vars

\* The server finishes what it has begun: the collector's connection and its
\* statements have timeouts, PostgreSQL grants the row lock once it is free.
\* Nothing makes a client send a request or an operator decide.
Fairness ==
  /\ \A r \in Scans : WF_vars(ScanStep(r))
  /\ \A a \in Acceptances : WF_vars(AcceptStep(a))

FairSpec == Spec /\ Fairness

-----------------------------------------------------------------------------
(* Safety. *)

\* From the moment a scan has read the expected columns until it commits, the
\* baseline is still what it read, and the open rows it is about to reconcile
\* are still the open rows: nothing re-checks them at the end
\* (scan_service.py:59-80, scans.py:312-366), only the KEY SHARE lock protects.
ScanReadsStayCurrent ==
  \A r \in Scans :
    /\ scan[r].pc \in {"loaded", "diffed", "reconciling"} =>
         scan[r].expected = baseline
    /\ scan[r].pc = "reconciling" => scan[r].open = OpenChanges

\* The dashboard never offers two open changes of one kind for one column,
\* whatever scans and acceptances came between them (scans.py:324-362 keeps an
\* old row or opens a new one, never both).
OpenChangesDistinct ==
  \A row, other \in OpenChanges :
    row.column = other.column /\ row.kind = other.kind => row = other

Accepted == {row \in changes : row.state = "ACCEPTED"}

\* Every baseline version but the first is one accepted change and every
\* accepted change is one version: two operators who accept the same row, or
\* rows of the same page, cannot both succeed (changes.py:46-47, 72-73).
VersionCountsAcceptances == version = 1 + Cardinality(Accepted)

\* What an acceptance modifies is the baseline its operator was looking at:
\* the version number stands for the content (changes.py:46, dashboard.py:177).
\* A page shown before there was any baseline is the exception.
AcceptsWhatWasDisplayed ==
  \A a \in Acceptances :
    accept[a].pc = "holding" /\ accept[a].seen # NoColumns =>
      accept[a].seen = baseline

\* A scan has deliveries in the outbox exactly when it failed or opened a
\* change of WARNING or more, one for every channel: no alert is lost with a
\* rollback and none is queued for a scan that found nothing new
\* (scans.py:334-364, 381).
OutboxMatchesScans ==
  outbox = {r \in Scans : \/ runs[r] = "FAILED"
                          \/ \E row \in changes : row.scan = r /\ row.severity # "INFO"}
             \X Channels

ScanWaits(r) == scan[r].pc = "locked" /\ forUpdate # Nobody

AcceptWaits(a) == accept[a].pc = "found" /\ ~SourceLockFree

\* The requests at work never all wait: scans take the source's advisory lock and
\* then its row, acceptances the row alone, and whoever ends, fails or dies gives
\* both back (scans.py:221-235, changes.py:132-134).
NotEverybodyWaits ==
  \/ \E r \in Scans : scan[r].pc \in ScanWorking /\ ~ScanWaits(r)
  \/ \E a \in Acceptances : accept[a].pc \in AcceptWorking /\ ~AcceptWaits(a)
  \/ /\ \A r \in Scans : scan[r].pc \notin ScanWorking
     /\ \A a \in Acceptances : accept[a].pc \notin AcceptWorking

-----------------------------------------------------------------------------
(* Why the safety properties hold: an inductive invariant. *)

\* Who holds a lock is where it should be in its handler, and the two locks on
\* the data_sources row exclude each other.
LockDiscipline ==
  /\ \A r \in Scans : advisory = r <=> scan[r].pc \in ScanWorking
  /\ \A r \in Scans : r \in keyShare <=> scan[r].pc \in ScanWorking \ {"locked"}
  /\ \A a \in Acceptances : forUpdate = a <=> accept[a].pc = "holding"
  /\ keyShare # {} => forUpdate = Nobody

\* A scan has rows only once it is COMPLETED, and each of them once.
RowsOfCompletedScans ==
  /\ \A row \in changes : runs[row.scan] = "COMPLETED"
  /\ \A r \in Scans : scan[r].pc \in {"idle"} \union ScanWorking => runs[r] = "NONE"
  /\ \A row, other \in changes : SameRow(row, other) => row = other

\* What a scan is about to write has one change of a kind for a column.
DiffDistinct ==
  \A r \in Scans : scan[r].pc \in {"diffed", "reconciling"} =>
    \A c, d \in scan[r].diff : c.column = d.column /\ c.kind = d.kind => c = d

\* A page is as old as its version says, and a request whose row was accepted
\* by somebody else carries a version that is already too old.
PageOf(a) ==
  LET request == accept[a]
  IN  /\ request.version <= version
      /\ request.version = version /\ request.seen # NoColumns =>
           request.seen = baseline
      /\ request.pc = "holding" => request.version = version
      /\ request.pc \in {"found", "holding"} =>
           \A row \in Accepted :
             SameRow(row, request.target) => request.version < version
      /\ request.pc \in AcceptWorking =>
           \E row \in changes : SameRow(row, request.target)

PageIsCurrentOrStale == \A a \in Acceptances : PageOf(a)

Inductive ==
  /\ LockDiscipline
  /\ ScanReadsStayCurrent
  /\ RowsOfCompletedScans
  /\ DiffDistinct
  /\ OpenChangesDistinct
  /\ PageIsCurrentOrStale

-----------------------------------------------------------------------------
(* What a step may never do. *)

\* The history of changes only grows, and an accepted change stays accepted:
\* no scan resolves or reopens it (scans.py:324-332, 359-362).
AcceptedIsFinal ==
  [][\A row \in changes :
       \E next \in changes' :
         /\ SameRow(next, row)
         /\ row.state = "ACCEPTED" => next = row]_vars

\* When a drift scan commits, the open changes are what it found, no more and
\* no less, although it only adds the new and resolves the vanished ones
\* (scans.py:333-362).
OpenChangesAreTheDrift ==
  [][\A r \in Scans :
       CompleteDriftScan(r) =>
         {Fingerprint(row) : row \in OpenChanges'} =
           {Fingerprint(c) : c \in scan[r].diff}]_vars

-----------------------------------------------------------------------------
(* The abstract specification. *)

Contract == INSTANCE DriftContract WITH
  Lineages <- SUBSET Columns,
  open     <- {Fingerprint(row) : row \in OpenChanges},
  reported <- {Fingerprint(row) : row \in changes}

\* Every scan that commits and every acceptance acts on the baseline and its
\* open changes as one indivisible operation of DriftContract, and no other
\* statement of any request is visible there (scans.py:292-366,
\* changes.py:36-73).
ImplementsContract == Contract!Spec

-----------------------------------------------------------------------------
(* Liveness, under Fairness. *)

\* A scan that got the advisory lock is answered, and so gives it back:
\* neither an acceptance nor another scan can block it for good.
ScanAnsweredEventually ==
  \A r \in Scans : scan[r].pc \in ScanWorking ~> scan[r].pc \in ScanAnswered

\* A submitted acceptance is answered: it waits for the source row, whose
\* holders never wait for it.
AcceptAnsweredEventually ==
  \A a \in Acceptances :
    accept[a].pc \in AcceptWorking ~> accept[a].pc \in AcceptAnswered

-----------------------------------------------------------------------------
(* What the documentation says and the code does not do. *)

\* docs/architecture.md:164 -- a change whose source returned to the baseline
\* is RESOLVED; no later acceptance can concern it.
ResolvedIsFinal ==
  [][\A row \in changes :
       row.state = "RESOLVED" =>
         \E next \in changes' : SameRow(next, row) /\ next.state = "RESOLVED"]_vars

\* design:103 -- a change is RESOLVED when the schema returns to the baseline
\* state; a scan that still observes what the row reports does not resolve it.
PersistingDriftIsNotResolved ==
  [][\A r \in Scans :
       CompleteDriftScan(r) =>
         \A row \in Vanished(r) : scan[r].observed[row.column] # row.after]_vars
=============================================================================
