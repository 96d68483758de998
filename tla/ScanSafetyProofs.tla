--------------------------- MODULE ScanSafetyProofs ---------------------------
(***************************************************************************)
(* Type correctness and the safety of the baseline, for every number of    *)
(* scans, acceptances and columns, from the named assumptions on the       *)
(* constants alone.  The invariant Inductive of ScanLifecycle is preserved *)
(* by each of its parts in turn; the properties of interest follow from it.*)
(***************************************************************************)
EXTENDS ScanLifecycle, SchemaPolicyProofs, FiniteSetTheorems, TLAPS

-----------------------------------------------------------------------------
(* Type correctness. *)

\* A fresh or answered request has the shape of a request.
LEMMA RecordTypes ==
  /\ \A pc \in ScanAnswered \union {"idle"} : ScanRecord(pc) \in ScanRequest
  /\ \A pc \in AcceptAnswered \union {"idle"} : AcceptRecord(pc) \in AcceptRequest
BY NoColumnsType
DEF ScanRecord, ScanRequest, AcceptRecord, AcceptRequest, AcceptWorking, AcceptAnswered

\* The end of a scan keeps the types of the locks and the requests.
LEMMA EndScanType ==
  ASSUME TypeOK, NEW r \in Scans, NEW answer \in ScanAnswered, EndScan(r, answer)
  PROVE  /\ advisory' \in Scans \union {Nobody}
         /\ keyShare' \subseteq Scans
         /\ forUpdate' \in Acceptances \union {Nobody}
         /\ scan' \in [Scans -> ScanRequest]
         /\ accept' \in [Acceptances -> AcceptRequest]
         /\ sync' \in [Syncs -> SyncRequest]
BY RecordTypes DEF TypeOK, EndScan

\* The end of an acceptance keeps the types of the locks and the requests.
LEMMA EndAcceptType ==
  ASSUME TypeOK, NEW a \in Acceptances, NEW answer \in AcceptAnswered,
         EndAccept(a, answer)
  PROVE  /\ advisory' \in Scans \union {Nobody}
         /\ keyShare' \subseteq Scans
         /\ forUpdate' \in Acceptances \union {Nobody}
         /\ scan' \in [Scans -> ScanRequest]
         /\ accept' \in [Acceptances -> AcceptRequest]
         /\ sync' \in [Syncs -> SyncRequest]
BY RecordTypes DEF TypeOK, EndAccept

\* A change row stays one in any of its states.
LEMMA RowStateType ==
  ASSUME NEW row \in ChangeRow, NEW state \in ChangeStates
  PROVE  [row EXCEPT !.state = state] \in ChangeRow
BY DEF ChangeRow

\* Resolving rows keeps them change rows.
LEMMA ResolveType ==
  ASSUME NEW row \in ChangeRow, NEW vanished
  PROVE  Resolve(row, vanished) \in ChangeRow
BY RowStateType DEF Resolve, ChangeStates

\* Accepting a row keeps it a change row.
LEMMA MarkAcceptedType ==
  ASSUME NEW row \in ChangeRow, NEW target
  PROVE  MarkAccepted(row, target) \in ChangeRow
BY RowStateType DEF MarkAccepted, ChangeStates

\* What a scan found and had no open row for becomes a change row.
LEMMA NewRowType ==
  ASSUME TypeOK, NEW r \in Scans, NEW c \in NewChanges(r)
  PROVE  NewRow(r, c) \in ChangeRow
<1>1. c \in SchemaChange
  BY DEF TypeOK, ScanRequest, NewChanges
<1> QED
  BY <1>1 DEF TypeOK, NewRow, SchemaChange, ChangeRow, ChangeStates

\* The first state is typed.
LEMMA TypeInit == Init => TypeOK
BY NoColumnsType, RecordTypes DEF Init, TypeOK, SyncRequest

\* Every step keeps the types.
LEMMA TypeNext == TypeOK /\ [Next]_vars => TypeOK'
<1> SUFFICES ASSUME TypeOK, [Next]_vars PROVE TypeOK'
  OBVIOUS
<1> USE DEF store, locks
<1>0. /\ scan \in [Scans -> ScanRequest]
      /\ accept \in [Acceptances -> AcceptRequest]
  BY DEF TypeOK
<1>1. ASSUME NEW r \in Scans, ScanArrives(r) PROVE TypeOK'
  <2>1. CASE RejectUnknownSource(r) \/ AlreadyRunning(r)
    BY <2>1, RecordTypes
    DEF RejectUnknownSource, AlreadyRunning, TypeOK, ScanAnswered
  <2>2. CASE TryLock(r)
    BY <2>2 DEF TryLock, TypeOK, ScanRequest, ScanWorking
  <2> QED
    BY <1>1, <2>1, <2>2 DEF ScanArrives
<1>2. ASSUME NEW r \in Scans, ScanStep(r) PROVE TypeOK'
  <2>0. scan[r] \in ScanRequest
    BY <1>0
  <2>1. CASE CreateRunningScan(r)
    BY <2>1 DEF CreateRunningScan, TypeOK, ScanRequest, ScanWorking
  <2>2. CASE Collect(r)
    <3>1. PICK snapshot \in Schemas :
            scan' = [scan EXCEPT ![r].pc = "collected", ![r].observed = snapshot]
      BY <2>2, LifecycleAssumption DEF Collect
    <3> DEFINE collected == [scan[r] EXCEPT !.pc = "collected", !.observed = snapshot]
    <3>2. collected \in ScanRequest
      BY <2>0 DEF ScanRequest, ScanWorking
    <3>3. scan' = [scan EXCEPT ![r] = collected]
      BY <3>1, <1>0
    <3>4. scan' \in [Scans -> ScanRequest]
      BY <3>2, <3>3, <1>0
    <3> QED
      BY <2>2, <3>4 DEF Collect, TypeOK
  <2>3. CASE FailScan(r)
    BY <2>3, EndScanType DEF FailScan, TypeOK, ScanAnswered
  <2>4. CASE LoadExpectedColumns(r)
    <3> DEFINE loaded == [scan[r] EXCEPT !.pc = "loaded", !.expected = baseline]
    <3>1. loaded \in ScanRequest
      BY <2>0 DEF TypeOK, ScanRequest, ScanWorking
    <3>2. scan' = [scan EXCEPT ![r] = loaded]
      BY <2>4, <1>0 DEF LoadExpectedColumns
    <3>3. scan' \in [Scans -> ScanRequest]
      BY <3>1, <3>2, <1>0
    <3> QED
      BY <2>4, <3>3 DEF LoadExpectedColumns, TypeOK
  <2>5. CASE CompleteInitialBaseline(r)
    <3>1. scan[r].observed \in Schemas
      BY DEF TypeOK, ScanRequest
    <3>2. baseline' \in Schemas
      BY <2>5, <3>1 DEF CompleteInitialBaseline, TypeOK, Schemas
    <3>3. datasets' \subseteq Datasets
      BY <2>5, LifecycleAssumption DEF CompleteInitialBaseline, TypeOK, ColumnsOf
    <3> QED
      BY <2>5, <3>2, <3>3, EndScanType
      DEF CompleteInitialBaseline, TypeOK, ScanAnswered
  <2>6. CASE LoadDependencyColumns(r)
    <3>1. DiffColumns(scan[r].expected, scan[r].observed, lineage)
            \subseteq SchemaChange
      BY DiffType DEF TypeOK, ScanRequest
    <3> DEFINE diffed == [scan[r] EXCEPT !.pc = "diffed",
              !.diff = DiffColumns(scan[r].expected, scan[r].observed, lineage)]
    <3>2. diffed \in ScanRequest
      BY <2>0, <3>1 DEF ScanRequest, ScanWorking
    <3>3. scan' = [scan EXCEPT ![r] = diffed]
      BY <2>6, <1>0 DEF LoadDependencyColumns
    <3>4. scan' \in [Scans -> ScanRequest]
      BY <3>2, <3>3, <1>0
    <3> QED
      BY <2>6, <3>4 DEF LoadDependencyColumns, TypeOK
  <2>7. CASE ReadOpenChanges(r)
    <3> DEFINE reconciling == [scan[r] EXCEPT !.pc = "reconciling", !.open = OpenChanges]
    <3>1. OpenChanges \subseteq ChangeRow
      BY DEF TypeOK, OpenChanges
    <3>2. reconciling \in ScanRequest
      BY <2>0, <3>1 DEF ScanRequest, ScanWorking
    <3>3. scan' = [scan EXCEPT ![r] = reconciling]
      BY <2>7, <1>0 DEF ReadOpenChanges
    <3>4. scan' \in [Scans -> ScanRequest]
      BY <3>2, <3>3, <1>0
    <3> QED
      BY <2>7, <3>4 DEF ReadOpenChanges, TypeOK
  <2>8. CASE CompleteDriftScan(r)
    BY <2>8, ResolveType, NewRowType, EndScanType DEF CompleteDriftScan, TypeOK, ScanAnswered
  <2>9. CASE BaselineDatasetNotFound(r)
    BY <2>9, EndScanType DEF BaselineDatasetNotFound, TypeOK, ScanAnswered
  <2> QED
    BY <1>2, <2>1, <2>2, <2>3, <2>4, <2>5, <2>6, <2>7, <2>8, <2>9 DEF ScanStep
<1>3. ASSUME NEW r \in Scans, CrashScan(r) PROVE TypeOK'
  BY <1>3, EndScanType DEF CrashScan, TypeOK, ScanAnswered
<1>4. ASSUME NEW a \in Acceptances, OperatorStep(a) PROVE TypeOK'
  <2>1. CASE ReadPageVersion(a)
    <3> DEFINE page == [accept[a] EXCEPT !.pc = "viewing", !.version = version,
                                         !.seen = baseline]
    <3>a. page \in AcceptRequest
      BY DEF TypeOK, AcceptRequest, AcceptWorking
    <3>b. accept' = [accept EXCEPT ![a] = page]
      BY <2>1 DEF ReadPageVersion, TypeOK
    <3>1. accept' \in [Acceptances -> AcceptRequest]
      BY <3>a, <3>b DEF TypeOK
    <3> QED
      BY <2>1, <3>1 DEF ReadPageVersion, TypeOK
  <2>2. CASE SubmitChange(a)
    <3>1. PICK row \in OpenChanges :
            accept' = [accept EXCEPT ![a].pc = "submitted", ![a].target = row]
      BY <2>2 DEF SubmitChange
    <3>2. row \in ChangeRow
      BY DEF TypeOK, OpenChanges
    <3> DEFINE sent == [accept[a] EXCEPT !.pc = "submitted", !.target = row]
    <3>3. sent \in AcceptRequest
      BY <1>0, <3>2 DEF AcceptRequest, AcceptWorking
    <3>4. accept' = [accept EXCEPT ![a] = sent]
      BY <3>1, <1>0
    <3>5. accept' \in [Acceptances -> AcceptRequest]
      BY <3>3, <3>4, <1>0
    <3> QED
      BY <2>2, <3>5 DEF SubmitChange, TypeOK
  <2>3. CASE LeavePage(a)
    BY <2>3, EndAcceptType DEF LeavePage, TypeOK, AcceptAnswered
  <2> QED
    BY <1>4, <2>1, <2>2, <2>3 DEF OperatorStep
<1>5. ASSUME NEW a \in Acceptances, AcceptStep(a) PROVE TypeOK'
  <2>1. CASE ReadOpenChange(a)
    BY <2>1 DEF ReadOpenChange, TypeOK, AcceptRequest, AcceptWorking
  <2>2. CASE ChangeNotFound(a)
    BY <2>2, EndAcceptType DEF ChangeNotFound, TypeOK, AcceptAnswered
  <2>3. CASE LockSource(a)
    BY <2>3 DEF LockSource, TypeOK, AcceptRequest, AcceptWorking
  <2>4. CASE BaselineVersionConflict(a)
    BY <2>4, EndAcceptType DEF BaselineVersionConflict, TypeOK, AcceptAnswered
  <2>5. CASE ApplyAcceptance(a)
    <3> DEFINE target == accept[a].target
    <3>1. target \in ChangeRow
      BY <2>5 DEF ApplyAcceptance, TypeOK, AcceptRequest, AcceptWorking
    <3>2. baseline' \in Schemas
      <4>1. /\ target.column \in Columns /\ target.kind \in ChangeTypes
            /\ target.before \in ColumnDefinition \union {Absent}
            /\ target.after \in ColumnDefinition \union {Absent}
            /\ Reports(target.kind, target.before, target.after)
        BY <3>1 DEF ChangeRow
      <4>2. ~CannotApply(target, baseline) /\ baseline' = ApplyChange(target, baseline)
        BY <2>5 DEF ApplyAcceptance
      <4> QED
        BY <4>1, <4>2, ApplyType DEF TypeOK
    <3>3. changes' \subseteq ChangeRow
      BY <2>5, MarkAcceptedType DEF ApplyAcceptance, TypeOK
    <3> QED
      BY <2>5, <3>2, <3>3, EndAcceptType DEF ApplyAcceptance, TypeOK, AcceptAnswered
  <2>6. CASE ApplyFails(a)
    BY <2>6, EndAcceptType DEF ApplyFails, TypeOK, AcceptAnswered
  <2> QED
    BY <1>5, <2>1, <2>2, <2>3, <2>4, <2>5, <2>6 DEF AcceptStep
<1>6. ASSUME NEW a \in Acceptances, CrashAccept(a) PROVE TypeOK'
  BY <1>6, EndAcceptType DEF CrashAccept, TypeOK, AcceptAnswered
<1>7. ASSUME NEW s \in Syncs, ValidateCatalog(s) \/ ReplaceCatalog(s) PROVE TypeOK'
  BY <1>7, LifecycleAssumption DEF ValidateCatalog, ReplaceCatalog, TypeOK, SyncRequest
<1>8. CASE UNCHANGED vars
  BY <1>8 DEF vars, TypeOK
<1> QED
  BY <1>1, <1>2, <1>3, <1>4, <1>5, <1>6, <1>7, <1>8 DEF Next, Terminated

\* Every variable keeps its type, the well-formedness of change rows and the
\* shape of each request's record included, in every run of any size.
THEOREM TypeCorrect == Spec => []TypeOK
BY TypeInit, TypeNext, PTL DEF Spec

-----------------------------------------------------------------------------
(* The locks. *)

\* A scan that ends had the advisory lock and gives back all it had.
LEMMA EndScanLocks ==
  ASSUME TypeOK, LockDiscipline, NEW r \in Scans, scan[r].pc \in ScanWorking,
         NEW answer \in ScanAnswered, EndScan(r, answer)
  PROVE  LockDiscipline'
<1>1. advisory = r /\ r # Nobody
  BY LifecycleAssumption DEF LockDiscipline
<1>2. scan'[r].pc = answer /\ answer \notin ScanWorking
  BY DEF TypeOK, EndScan, ScanRecord, ScanAnswered, ScanWorking
<1>3. \A q \in Scans \ {r} : scan'[q] = scan[q] /\ scan[q].pc \notin ScanWorking
  BY <1>1 DEF TypeOK, EndScan, LockDiscipline
<1> QED
  BY <1>1, <1>2, <1>3, LifecycleAssumption DEF EndScan, LockDiscipline

\* An acceptance that ends gives back the source row if it held it.
LEMMA EndAcceptLocks ==
  ASSUME TypeOK, LockDiscipline, NEW a \in Acceptances,
         NEW answer \in AcceptAnswered, EndAccept(a, answer)
  PROVE  LockDiscipline'
<1>1. accept'[a].pc = answer /\ answer # "holding"
  BY DEF TypeOK, EndAccept, AcceptRecord, AcceptAnswered
<1>2. \A b \in Acceptances \ {a} : accept'[b] = accept[b]
  BY DEF TypeOK, EndAccept
<1> QED
  BY <1>1, <1>2, LifecycleAssumption DEF EndAccept, LockDiscipline

\* No step leaves a lock with a request that is past it, or gives the source row
\* to a scan and an acceptance at once.
LEMMA LockDisciplineNext ==
  TypeOK /\ LockDiscipline /\ [Next]_vars => LockDiscipline'
<1> SUFFICES ASSUME TypeOK, LockDiscipline, [Next]_vars PROVE LockDiscipline'
  OBVIOUS
<1> USE DEF store, locks
<1>1. ASSUME NEW r \in Scans, ScanArrives(r) PROVE LockDiscipline'
  <2>1. CASE RejectUnknownSource(r) \/ AlreadyRunning(r)
    <3>1. scan'[r].pc \notin ScanWorking /\ scan[r].pc \notin ScanWorking
      BY <2>1 DEF RejectUnknownSource, AlreadyRunning, TypeOK, ScanRecord, ScanWorking
    <3>2. \A q \in Scans \ {r} : scan'[q] = scan[q]
      BY <2>1 DEF RejectUnknownSource, AlreadyRunning, TypeOK
    <3> QED
      BY <2>1, <3>1, <3>2
      DEF RejectUnknownSource, AlreadyRunning, LockDiscipline
  <2>2. CASE TryLock(r)
    <3>1. scan'[r].pc = "locked" /\ scan[r].pc \notin ScanWorking
      BY <2>2 DEF TryLock, TypeOK, ScanRequest, ScanWorking
    <3>2. \A q \in Scans \ {r} : scan'[q] = scan[q] /\ scan[q].pc \notin ScanWorking
      BY <2>2, LifecycleAssumption DEF TryLock, TypeOK, LockDiscipline
    <3> QED
      BY <2>2, <3>1, <3>2 DEF TryLock, LockDiscipline, ScanWorking
  <2> QED
    BY <1>1, <2>1, <2>2 DEF ScanArrives
<1>2. ASSUME NEW r \in Scans, ScanStep(r) PROVE LockDiscipline'
  <2>1. CASE CreateRunningScan(r)
    <3>1. scan'[r].pc = "running" /\ scan[r].pc = "locked"
      BY <2>1 DEF CreateRunningScan, TypeOK, ScanRequest
    <3>2. \A q \in Scans \ {r} : scan'[q] = scan[q]
      BY <2>1 DEF CreateRunningScan, TypeOK
    <3> QED
      BY <2>1, <3>1, <3>2 DEF CreateRunningScan, LockDiscipline, ScanWorking
  <2>2. CASE \/ Collect(r) \/ LoadExpectedColumns(r) \/ LoadDependencyColumns(r)
             \/ ReadOpenChanges(r)
    <3>1. /\ scan'[r].pc \in ScanWorking \ {"locked"}
          /\ scan[r].pc \in ScanWorking \ {"locked"}
      BY <2>2 DEF Collect, LoadExpectedColumns, LoadDependencyColumns,
                  ReadOpenChanges, TypeOK, ScanRequest, ScanWorking
    <3>2. \A q \in Scans \ {r} : scan'[q] = scan[q]
      BY <2>2 DEF Collect, LoadExpectedColumns, LoadDependencyColumns,
                  ReadOpenChanges, TypeOK
    <3>3. UNCHANGED <<locks, accept>>
      BY <2>2 DEF Collect, LoadExpectedColumns, LoadDependencyColumns, ReadOpenChanges
    <3> QED
      BY <3>1, <3>2, <3>3 DEF LockDiscipline
  <2>3. CASE FailScan(r) \/ CompleteInitialBaseline(r)
             \/ CompleteDriftScan(r) \/ BaselineDatasetNotFound(r)
    <3>1. scan[r].pc \in ScanWorking
      BY <2>3 DEF FailScan, CompleteInitialBaseline, CompleteDriftScan,
                  BaselineDatasetNotFound, ScanWorking
    <3>2. \E answer \in ScanAnswered : EndScan(r, answer)
      BY <2>3 DEF FailScan, CompleteInitialBaseline, CompleteDriftScan,
                  BaselineDatasetNotFound, ScanAnswered
    <3> QED
      BY <3>1, <3>2, EndScanLocks
  <2> QED
    BY <1>2, <2>1, <2>2, <2>3 DEF ScanStep
<1>3. ASSUME NEW r \in Scans, CrashScan(r) PROVE LockDiscipline'
  BY <1>3, EndScanLocks DEF CrashScan, ScanAnswered
<1>4. ASSUME NEW a \in Acceptances, OperatorStep(a) \/ AcceptStep(a) \/ CrashAccept(a)
      PROVE  LockDiscipline'
  <2>1. CASE LockSource(a)
    <3>1. accept'[a].pc = "holding"
      BY <2>1 DEF LockSource, TypeOK, AcceptRequest
    <3>2. \A b \in Acceptances \ {a} : accept'[b] = accept[b]
      BY <2>1 DEF LockSource, TypeOK
    <3>3. \A b \in Acceptances : accept[b].pc # "holding"
      BY <2>1, LifecycleAssumption DEF LockSource, SourceLockFree, LockDiscipline
    <3> QED
      BY <2>1, <3>1, <3>2, <3>3 DEF LockSource, SourceLockFree, LockDiscipline
  <2>2. CASE ReadPageVersion(a) \/ SubmitChange(a) \/ ReadOpenChange(a)
    <3>1. accept'[a].pc # "holding" /\ accept[a].pc # "holding"
      BY <2>2 DEF ReadPageVersion, SubmitChange, ReadOpenChange, TypeOK, AcceptRequest
    <3>2. \A b \in Acceptances \ {a} : accept'[b] = accept[b]
      BY <2>2 DEF ReadPageVersion, SubmitChange, ReadOpenChange, TypeOK
    <3> QED
      BY <2>2, <3>1, <3>2
      DEF ReadPageVersion, SubmitChange, ReadOpenChange, LockDiscipline
  <2>3. CASE \/ LeavePage(a) \/ ChangeNotFound(a) \/ BaselineVersionConflict(a)
             \/ ApplyAcceptance(a) \/ ApplyFails(a) \/ CrashAccept(a)
    <3>1. \E answer \in AcceptAnswered : EndAccept(a, answer)
      BY <2>3 DEF LeavePage, ChangeNotFound, BaselineVersionConflict,
                  ApplyAcceptance, ApplyFails, CrashAccept, AcceptAnswered
    <3> QED
      BY <3>1, EndAcceptLocks
  <2> QED
    BY <1>4, <2>1, <2>2, <2>3 DEF OperatorStep, AcceptStep
<1>5. ASSUME NEW s \in Syncs, ValidateCatalog(s) \/ ReplaceCatalog(s)
      PROVE  LockDiscipline'
  BY <1>5 DEF ValidateCatalog, ReplaceCatalog, LockDiscipline
<1>6. CASE UNCHANGED vars
  BY <1>6 DEF vars, LockDiscipline
<1> QED
  BY <1>1, <1>2, <1>3, <1>4, <1>5, <1>6 DEF Next, Terminated

-----------------------------------------------------------------------------
(* What a scan has read stays current. *)

\* A step that leaves the baseline and the changes alone needs to be looked at
\* only for the scan that took it.
LEMMA OtherScansStayCurrent ==
  ASSUME ScanReadsStayCurrent, UNCHANGED <<baseline, changes>>, NEW r \in Scans,
         \A q \in Scans \ {r} : scan'[q] = scan[q],
         scan'[r].pc \in {"loaded", "diffed", "reconciling"} =>
           scan'[r].expected = baseline,
         scan'[r].pc = "reconciling" => scan'[r].open = OpenChanges
  PROVE  ScanReadsStayCurrent'
BY DEF ScanReadsStayCurrent, OpenChanges

\* The end of a scan leaves no other scan of the source at work.
LEMMA EndScanLeavesNoReader ==
  ASSUME TypeOK, LockDiscipline, NEW r \in Scans, scan[r].pc \in ScanWorking,
         NEW answer \in ScanAnswered, EndScan(r, answer)
  PROVE  \A q \in Scans : scan'[q].pc \notin ScanWorking
<1>1. advisory = r
  BY DEF LockDiscipline
<1>2. scan'[r].pc = answer /\ answer \notin ScanWorking
  BY DEF TypeOK, EndScan, ScanRecord, ScanAnswered, ScanWorking
<1>3. \A q \in Scans \ {r} : scan'[q] = scan[q] /\ scan[q].pc \notin ScanWorking
  BY <1>1 DEF TypeOK, EndScan, LockDiscipline
<1> QED
  BY <1>2, <1>3

\* Nobody changes the baseline or the open changes under a scan: the other scans
\* lack the advisory lock, and an acceptance waits for KEY SHARE.
LEMMA ScanReadsStayCurrentNext ==
  TypeOK /\ LockDiscipline /\ ScanReadsStayCurrent /\ [Next]_vars
    => ScanReadsStayCurrent'
<1> SUFFICES ASSUME TypeOK, LockDiscipline, ScanReadsStayCurrent, [Next]_vars
             PROVE  ScanReadsStayCurrent'
  OBVIOUS
<1> USE DEF store, locks
<1>1. ASSUME NEW r \in Scans, ScanArrives(r) PROVE ScanReadsStayCurrent'
  <2>1. scan'[r].pc \in {"404", "409", "locked"}
    BY <1>1 DEF ScanArrives, RejectUnknownSource, AlreadyRunning, TryLock,
                TypeOK, ScanRequest, ScanRecord
  <2>2. \A q \in Scans \ {r} : scan'[q] = scan[q]
    BY <1>1 DEF ScanArrives, RejectUnknownSource, AlreadyRunning, TryLock, TypeOK
  <2>3. UNCHANGED <<baseline, changes>>
    BY <1>1 DEF ScanArrives, RejectUnknownSource, AlreadyRunning, TryLock
  <2> QED
    BY <2>1, <2>2, <2>3, OtherScansStayCurrent
<1>2. ASSUME NEW r \in Scans, ScanStep(r) PROVE ScanReadsStayCurrent'
  <2>1. CASE CreateRunningScan(r) \/ Collect(r)
    <3>1. scan'[r].pc \in {"running", "collected"}
      BY <2>1 DEF CreateRunningScan, Collect, TypeOK, ScanRequest
    <3>2. \A q \in Scans \ {r} : scan'[q] = scan[q]
      BY <2>1 DEF CreateRunningScan, Collect, TypeOK
    <3>3. UNCHANGED <<baseline, changes>>
      BY <2>1 DEF CreateRunningScan, Collect
    <3> QED
      BY <3>1, <3>2, <3>3, OtherScansStayCurrent
  <2>2. CASE LoadExpectedColumns(r)
    <3>1. scan'[r].pc = "loaded" /\ scan'[r].expected = baseline
      BY <2>2 DEF LoadExpectedColumns, TypeOK, ScanRequest
    <3>2. \A q \in Scans \ {r} : scan'[q] = scan[q]
      BY <2>2 DEF LoadExpectedColumns, TypeOK
    <3> QED
      BY <2>2, <3>1, <3>2, OtherScansStayCurrent DEF LoadExpectedColumns
  <2>3. CASE LoadDependencyColumns(r)
    <3>1. scan'[r].pc = "diffed" /\ scan'[r].expected = scan[r].expected
      BY <2>3 DEF LoadDependencyColumns, TypeOK, ScanRequest
    <3>2. scan[r].expected = baseline
      BY <2>3 DEF LoadDependencyColumns, ScanReadsStayCurrent
    <3>3. \A q \in Scans \ {r} : scan'[q] = scan[q]
      BY <2>3 DEF LoadDependencyColumns, TypeOK
    <3> QED
      BY <2>3, <3>1, <3>2, <3>3, OtherScansStayCurrent DEF LoadDependencyColumns
  <2>4. CASE ReadOpenChanges(r)
    <3>1. /\ scan'[r].pc = "reconciling" /\ scan'[r].open = OpenChanges
          /\ scan'[r].expected = scan[r].expected
      BY <2>4 DEF ReadOpenChanges, TypeOK, ScanRequest
    <3>2. scan[r].expected = baseline
      BY <2>4 DEF ReadOpenChanges, ScanReadsStayCurrent
    <3>3. \A q \in Scans \ {r} : scan'[q] = scan[q]
      BY <2>4 DEF ReadOpenChanges, TypeOK
    <3> QED
      BY <2>4, <3>1, <3>2, <3>3, OtherScansStayCurrent DEF ReadOpenChanges
  <2>5. CASE FailScan(r) \/ CompleteInitialBaseline(r)
             \/ CompleteDriftScan(r) \/ BaselineDatasetNotFound(r)
    <3>1. /\ scan[r].pc \in ScanWorking
          /\ \E answer \in ScanAnswered : EndScan(r, answer)
      BY <2>5 DEF FailScan, CompleteInitialBaseline, CompleteDriftScan,
                  BaselineDatasetNotFound, ScanWorking, ScanAnswered
    <3>2. \A q \in Scans : scan'[q].pc \notin ScanWorking
      BY <3>1, EndScanLeavesNoReader
    <3> QED
      BY <3>2 DEF ScanReadsStayCurrent, ScanWorking
  <2> QED
    BY <1>2, <2>1, <2>2, <2>3, <2>4, <2>5 DEF ScanStep
<1>3. ASSUME NEW r \in Scans, CrashScan(r) PROVE ScanReadsStayCurrent'
  <2>1. \A q \in Scans : scan'[q].pc \notin ScanWorking
    BY <1>3, EndScanLeavesNoReader DEF CrashScan, ScanAnswered
  <2> QED
    BY <2>1 DEF ScanReadsStayCurrent, ScanWorking
<1>4. ASSUME NEW a \in Acceptances, ApplyAcceptance(a) PROVE ScanReadsStayCurrent'
  \* The acceptance holds FOR UPDATE, so no scan holds KEY SHARE.
  <2>1. forUpdate = a /\ keyShare = {}
    BY <1>4, LifecycleAssumption DEF ApplyAcceptance, LockDiscipline
  <2>2. \A q \in Scans : scan[q].pc \notin {"loaded", "diffed", "reconciling"}
    BY <2>1 DEF LockDiscipline, ScanWorking
  <2>3. scan' = scan
    BY <1>4 DEF ApplyAcceptance, EndAccept
  <2> QED
    BY <2>2, <2>3 DEF ScanReadsStayCurrent
<1>5. CASE UNCHANGED <<baseline, changes, scan>>
  BY <1>5 DEF ScanReadsStayCurrent, OpenChanges
<1>6. ASSUME NEW a \in Acceptances,
             OperatorStep(a) \/ AcceptStep(a) \/ CrashAccept(a)
      PROVE  ApplyAcceptance(a) \/ UNCHANGED <<baseline, changes, scan>>
  BY <1>6 DEF OperatorStep, ReadPageVersion, SubmitChange, LeavePage, AcceptStep,
              ReadOpenChange, ChangeNotFound, LockSource, BaselineVersionConflict,
              ApplyFails, CrashAccept, EndAccept
<1>7. ASSUME NEW s \in Syncs, ValidateCatalog(s) \/ ReplaceCatalog(s)
      PROVE  UNCHANGED <<baseline, changes, scan>>
  BY <1>7 DEF ValidateCatalog, ReplaceCatalog
<1>8. UNCHANGED vars => UNCHANGED <<baseline, changes, scan>>
  BY DEF vars
<1> QED
  BY <1>1, <1>2, <1>3, <1>4, <1>5, <1>6, <1>7, <1>8 DEF Next, Terminated

-----------------------------------------------------------------------------
(* The changes of a diff and the rows they become. *)

\* A diff reports a kind of change once for a column.
LEMMA DiffColumnsDistinct ==
  ASSUME NEW expected, NEW observed, NEW deps,
         NEW c \in DiffColumns(expected, observed, deps),
         NEW d \in DiffColumns(expected, observed, deps),
         c.column = d.column, c.kind = d.kind
  PROVE  c = d
BY DEF DiffColumns, CompareColumn

\* Resolving and accepting change nothing of a row but its state.
LEMMA RowsKeepIdentity ==
  ASSUME NEW row \in ChangeRow
  PROVE  /\ \A vanished : SameRow(Resolve(row, vanished), row)
         /\ \A target : SameRow(MarkAccepted(row, target), row)
         /\ \A vanished : Fingerprint(Resolve(row, vanished)) = Fingerprint(row)
         /\ \A vanished : Resolve(row, vanished) = row
                            \/ Resolve(row, vanished).state = "RESOLVED"
         /\ \A target : MarkAccepted(row, target) = row
                            \/ MarkAccepted(row, target).state = "ACCEPTED"
BY DEF ChangeRow, Resolve, MarkAccepted, SameRow, Fingerprint

\* A new row is the open copy of the change it stands for.
LEMMA NewRowIs ==
  ASSUME NEW r \in Scans, NEW c \in SchemaChange
  PROVE  /\ NewRow(r, c).scan = r
         /\ NewRow(r, c).column = c.column
         /\ NewRow(r, c).kind = c.kind
         /\ NewRow(r, c).severity = c.severity
         /\ NewRow(r, c).state = "OPEN"
         /\ Fingerprint(NewRow(r, c)) = Fingerprint(c)
BY DEF NewRow, Fingerprint

\* An open row is resolved exactly when its fingerprint is not in the diff: no
\* other row has its identity.
LEMMA ResolvedRows ==
  ASSUME TypeOK, ScanReadsStayCurrent, RowsOfCompletedScans,
         NEW r \in Scans, scan[r].pc = "reconciling", NEW row \in changes
  PROVE  Resolve(row, Vanished(r)) =
           IF row \in Vanished(r) THEN [row EXCEPT !.state = "RESOLVED"] ELSE row
<1>1. Vanished(r) \subseteq changes
  BY DEF Vanished, ScanReadsStayCurrent, OpenChanges
<1>2. SameRow(row, row)
  BY DEF SameRow
<1>3. (\E gone \in Vanished(r) : SameRow(row, gone)) <=> row \in Vanished(r)
  BY <1>1, <1>2 DEF RowsOfCompletedScans
<1> QED
  BY <1>3 DEF Resolve

\* A scan carries its diff unchanged until it commits.
LEMMA DiffDistinctNext == TypeOK /\ DiffDistinct /\ [Next]_vars => DiffDistinct'
<1> SUFFICES ASSUME TypeOK, DiffDistinct, [Next]_vars PROVE DiffDistinct'
  OBVIOUS
<1> USE DEF store, locks
<1>1. ASSUME NEW r \in Scans, ScanArrives(r) \/ ScanStep(r) \/ CrashScan(r),
             ~LoadDependencyColumns(r)
      PROVE  DiffDistinct'
  <2>1. \A q \in Scans \ {r} : scan'[q] = scan[q]
    BY <1>1 DEF ScanArrives, RejectUnknownSource, AlreadyRunning, TryLock, ScanStep,
                CreateRunningScan, Collect, FailScan, LoadExpectedColumns,
                CompleteInitialBaseline, ReadOpenChanges, CompleteDriftScan,
                BaselineDatasetNotFound, CrashScan, EndScan, TypeOK
  <2>2. CASE ReadOpenChanges(r)
    <3>1. scan'[r].diff = scan[r].diff /\ scan[r].pc = "diffed"
      BY <2>2 DEF ReadOpenChanges, TypeOK, ScanRequest
    <3> QED
      BY <2>1, <3>1 DEF DiffDistinct
  <2>3. CASE ~ReadOpenChanges(r)
    <3>1. scan'[r].pc \notin {"diffed", "reconciling"}
      BY <1>1, <2>3
      DEF ScanArrives, RejectUnknownSource, AlreadyRunning, TryLock, ScanStep,
          CreateRunningScan, Collect, FailScan, LoadExpectedColumns,
          CompleteInitialBaseline, CompleteDriftScan, BaselineDatasetNotFound,
          CrashScan, EndScan, TypeOK, ScanRequest, ScanRecord
    <3> QED
      BY <2>1, <3>1 DEF DiffDistinct
  <2> QED
    BY <2>2, <2>3
<1>2. ASSUME NEW r \in Scans, LoadDependencyColumns(r) PROVE DiffDistinct'
  <2>1. \A q \in Scans \ {r} : scan'[q] = scan[q]
    BY <1>2 DEF LoadDependencyColumns, TypeOK
  <2>2. scan'[r].diff = DiffColumns(scan[r].expected, scan[r].observed, lineage)
    BY <1>2 DEF LoadDependencyColumns, TypeOK, ScanRequest
  <2>3. \A c, d \in scan'[r].diff : c.column = d.column /\ c.kind = d.kind => c = d
    BY <2>2, DiffColumnsDistinct
  <2> QED
    BY <2>1, <2>3 DEF DiffDistinct
<1>3. CASE UNCHANGED scan
  BY <1>3 DEF DiffDistinct
<1>4. ASSUME NEW a \in Acceptances,
             OperatorStep(a) \/ AcceptStep(a) \/ CrashAccept(a)
      PROVE  UNCHANGED scan
  BY <1>4 DEF OperatorStep, ReadPageVersion, SubmitChange, LeavePage, AcceptStep,
              ReadOpenChange, ChangeNotFound, LockSource, BaselineVersionConflict,
              ApplyAcceptance, ApplyFails, CrashAccept, EndAccept
<1>5. ASSUME NEW s \in Syncs, ValidateCatalog(s) \/ ReplaceCatalog(s)
      PROVE  UNCHANGED scan
  BY <1>5 DEF ValidateCatalog, ReplaceCatalog
<1>6. UNCHANGED vars => UNCHANGED scan
  BY DEF vars
<1> QED
  BY <1>1, <1>2, <1>3, <1>4, <1>5, <1>6 DEF Next, Terminated

-----------------------------------------------------------------------------
(* The rows a drift scan writes. *)

\* A row after a drift scan is an old row, resolved or not, or a new one, and
\* the two cannot be confused: the scan had no row before.
LEMMA DriftRows ==
  ASSUME TypeOK, ScanReadsStayCurrent, RowsOfCompletedScans,
         NEW r \in Scans, CompleteDriftScan(r), NEW row \in changes'
  PROVE  \/ \E old \in changes :
              /\ SameRow(row, old) /\ row.severity = old.severity
              /\ Fingerprint(row) = Fingerprint(old)
              /\ old.scan # r /\ row.scan # r
              /\ IF old \in Vanished(r) THEN row.state = "RESOLVED" ELSE row = old
         \/ \E c \in NewChanges(r) : row = NewRow(r, c) /\ c \in SchemaChange
<1>1. scan[r].pc = "reconciling" /\ runs[r] = "NONE"
  BY DEF CompleteDriftScan, RowsOfCompletedScans, ScanWorking
<1>2. CASE \E old \in changes : row = Resolve(old, Vanished(r))
  <2>1. PICK old \in changes : row = Resolve(old, Vanished(r))
    BY <1>2
  <2>2. old \in ChangeRow /\ old.scan # r
    BY <1>1 DEF TypeOK, RowsOfCompletedScans
  <2>3. row = IF old \in Vanished(r) THEN [old EXCEPT !.state = "RESOLVED"] ELSE old
    BY <1>1, <2>1, ResolvedRows
  <2>4. /\ row.scan = old.scan /\ row.column = old.column /\ row.kind = old.kind
        /\ row.severity = old.severity
        /\ row.before = old.before /\ row.after = old.after
        /\ IF old \in Vanished(r) THEN row.state = "RESOLVED" ELSE row = old
    BY <2>2, <2>3 DEF ChangeRow
  <2> QED
    BY <2>2, <2>4 DEF SameRow, Fingerprint
<1>3. CASE \E c \in NewChanges(r) : row = NewRow(r, c)
  BY <1>3 DEF NewChanges, TypeOK, ScanRequest
<1> QED
  BY <1>2, <1>3 DEF CompleteDriftScan

\* No two rows have one identity after a drift scan.
LEMMA DriftRowsDistinct ==
  ASSUME TypeOK, ScanReadsStayCurrent, RowsOfCompletedScans, DiffDistinct,
         NEW r \in Scans, CompleteDriftScan(r)
  PROVE  \A row, other \in changes' : SameRow(row, other) => row = other
<1> SUFFICES ASSUME NEW row \in changes', NEW other \in changes', SameRow(row, other)
             PROVE  row = other
  OBVIOUS
<1>1. row.scan = other.scan /\ row.column = other.column /\ row.kind = other.kind
  BY DEF SameRow
<1>2. CASE row.scan = r
  <2>1. PICK c \in NewChanges(r) : row = NewRow(r, c) /\ c \in SchemaChange
    BY <1>2, DriftRows
  <2>2. PICK d \in NewChanges(r) : other = NewRow(r, d) /\ d \in SchemaChange
    BY <1>1, <1>2, DriftRows
  <2>3. c.column = d.column /\ c.kind = d.kind
    BY <1>1, <2>1, <2>2, NewRowIs
  <2>4. c = d
    BY <2>3 DEF DiffDistinct, NewChanges, CompleteDriftScan
  <2> QED
    BY <2>1, <2>2, <2>4
<1>3. CASE row.scan # r
  <2> DEFINE Now(old) == IF old \in Vanished(r)
                         THEN [old EXCEPT !.state = "RESOLVED"] ELSE old
  <2>1. scan[r].pc = "reconciling"
    BY DEF CompleteDriftScan
  <2>2. PICK old \in changes : row = Now(old)
    <3>1. \A c \in NewChanges(r) : NewRow(r, c).scan = r
      BY DEF NewRow
    <3> QED
      BY <1>3, <2>1, <3>1, ResolvedRows DEF CompleteDriftScan
  <2>3. PICK past \in changes : other = Now(past)
    <3>1. \A c \in NewChanges(r) : NewRow(r, c).scan = r
      BY DEF NewRow
    <3> QED
      BY <1>1, <1>3, <2>1, <3>1, ResolvedRows DEF CompleteDriftScan
  <2>4. old \in ChangeRow /\ past \in ChangeRow
    BY DEF TypeOK
  <2>5. SameRow(old, row) /\ SameRow(past, other)
    BY <2>2, <2>3, <2>4 DEF ChangeRow, SameRow
  <2>6. SameRow(old, past)
    BY <1>1, <2>5 DEF SameRow
  <2>7. old = past
    BY <2>6 DEF RowsOfCompletedScans
  <2> QED
    BY <2>2, <2>3, <2>7
<1> QED
  BY <1>2, <1>3

-----------------------------------------------------------------------------
(* Who writes what. *)

\* The rows, the baseline and the outbox have four writers.
LEMMA StoreWriters ==
  ASSUME [Next]_vars
  PROVE  \/ UNCHANGED <<baseline, version, changes, runs, outbox>>
         \/ /\ \E r \in Scans :
                 FailScan(r) \/ CompleteInitialBaseline(r) \/ CompleteDriftScan(r)
            /\ UNCHANGED accept
         \/ \E a \in Acceptances : ApplyAcceptance(a)
<1> USE DEF store, locks
<1>1. ASSUME NEW r \in Scans, ScanArrives(r) \/ ScanStep(r) \/ CrashScan(r)
      PROVE  \/ UNCHANGED <<baseline, version, changes, runs, outbox>>
             \/ /\ \/ FailScan(r) \/ CompleteInitialBaseline(r)
                   \/ CompleteDriftScan(r)
                /\ UNCHANGED accept
  BY <1>1 DEF ScanArrives, RejectUnknownSource, AlreadyRunning, TryLock, ScanStep,
              CreateRunningScan, Collect, LoadExpectedColumns, LoadDependencyColumns,
              ReadOpenChanges, BaselineDatasetNotFound, CrashScan, FailScan,
              CompleteInitialBaseline, CompleteDriftScan, EndScan
<1>2. ASSUME NEW a \in Acceptances,
             OperatorStep(a) \/ AcceptStep(a) \/ CrashAccept(a)
      PROVE  \/ UNCHANGED <<baseline, version, changes, runs, outbox>>
             \/ ApplyAcceptance(a)
  BY <1>2 DEF OperatorStep, ReadPageVersion, SubmitChange, LeavePage, AcceptStep,
              ReadOpenChange, ChangeNotFound, LockSource, BaselineVersionConflict,
              ApplyFails, CrashAccept
<1>3. ASSUME NEW s \in Syncs, ValidateCatalog(s) \/ ReplaceCatalog(s)
      PROVE  UNCHANGED <<baseline, version, changes, runs, outbox>>
  BY <1>3 DEF ValidateCatalog, ReplaceCatalog
<1>4. UNCHANGED vars => UNCHANGED <<baseline, version, changes, runs, outbox>>
  BY DEF vars
<1> QED
  BY <1>1, <1>2, <1>3, <1>4 DEF Next, Terminated

\* Only a request that is not yet answered moves.
LEMMA OnlyPendingScansMove ==
  ASSUME TypeOK, [Next]_vars, NEW q \in Scans
  PROVE  scan'[q] = scan[q] \/ scan[q].pc \in {"idle"} \union ScanWorking
<1> USE DEF store, locks
<1>1. ASSUME NEW r \in Scans, ScanArrives(r) \/ ScanStep(r) \/ CrashScan(r), q # r
      PROVE  scan'[q] = scan[q]
  BY <1>1 DEF ScanArrives, RejectUnknownSource, AlreadyRunning, TryLock, ScanStep,
              CreateRunningScan, Collect, FailScan, LoadExpectedColumns,
              CompleteInitialBaseline, LoadDependencyColumns, ReadOpenChanges,
              CompleteDriftScan, BaselineDatasetNotFound, CrashScan, EndScan, TypeOK
<1>2. ASSUME ScanArrives(q) \/ ScanStep(q) \/ CrashScan(q)
      PROVE  scan[q].pc \in {"idle"} \union ScanWorking
  BY <1>2 DEF ScanArrives, RejectUnknownSource, AlreadyRunning, TryLock, ScanStep,
              CreateRunningScan, Collect, FailScan, LoadExpectedColumns,
              CompleteInitialBaseline, LoadDependencyColumns, ReadOpenChanges,
              CompleteDriftScan, BaselineDatasetNotFound, CrashScan, ScanWorking
<1>3. ASSUME NEW a \in Acceptances,
             OperatorStep(a) \/ AcceptStep(a) \/ CrashAccept(a)
      PROVE  UNCHANGED scan
  BY <1>3 DEF OperatorStep, ReadPageVersion, SubmitChange, LeavePage, AcceptStep,
              ReadOpenChange, ChangeNotFound, LockSource, BaselineVersionConflict,
              ApplyAcceptance, ApplyFails, CrashAccept, EndAccept
<1>4. ASSUME NEW s \in Syncs, ValidateCatalog(s) \/ ReplaceCatalog(s)
      PROVE  UNCHANGED scan
  BY <1>4 DEF ValidateCatalog, ReplaceCatalog
<1>5. UNCHANGED vars => UNCHANGED scan
  BY DEF vars
<1> QED
  BY <1>1, <1>2, <1>3, <1>4, <1>5 DEF Next, Terminated

-----------------------------------------------------------------------------
(* Rows belong to completed scans. *)

\* The end of a scan answers it and gives its run the status it commits with.
LEMMA EndScanPc ==
  ASSUME TypeOK, NEW r \in Scans, NEW answer \in ScanAnswered, EndScan(r, answer)
  PROVE  scan'[r].pc \notin {"idle"} \union ScanWorking
BY DEF TypeOK, EndScan, ScanRecord, ScanAnswered, ScanWorking

\* No step gives a row to a scan that is not completed, or an identity to two rows.
LEMMA RowsOfCompletedScansNext ==
  /\ TypeOK /\ ScanReadsStayCurrent /\ RowsOfCompletedScans /\ DiffDistinct
  /\ [Next]_vars
  => RowsOfCompletedScans'
<1> SUFFICES ASSUME TypeOK, ScanReadsStayCurrent, RowsOfCompletedScans,
                    DiffDistinct, [Next]_vars
             PROVE  RowsOfCompletedScans'
  OBVIOUS
<1>m. \A q \in Scans : scan'[q] = scan[q] \/ scan[q].pc \in {"idle"} \union ScanWorking
  BY OnlyPendingScansMove
<1>1. CASE UNCHANGED <<baseline, version, changes, runs, outbox>>
  BY <1>1, <1>m DEF RowsOfCompletedScans
<1>2. ASSUME NEW r \in Scans, FailScan(r) \/ CompleteInitialBaseline(r)
      PROVE  RowsOfCompletedScans'
  <2>1. /\ changes' = changes
        /\ \A q \in Scans \ {r} : runs'[q] = runs[q]
        /\ scan[r].pc \in ScanWorking
        /\ \E answer \in ScanAnswered : EndScan(r, answer)
    BY <1>2 DEF FailScan, CompleteInitialBaseline, TypeOK, ScanWorking, ScanAnswered
  <2>2. scan'[r].pc \notin {"idle"} \union ScanWorking
    BY <2>1, EndScanPc
  <2>3. \A row \in changes : row.scan \in Scans /\ row.scan # r
    BY <2>1 DEF TypeOK, ChangeRow, RowsOfCompletedScans
  <2> QED
    BY <2>1, <2>2, <2>3, <1>m DEF RowsOfCompletedScans
<1>3. ASSUME NEW r \in Scans, CompleteDriftScan(r) PROVE RowsOfCompletedScans'
  <2>1. /\ runs'[r] = "COMPLETED"
        /\ \A q \in Scans \ {r} : runs'[q] = runs[q]
        /\ EndScan(r, "201")
    BY <1>3 DEF CompleteDriftScan, TypeOK
  <2>2. scan'[r].pc \notin {"idle"} \union ScanWorking
    BY <2>1, EndScanPc DEF ScanAnswered
  <2>3. ASSUME NEW row \in changes' PROVE runs'[row.scan] = "COMPLETED"
    <3>1. CASE \E old \in changes : SameRow(row, old) /\ row.scan # r
      BY <3>1, <2>1 DEF SameRow, RowsOfCompletedScans, TypeOK, ChangeRow
    <3>2. CASE \E c \in NewChanges(r) : row = NewRow(r, c)
      BY <3>2, <2>1 DEF NewRow
    <3> QED
      BY <3>1, <3>2, <1>3, DriftRows
  <2>4. \A row, other \in changes' : SameRow(row, other) => row = other
    BY <1>3, DriftRowsDistinct
  <2> QED
    BY <2>1, <2>2, <2>3, <2>4, <1>m DEF RowsOfCompletedScans
<1>4. ASSUME NEW a \in Acceptances, ApplyAcceptance(a) PROVE RowsOfCompletedScans'
  <2>1. runs' = runs
    BY <1>4 DEF ApplyAcceptance
  <2>2. \A row \in changes' : \E old \in changes :
          /\ row = MarkAccepted(old, accept[a].target) /\ SameRow(row, old)
    BY <1>4, RowsKeepIdentity DEF ApplyAcceptance, TypeOK
  <2>3. \A row \in changes' : runs'[row.scan] = "COMPLETED"
    BY <2>1, <2>2 DEF SameRow, RowsOfCompletedScans
  <2>4. ASSUME NEW row \in changes', NEW other \in changes', SameRow(row, other)
        PROVE  row = other
    <3>1. PICK old \in changes :
            row = MarkAccepted(old, accept[a].target) /\ SameRow(row, old)
      BY <2>2
    <3>2. PICK past \in changes :
            other = MarkAccepted(past, accept[a].target) /\ SameRow(other, past)
      BY <2>2
    <3>3. SameRow(old, past)
      BY <2>4, <3>1, <3>2 DEF SameRow
    <3> QED
      BY <3>1, <3>2, <3>3 DEF RowsOfCompletedScans
  <2> QED
    BY <2>1, <2>3, <2>4, <1>m DEF RowsOfCompletedScans
<1> QED
  BY <1>1, <1>2, <1>3, <1>4, StoreWriters

-----------------------------------------------------------------------------
(* The open changes. *)

\* An old row that is still open after a drift scan has its fingerprint in the
\* diff, so the scan did not open a second row for it.
LEMMA OpenChangesDistinctNext ==
  /\ TypeOK /\ ScanReadsStayCurrent /\ RowsOfCompletedScans /\ DiffDistinct
  /\ OpenChangesDistinct /\ [Next]_vars
  => OpenChangesDistinct'
<1> SUFFICES ASSUME TypeOK, ScanReadsStayCurrent, RowsOfCompletedScans,
                    DiffDistinct, OpenChangesDistinct, [Next]_vars
             PROVE  OpenChangesDistinct'
  OBVIOUS
<1>1. CASE UNCHANGED changes
  BY <1>1 DEF OpenChangesDistinct, OpenChanges
<1>2. ASSUME NEW r \in Scans, CompleteDriftScan(r) PROVE OpenChangesDistinct'
  <2>1. /\ scan[r].open = OpenChanges
        /\ \A c, d \in scan[r].diff : c.column = d.column /\ c.kind = d.kind => c = d
    BY <1>2 DEF CompleteDriftScan, ScanReadsStayCurrent, DiffDistinct
  <2>2. ASSUME NEW row \in OpenChanges'
        PROVE  \/ row \in OpenChanges /\ \E c \in scan[r].diff : Fingerprint(c) = Fingerprint(row)
               \/ \E c \in NewChanges(r) : row = NewRow(r, c) /\ c \in SchemaChange
    <3>1. row \in changes' /\ row.state = "OPEN"
      BY DEF OpenChanges
    <3>2. CASE \E old \in changes :
                 IF old \in Vanished(r) THEN row.state = "RESOLVED" ELSE row = old
      BY <3>1, <3>2, <2>1 DEF OpenChanges, Vanished
    <3> QED
      BY <3>1, <3>2, <1>2, DriftRows
  <2>3. ASSUME NEW row \in OpenChanges, NEW d \in NewChanges(r), d \in SchemaChange,
               NEW c \in scan[r].diff, Fingerprint(c) = Fingerprint(row),
               row.column = d.column, row.kind = d.kind
        PROVE  FALSE
    <3>1. c.column = d.column /\ c.kind = d.kind
      BY <2>3 DEF Fingerprint
    <3> QED
      BY <2>1, <2>3, <3>1 DEF NewChanges
  <2>4. SUFFICES ASSUME NEW row \in OpenChanges', NEW other \in OpenChanges',
                        row.column = other.column, row.kind = other.kind
                 PROVE  row = other
    BY DEF OpenChangesDistinct
  <2>5. CASE row \in OpenChanges /\ other \in OpenChanges
    BY <2>4, <2>5 DEF OpenChangesDistinct
  <2>6. ASSUME NEW c \in NewChanges(r), NEW d \in NewChanges(r),
               c \in SchemaChange, d \in SchemaChange,
               row = NewRow(r, c), other = NewRow(r, d)
        PROVE  row = other
    <3>1. c.column = d.column /\ c.kind = d.kind
      BY <2>4, <2>6, NewRowIs
    <3> QED
      BY <2>1, <2>6, <3>1 DEF NewChanges
  <2>7. ASSUME NEW c \in NewChanges(r), c \in SchemaChange, row = NewRow(r, c)
        PROVE  row.column = c.column /\ row.kind = c.kind
    BY <2>7, NewRowIs
  <2>8. ASSUME NEW c \in NewChanges(r), c \in SchemaChange, other = NewRow(r, c)
        PROVE  other.column = c.column /\ other.kind = c.kind
    BY <2>8, NewRowIs
  <2> QED
    BY <2>2, <2>3, <2>4, <2>5, <2>6, <2>7, <2>8
<1>3. ASSUME NEW a \in Acceptances, ApplyAcceptance(a) PROVE OpenChangesDistinct'
  <2>1. OpenChanges' \subseteq OpenChanges
    <3>1. \A row \in changes : \/ MarkAccepted(row, accept[a].target) = row
                               \/ MarkAccepted(row, accept[a].target).state = "ACCEPTED"
      BY RowsKeepIdentity DEF TypeOK
    <3> QED
      BY <1>3, <3>1 DEF ApplyAcceptance, OpenChanges
  <2> QED
    BY <2>1 DEF OpenChangesDistinct
<1> QED
  BY <1>1, <1>2, <1>3, StoreWriters DEF FailScan, CompleteInitialBaseline

-----------------------------------------------------------------------------
(* Pages and the versions they carry. *)

\* A request that got its answer has no page any more.
LEMMA AnsweredPage ==
  ASSUME TypeOK, NEW a \in Acceptances, NEW answer \in AcceptAnswered,
         accept'[a] = AcceptRecord(answer), version' \in Nat
  PROVE  PageOf(a)'
BY DEF TypeOK, PageOf, AcceptRecord, AcceptAnswered, AcceptWorking

\* The requests of the operators' side that leave the store alone.
LEMMA PageSteps ==
  ASSUME TypeOK, RowsOfCompletedScans, NEW a \in Acceptances, PageOf(a),
         OperatorStep(a) \/ AcceptStep(a) \/ CrashAccept(a), ~ApplyAcceptance(a)
  PROVE  PageOf(a)'
<1> USE DEF store, locks
<1>1. /\ UNCHANGED <<baseline, version, changes>>
      /\ version \in Nat
      /\ version' \in Nat
      /\ accept[a] \in AcceptRequest
  BY DEF OperatorStep, ReadPageVersion, SubmitChange, LeavePage, AcceptStep,
         ReadOpenChange, ChangeNotFound, LockSource, BaselineVersionConflict,
         ApplyFails, CrashAccept, TypeOK
<1>2. CASE ReadPageVersion(a)
  <2>1. /\ accept'[a].pc = "viewing" /\ accept'[a].version = version
        /\ accept'[a].seen = baseline
    BY <1>2 DEF ReadPageVersion, TypeOK, AcceptRequest
  <2> QED
    BY <1>1, <2>1 DEF PageOf, AcceptWorking
<1>3. CASE SubmitChange(a)
  <2>1. PICK row \in OpenChanges :
          accept' = [accept EXCEPT ![a].pc = "submitted", ![a].target = row]
    BY <1>3 DEF SubmitChange
  <2>2. /\ accept'[a].pc = "submitted" /\ accept'[a].target = row
        /\ accept'[a].version = accept[a].version
        /\ accept'[a].seen = accept[a].seen
    BY <2>1 DEF TypeOK, AcceptRequest
  <2>3. row \in changes' /\ SameRow(row, accept'[a].target)
    BY <1>1, <2>2 DEF OpenChanges, SameRow
  <2> QED
    BY <1>1, <2>2, <2>3 DEF PageOf
<1>4. CASE ReadOpenChange(a)
  <2>1. /\ accept'[a].pc = "found" /\ accept'[a].target = accept[a].target
        /\ accept'[a].version = accept[a].version
        /\ accept'[a].seen = accept[a].seen
    BY <1>4 DEF ReadOpenChange, TypeOK, AcceptRequest
  <2>2. PICK row \in OpenChanges : SameRow(row, accept[a].target)
    BY <1>4 DEF ReadOpenChange, StillOpen
  <2>3. \A other \in Accepted : ~SameRow(other, accept[a].target)
    <3>1. ASSUME NEW other \in Accepted, SameRow(other, accept[a].target) PROVE FALSE
      <4>1. SameRow(row, other)
        BY <2>2, <3>1 DEF SameRow
      <4>2. row = other
        BY <4>1 DEF RowsOfCompletedScans, OpenChanges, Accepted
      <4> QED
        BY <4>2 DEF OpenChanges, Accepted
    <3> QED
      BY <3>1
  <2>4. Accepted' = Accepted
    BY <1>1 DEF Accepted
  <2>5. \E other \in changes' : SameRow(other, accept'[a].target)
    BY <1>1, <2>1, <2>2 DEF OpenChanges
  <2> QED
    BY <1>1, <2>1, <2>3, <2>4, <2>5 DEF PageOf
<1>5. CASE LockSource(a)
  <2>1. /\ accept'[a].pc = "holding" /\ accept'[a].target = accept[a].target
        /\ accept'[a].version = version /\ accept[a].version = version
        /\ accept'[a].seen = accept[a].seen
        /\ accept[a].pc = "found"
    BY <1>5 DEF LockSource, TypeOK, AcceptRequest
  <2>2. Accepted' = Accepted
    BY <1>1 DEF Accepted
  <2> QED
    BY <1>1, <2>1, <2>2 DEF PageOf, AcceptWorking
<1>6. CASE \/ LeavePage(a) \/ ChangeNotFound(a) \/ BaselineVersionConflict(a)
           \/ ApplyFails(a) \/ CrashAccept(a)
  <2>1. \E answer \in AcceptAnswered : accept'[a] = AcceptRecord(answer)
    BY <1>6 DEF LeavePage, ChangeNotFound, BaselineVersionConflict, ApplyFails,
                CrashAccept, EndAccept, TypeOK, AcceptAnswered
  <2> QED
    BY <1>1, <2>1, AnsweredPage
<1> QED
  BY <1>2, <1>3, <1>4, <1>5, <1>6 DEF OperatorStep, AcceptStep

\* A drift scan accepts nothing and un-accepts nothing.
LEMMA DriftScanAcceptsNothing ==
  ASSUME TypeOK, ScanReadsStayCurrent, RowsOfCompletedScans, NEW r \in Scans,
         CompleteDriftScan(r)
  PROVE  Accepted' = Accepted
<1>1. ASSUME NEW row \in Accepted' PROVE row \in Accepted
  <2>1. row \in changes' /\ row.state = "ACCEPTED"
    BY DEF Accepted
  <2>2. CASE \E old \in changes :
               IF old \in Vanished(r) THEN row.state = "RESOLVED" ELSE row = old
    BY <2>1, <2>2 DEF Accepted
  <2>3. CASE \E c \in NewChanges(r) : row = NewRow(r, c)
    BY <2>1, <2>3 DEF NewRow
  <2> QED
    BY <2>1, <2>2, <2>3, DriftRows
<1>2. ASSUME NEW row \in Accepted PROVE row \in Accepted'
  <2>1. row \in changes /\ row.state = "ACCEPTED"
    BY DEF Accepted
  <2>2. scan[r].pc = "reconciling"
    BY DEF CompleteDriftScan
  <2>3. row \notin Vanished(r)
    BY <2>1, <2>2 DEF Vanished, ScanReadsStayCurrent, OpenChanges
  <2>4. row = Resolve(row, Vanished(r))
    BY <2>1, <2>2, <2>3, ResolvedRows
  <2> QED
    BY <2>1, <2>4 DEF Accepted, CompleteDriftScan
<1> QED
  BY <1>1, <1>2

\* Rows are never lost: only their state changes.
LEMMA HistoryGrows ==
  ASSUME TypeOK, [Next]_vars, NEW row \in changes
  PROVE  \E next \in changes' : SameRow(next, row)
<1>1. CASE UNCHANGED changes
  BY <1>1 DEF SameRow
<1>2. ASSUME NEW r \in Scans, CompleteDriftScan(r)
      PROVE  \E next \in changes' : SameRow(next, row)
  <2>1. Resolve(row, Vanished(r)) \in changes'
    BY <1>2 DEF CompleteDriftScan
  <2> QED
    BY <2>1, RowsKeepIdentity DEF TypeOK
<1>3. ASSUME NEW a \in Acceptances, ApplyAcceptance(a)
      PROVE  \E next \in changes' : SameRow(next, row)
  <2>1. MarkAccepted(row, accept[a].target) \in changes'
    BY <1>3 DEF ApplyAcceptance
  <2> QED
    BY <2>1, RowsKeepIdentity DEF TypeOK
<1> QED
  BY <1>1, <1>2, <1>3, StoreWriters DEF FailScan, CompleteInitialBaseline

\* A page stays as current as its version says when somebody else takes a step.
LEMMA PageIsCurrentOrStaleNext ==
  /\ TypeOK /\ LockDiscipline /\ ScanReadsStayCurrent /\ RowsOfCompletedScans
  /\ PageIsCurrentOrStale /\ [Next]_vars
  => PageIsCurrentOrStale'
<1> SUFFICES ASSUME TypeOK, LockDiscipline, ScanReadsStayCurrent,
                    RowsOfCompletedScans, PageIsCurrentOrStale, [Next]_vars,
                    NEW b \in Acceptances
             PROVE  PageOf(b)'
  BY DEF PageIsCurrentOrStale, PageOf
<1> USE DEF store, locks
<1>1. PageOf(b) /\ version \in Nat /\ accept[b] \in AcceptRequest
  BY DEF PageIsCurrentOrStale, PageOf, TypeOK
<1>2. \A row \in changes : \E next \in changes' : SameRow(next, row)
  BY HistoryGrows
<1>h. (\E row \in changes : SameRow(row, accept[b].target))
        => \E row \in changes' : SameRow(row, accept[b].target)
  BY <1>2 DEF SameRow
<1>3. ASSUME OperatorStep(b) \/ AcceptStep(b) \/ CrashAccept(b), ~ApplyAcceptance(b)
      PROVE  PageOf(b)'
  BY <1>1, <1>3, PageSteps
<1>4. CASE UNCHANGED <<baseline, version, Accepted>> /\ accept'[b] = accept[b]
  BY <1>1, <1>4, <1>h DEF PageOf
<1>5. ASSUME NEW r \in Scans, CompleteInitialBaseline(r) PROVE PageOf(b)'
  <2>1. baseline = NoColumns
    BY <1>5 DEF CompleteInitialBaseline, ScanReadsStayCurrent
  <2>2. UNCHANGED <<version, Accepted, accept>>
    BY <1>5 DEF CompleteInitialBaseline, EndScan, Accepted
  <2> QED
    BY <1>1, <1>h, <2>1, <2>2 DEF PageOf
<1>6. ASSUME NEW r \in Scans, CompleteDriftScan(r) PROVE PageOf(b)'
  <2>1. UNCHANGED <<baseline, version, Accepted, accept>>
    BY <1>6, DriftScanAcceptsNothing DEF CompleteDriftScan, EndScan
  <2> QED
    BY <1>4, <2>1
<1>7. ASSUME NEW a \in Acceptances, ApplyAcceptance(a) PROVE PageOf(b)'
  <2>1. version' = version + 1
    BY <1>7 DEF ApplyAcceptance
  <2>2. CASE a = b
    <3>1. accept'[b] = AcceptRecord("200")
      BY <1>7, <2>2 DEF ApplyAcceptance, EndAccept, TypeOK
    <3> QED
      BY <1>1, <2>1, <3>1, AnsweredPage DEF AcceptAnswered
  <2>3. CASE a # b
    <3>1. accept'[b] = accept[b]
      BY <1>7, <2>3 DEF ApplyAcceptance, EndAccept, TypeOK
    <3>2. accept[b].pc # "holding"
      BY <1>7, <2>3 DEF ApplyAcceptance, LockDiscipline
    <3>3. /\ accept'[b].version < version' /\ accept'[b].version <= version'
          /\ accept'[b].version # version'
      BY <1>1, <2>1, <3>1 DEF PageOf, AcceptRequest
    <3>4. /\ accept'[b].pc # "holding"
          /\ accept'[b].pc \in AcceptWorking =>
               \E row \in changes' : SameRow(row, accept'[b].target)
      BY <1>1, <1>h, <3>1, <3>2 DEF PageOf
    <3> QED
      BY <3>3, <3>4 DEF PageOf
  <2> QED
    BY <2>2, <2>3
<1>8. ASSUME NEW a \in Acceptances, a # b,
             OperatorStep(a) \/ AcceptStep(a) \/ CrashAccept(a)
      PROVE  \/ ApplyAcceptance(a)
             \/ UNCHANGED <<baseline, version, Accepted>> /\ accept'[b] = accept[b]
  BY <1>8 DEF OperatorStep, ReadPageVersion, SubmitChange, LeavePage, AcceptStep,
              ReadOpenChange, ChangeNotFound, LockSource, BaselineVersionConflict,
              ApplyFails, CrashAccept, EndAccept, TypeOK, Accepted
<1>9. ASSUME NEW r \in Scans, ScanArrives(r) \/ ScanStep(r) \/ CrashScan(r)
      PROVE  \/ CompleteInitialBaseline(r) \/ CompleteDriftScan(r)
             \/ UNCHANGED <<baseline, version, Accepted>> /\ accept'[b] = accept[b]
  BY <1>9 DEF ScanArrives, RejectUnknownSource, AlreadyRunning, TryLock, ScanStep,
              CreateRunningScan, Collect, FailScan, LoadExpectedColumns,
              LoadDependencyColumns, ReadOpenChanges, BaselineDatasetNotFound,
              CrashScan, EndScan, Accepted
<1>10. ASSUME NEW s \in Syncs, ValidateCatalog(s) \/ ReplaceCatalog(s)
       PROVE  UNCHANGED <<baseline, version, Accepted>> /\ accept'[b] = accept[b]
  BY <1>10 DEF ValidateCatalog, ReplaceCatalog, Accepted
<1>11. UNCHANGED vars => UNCHANGED <<baseline, version, Accepted>> /\ accept'[b] = accept[b]
  BY DEF vars, Accepted
<1> QED
  BY <1>3, <1>4, <1>5, <1>6, <1>7, <1>8, <1>9, <1>10, <1>11 DEF Next, Terminated

-----------------------------------------------------------------------------
(* The inductive invariant and what follows from it. *)

\* Nothing runs, is locked or is recorded at the start.
LEMMA InductiveInit == Init => Inductive
<1> SUFFICES ASSUME Init PROVE Inductive
  OBVIOUS
<1>1. \A r \in Scans : scan[r].pc = "idle" /\ scan[r].pc \notin ScanWorking
  BY DEF Init, ScanRecord, ScanWorking
<1>2. \A a \in Acceptances : /\ accept[a].pc = "idle" /\ accept[a].version = 0
                             /\ accept[a].pc \notin AcceptWorking
  BY DEF Init, AcceptRecord, AcceptWorking
<1>3. LockDiscipline
  BY <1>1, <1>2, LifecycleAssumption DEF Init, LockDiscipline
<1>4. ScanReadsStayCurrent /\ DiffDistinct
  BY <1>1 DEF ScanReadsStayCurrent, DiffDistinct
<1>5. RowsOfCompletedScans /\ OpenChangesDistinct
  BY DEF Init, RowsOfCompletedScans, OpenChangesDistinct, OpenChanges
<1>6. PageIsCurrentOrStale
  BY <1>2 DEF Init, PageIsCurrentOrStale, PageOf
<1> QED
  BY <1>3, <1>4, <1>5, <1>6 DEF Inductive

\* Every part of the invariant is preserved with the help of the parts before it.
LEMMA InductiveNext == TypeOK /\ Inductive /\ [Next]_vars => Inductive'
BY LockDisciplineNext, ScanReadsStayCurrentNext, RowsOfCompletedScansNext,
   DiffDistinctNext, OpenChangesDistinctNext, PageIsCurrentOrStaleNext
DEF Inductive

\* In every reachable state the locks exclude each other, what a scan has read
\* is current, a row belongs to one completed scan, and a page is as old as
\* its version says.
THEOREM InductiveCorrect == Spec => [](TypeOK /\ Inductive)
<1>1. Init => TypeOK /\ Inductive
  BY TypeInit, InductiveInit
<1>2. TypeOK /\ Inductive /\ [Next]_vars => (TypeOK /\ Inductive)'
  BY TypeNext, InductiveNext
<1> QED
  BY <1>1, <1>2, PTL DEF Spec

\* A scan reads the expected columns and the open changes once and writes from
\* what it read: no acceptance gets in between.
THEOREM ScanReadsCurrent == Spec => []ScanReadsStayCurrent
<1>1. Inductive => ScanReadsStayCurrent
  BY DEF Inductive
<1> QED
  BY <1>1, InductiveCorrect, PTL

\* No sequence of scans, crashes and acceptances opens a second change of the
\* same kind for a column.
THEOREM OpenChangesUnique == Spec => []OpenChangesDistinct
<1>1. Inductive => OpenChangesDistinct
  BY DEF Inductive
<1> QED
  BY <1>1, InductiveCorrect, PTL

\* The version on the page stands for the content of the baseline on it: an
\* acceptance that holds the source row is about to change what was displayed.
THEOREM DisplayedIsAccepted == Spec => []AcceptsWhatWasDisplayed
<1>1. Inductive => AcceptsWhatWasDisplayed
  BY DEF Inductive, PageIsCurrentOrStale, PageOf, AcceptsWhatWasDisplayed
<1> QED
  BY <1>1, InductiveCorrect, PTL

-----------------------------------------------------------------------------
(* One version per accepted change. *)

\* An acceptance adds exactly one row to the accepted ones: the row exists, no
\* other row is it, and nobody accepted it under the same version.
LEMMA OneMoreAccepted ==
  ASSUME TypeOK, Inductive, NEW a \in Acceptances, ApplyAcceptance(a)
  PROVE  \E new : new \notin Accepted /\ Accepted' = Accepted \union {new}
<1> DEFINE target == accept[a].target
           Marked(row) == [row EXCEPT !.state = "ACCEPTED"]
<1>1. /\ accept[a].pc = "holding" /\ PageOf(a) /\ version \in Nat
      /\ changes' = {MarkAccepted(row, target) : row \in changes}
      /\ changes \subseteq ChangeRow
  BY DEF ApplyAcceptance, Inductive, PageIsCurrentOrStale, TypeOK
<1>2. \A row \in Accepted : ~SameRow(row, target)
  BY <1>1 DEF PageOf
<1>3. PICK old \in changes : SameRow(old, target)
  BY <1>1 DEF PageOf, AcceptWorking
<1>4. \A row \in changes : SameRow(row, target) => row = old
  <2>1. \A row \in changes : SameRow(row, target) => SameRow(row, old)
    BY <1>3 DEF SameRow
  <2> QED
    BY <2>1 DEF Inductive, RowsOfCompletedScans
<1>5. SameRow(Marked(old), target) /\ Marked(old).state = "ACCEPTED"
  BY <1>1, <1>3 DEF ChangeRow, SameRow
<1>6. Marked(old) \notin Accepted
  BY <1>2, <1>5
<1>7. \A row \in changes : MarkAccepted(row, target) =
                             IF row = old THEN Marked(old) ELSE row
  BY <1>3, <1>4 DEF MarkAccepted
<1>8. Accepted' \subseteq Accepted \union {Marked(old)}
  BY <1>1, <1>7 DEF Accepted
<1>9. Accepted \subseteq Accepted'
  <2>1. old \notin Accepted
    BY <1>2, <1>3
  <2> QED
    BY <1>1, <1>7, <2>1 DEF Accepted
<1>10. Marked(old) \in Accepted'
  BY <1>1, <1>3, <1>5, <1>7 DEF Accepted
<1> QED
  BY <1>6, <1>8, <1>9, <1>10

\* VersionCountsAcceptances needs to know that it counts a finite set.
AcceptancesCounted == IsFiniteSet(Accepted) /\ VersionCountsAcceptances

\* Only an acceptance changes the version or the accepted rows.
LEMMA VersionNext == TypeOK /\ Inductive /\ AcceptancesCounted /\ [Next]_vars => AcceptancesCounted'
<1> SUFFICES ASSUME TypeOK, Inductive, AcceptancesCounted, [Next]_vars PROVE AcceptancesCounted'
  OBVIOUS
<1>1. CASE UNCHANGED <<version, Accepted>>
  BY <1>1 DEF AcceptancesCounted, VersionCountsAcceptances
<1>2. ASSUME NEW r \in Scans,
             FailScan(r) \/ CompleteInitialBaseline(r) \/ CompleteDriftScan(r)
      PROVE  UNCHANGED <<version, Accepted>>
  BY <1>2, DriftScanAcceptsNothing
  DEF FailScan, CompleteInitialBaseline, CompleteDriftScan, Accepted, Inductive
<1>3. ASSUME NEW a \in Acceptances, ApplyAcceptance(a) PROVE AcceptancesCounted'
  <2>1. PICK new : new \notin Accepted /\ Accepted' = Accepted \union {new}
    BY <1>3, OneMoreAccepted
  <2>2. /\ IsFiniteSet(Accepted')
        /\ Cardinality(Accepted') = Cardinality(Accepted) + 1
    BY <2>1, FS_AddElement DEF AcceptancesCounted
  <2>3. Cardinality(Accepted) \in Nat
    BY FS_CardinalityType DEF AcceptancesCounted
  <2>4. version' = version + 1
    BY <1>3 DEF ApplyAcceptance
  <2> QED
    BY <2>2, <2>3, <2>4 DEF AcceptancesCounted, VersionCountsAcceptances
<1>4. CASE UNCHANGED <<baseline, version, changes, runs, outbox>>
  BY <1>1, <1>4 DEF Accepted
<1> QED
  BY <1>1, <1>2, <1>3, <1>4, StoreWriters

\* Every version of the baseline after the first is one accepted change, and no
\* two acceptances made the same change or the same version.
THEOREM VersionsAreAcceptances == Spec => []VersionCountsAcceptances
<1>1. Init => AcceptancesCounted
  <2>1. Init => Accepted = {} /\ version = 1
    BY DEF Init, Accepted
  <2> QED
    BY <2>1, FS_EmptySet DEF AcceptancesCounted, VersionCountsAcceptances
<1>2. TypeOK /\ Inductive /\ AcceptancesCounted /\ [Next]_vars => AcceptancesCounted'
  BY VersionNext
<1>3. AcceptancesCounted => VersionCountsAcceptances
  BY DEF AcceptancesCounted
<1> QED
  BY <1>1, <1>2, <1>3, InductiveCorrect, PTL DEF Spec

-----------------------------------------------------------------------------
(* The history of changes. *)

\* No scan touches an accepted row and no row is lost: a scan resolves open
\* rows only, an acceptance only accepts.
THEOREM AcceptedStaysAccepted == Spec => AcceptedIsFinal
<1> DEFINE Keeps == \A row \in changes :
                      \E next \in changes' :
                        /\ SameRow(next, row)
                        /\ row.state = "ACCEPTED" => next = row
<1>1. TypeOK /\ Inductive /\ [Next]_vars => Keeps
  <2> SUFFICES ASSUME TypeOK, Inductive, [Next]_vars, NEW row \in changes
               PROVE  \E next \in changes' :
                        /\ SameRow(next, row)
                        /\ row.state = "ACCEPTED" => next = row
    OBVIOUS
  <2>1. CASE row.state # "ACCEPTED"
    BY <2>1, HistoryGrows
  <2>2. CASE row.state = "ACCEPTED"
    <3>1. row \in Accepted /\ SameRow(row, row)
      BY <2>2 DEF Accepted, SameRow
    <3>2. CASE UNCHANGED changes
      BY <3>1, <3>2
    <3>3. ASSUME NEW r \in Scans, CompleteDriftScan(r) PROVE row \in changes'
      BY <3>1, <3>3, DriftScanAcceptsNothing DEF Accepted, Inductive
    <3>4. ASSUME NEW a \in Acceptances, ApplyAcceptance(a) PROVE row \in changes'
      BY <3>1, <3>4, OneMoreAccepted DEF Accepted
    <3> QED
      BY <3>1, <3>2, <3>3, <3>4, StoreWriters DEF FailScan, CompleteInitialBaseline
  <2> QED
    BY <2>1, <2>2
<1> QED
  BY <1>1, InductiveCorrect, PTL DEF Spec, AcceptedIsFinal

\* After a drift scan the open changes are the diff: what it found and already
\* knew stays open, what it found and did not know is new, the rest is resolved.
LEMMA DriftOpensItsDiff ==
  ASSUME TypeOK, Inductive, NEW r \in Scans, CompleteDriftScan(r)
  PROVE  {Fingerprint(row) : row \in OpenChanges'} =
           {Fingerprint(c) : c \in scan[r].diff}
<1>1. /\ scan[r].open = OpenChanges /\ scan[r].pc = "reconciling"
      /\ scan[r].diff \subseteq SchemaChange
      /\ ScanReadsStayCurrent /\ RowsOfCompletedScans
  BY DEF CompleteDriftScan, Inductive, ScanReadsStayCurrent, TypeOK, ScanRequest
<1>2. ASSUME NEW row \in OpenChanges'
      PROVE  \E c \in scan[r].diff : Fingerprint(row) = Fingerprint(c)
  <2>1. row \in changes' /\ row.state = "OPEN"
    BY DEF OpenChanges
  <2>2. CASE \E old \in changes :
               IF old \in Vanished(r) THEN row.state = "RESOLVED" ELSE row = old
    BY <1>1, <2>1, <2>2 DEF OpenChanges, Vanished
  <2>3. CASE \E c \in NewChanges(r) : row = NewRow(r, c) /\ c \in SchemaChange
    BY <2>3, NewRowIs DEF NewChanges
  <2> QED
    BY <1>1, <2>1, <2>2, <2>3, DriftRows
<1>3. ASSUME NEW c \in scan[r].diff
      PROVE  \E row \in OpenChanges' : Fingerprint(row) = Fingerprint(c)
  <2>1. CASE c \in NewChanges(r)
    <3>1. NewRow(r, c) \in changes'
      BY <2>1 DEF CompleteDriftScan
    <3>2. /\ NewRow(r, c).state = "OPEN"
          /\ Fingerprint(NewRow(r, c)) = Fingerprint(c)
      BY <1>1, NewRowIs
    <3> QED
      BY <3>1, <3>2 DEF OpenChanges
  <2>2. CASE c \notin NewChanges(r)
    <3>1. PICK row \in OpenChanges : Fingerprint(row) = Fingerprint(c)
      BY <1>1, <2>2 DEF NewChanges
    <3>2. row \in changes /\ row.state = "OPEN" /\ row \notin Vanished(r)
      BY <3>1 DEF OpenChanges, Vanished
    <3>3. row \in changes'
      BY <1>1, <3>2, ResolvedRows DEF CompleteDriftScan
    <3> QED
      BY <3>1, <3>2, <3>3 DEF OpenChanges
  <2> QED
    BY <2>1, <2>2
<1> QED
  BY <1>2, <1>3

\* What a drift scan leaves open is what it found, in every run of any size.
THEOREM OpenChangesFollowDrift == Spec => OpenChangesAreTheDrift
<1>1. TypeOK /\ Inductive /\ [Next]_vars =>
        \A r \in Scans :
          CompleteDriftScan(r) =>
            {Fingerprint(row) : row \in OpenChanges'} =
              {Fingerprint(c) : c \in scan[r].diff}
  BY DriftOpensItsDiff
<1> QED
  BY <1>1, InductiveCorrect, PTL DEF Spec, OpenChangesAreTheDrift

-----------------------------------------------------------------------------
(* The outbox. *)

\* The scans whose outcome is to be announced.
ToAnnounce ==
  {r \in Scans : \/ runs[r] = "FAILED"
                 \/ \E row \in changes : row.scan = r /\ row.severity # "INFO"}

\* A new row is announced if it is more than information, and is its scan's first.
LEMMA DriftAnnounces ==
  ASSUME TypeOK, Inductive, NEW r \in Scans, CompleteDriftScan(r)
  PROVE  ToAnnounce' = IF \E c \in NewChanges(r) : Alertable(c)
                       THEN ToAnnounce \union {r} ELSE ToAnnounce
<1>1. /\ scan[r].pc = "reconciling" /\ runs[r] = "NONE"
      /\ runs'[r] = "COMPLETED"
      /\ \A q \in Scans \ {r} : runs'[q] = runs[q]
      /\ scan[r].diff \subseteq SchemaChange
      /\ ScanReadsStayCurrent /\ RowsOfCompletedScans
  BY DEF CompleteDriftScan, Inductive, RowsOfCompletedScans, ScanWorking, TypeOK,
         ScanRequest
<1>2. \A row \in changes : row.scan # r
  BY <1>1 DEF RowsOfCompletedScans
<1>3. r \notin ToAnnounce
  BY <1>1, <1>2 DEF ToAnnounce
<1>4. r \in ToAnnounce' <=> \E c \in NewChanges(r) : Alertable(c)
  <2>1. ASSUME NEW row \in changes', row.scan = r
        PROVE  \E c \in NewChanges(r) : row = NewRow(r, c) /\ c \in SchemaChange
    BY <1>1, <2>1, DriftRows
  <2>2. ASSUME NEW c \in NewChanges(r)
        PROVE  /\ NewRow(r, c) \in changes'
               /\ NewRow(r, c).scan = r
               /\ NewRow(r, c).severity = c.severity
               /\ c.severity # "INFO" <=> Alertable(c)
    <3>1. c \in SchemaChange
      BY <1>1 DEF NewChanges
    <3>2. c.severity \in Severities
      BY <3>1 DEF SchemaChange
    <3> QED
      BY <3>1, <3>2, NewRowIs DEF CompleteDriftScan, Alertable, Severities
  <2> QED
    BY <1>1, <2>1, <2>2 DEF ToAnnounce
<1>5. ASSUME NEW q \in Scans, q # r PROVE q \in ToAnnounce' <=> q \in ToAnnounce
  <2>1. ASSUME NEW row \in changes', row.scan = q
        PROVE  \E old \in changes : old.scan = q /\ old.severity = row.severity
    <3>1. \A c \in NewChanges(r) : NewRow(r, c).scan = r
      BY DEF NewRow
    <3>2. PICK old \in changes : SameRow(row, old) /\ row.severity = old.severity
      BY <1>1, <1>5, <2>1, <3>1, DriftRows
    <3> QED
      BY <2>1, <3>2 DEF SameRow
  <2>2. ASSUME NEW old \in changes, old.scan = q
        PROVE  \E row \in changes' : row.scan = q /\ row.severity = old.severity
    <3>1. old \in ChangeRow /\ Resolve(old, Vanished(r)) \in changes'
      BY DEF TypeOK, CompleteDriftScan
    <3>2. /\ SameRow(Resolve(old, Vanished(r)), old)
          /\ Fingerprint(Resolve(old, Vanished(r))) = Fingerprint(old)
      BY <3>1, RowsKeepIdentity
    <3> QED
      BY <2>2, <3>1, <3>2 DEF SameRow, Fingerprint
  <2> QED
    BY <1>1, <1>5, <2>1, <2>2 DEF ToAnnounce
<1> QED
  BY <1>3, <1>4, <1>5 DEF ToAnnounce

\* An acceptance changes nothing that is announced.
LEMMA AcceptanceAnnouncesNothing ==
  ASSUME TypeOK, NEW a \in Acceptances, ApplyAcceptance(a)
  PROVE  ToAnnounce' = ToAnnounce
<1>1. /\ runs' = runs
      /\ changes' = {MarkAccepted(row, accept[a].target) : row \in changes}
  BY DEF ApplyAcceptance
<1>2. \A row \in changes : LET new == MarkAccepted(row, accept[a].target)
                           IN  new.scan = row.scan /\ new.severity = row.severity
  BY DEF MarkAccepted, TypeOK, ChangeRow
<1> QED
  BY <1>1, <1>2 DEF ToAnnounce

\* The writers of the outbox and of what it announces are the same steps.
LEMMA OutboxNext ==
  TypeOK /\ Inductive /\ OutboxMatchesScans /\ [Next]_vars => OutboxMatchesScans'
<1> SUFFICES ASSUME TypeOK, Inductive, [Next]_vars, outbox = ToAnnounce \X Channels
             PROVE  outbox' = ToAnnounce' \X Channels
  BY DEF OutboxMatchesScans, ToAnnounce
<1>1. CASE UNCHANGED <<baseline, version, changes, runs, outbox>>
  BY <1>1 DEF ToAnnounce
<1>2. ASSUME NEW r \in Scans, FailScan(r) PROVE outbox' = ToAnnounce' \X Channels
  <2>1. ToAnnounce' = ToAnnounce \union {r}
    BY <1>2 DEF FailScan, ToAnnounce, TypeOK
  <2>2. outbox' = outbox \union ({r} \X Channels)
    BY <1>2 DEF FailScan
  <2> QED
    BY <2>1, <2>2
<1>3. ASSUME NEW r \in Scans, CompleteInitialBaseline(r)
      PROVE  outbox' = ToAnnounce' \X Channels
  <2>1. runs[r] = "NONE"
    BY <1>3 DEF CompleteInitialBaseline, Inductive, RowsOfCompletedScans, ScanWorking
  <2>2. ToAnnounce' = ToAnnounce
    BY <1>3, <2>1 DEF CompleteInitialBaseline, ToAnnounce, TypeOK
  <2> QED
    BY <1>3, <2>2 DEF CompleteInitialBaseline
<1>4. ASSUME NEW r \in Scans, CompleteDriftScan(r)
      PROVE  outbox' = ToAnnounce' \X Channels
  <2>1. CASE \E c \in NewChanges(r) : Alertable(c)
    <3>1. outbox' = outbox \union ({r} \X Channels)
      BY <1>4, <2>1 DEF CompleteDriftScan
    <3>2. ToAnnounce' = ToAnnounce \union {r}
      BY <1>4, <2>1, DriftAnnounces
    <3> QED
      BY <3>1, <3>2
  <2>2. CASE ~\E c \in NewChanges(r) : Alertable(c)
    BY <1>4, <2>2, DriftAnnounces DEF CompleteDriftScan
  <2> QED
    BY <2>1, <2>2
<1>5. ASSUME NEW a \in Acceptances, ApplyAcceptance(a)
      PROVE  outbox' = ToAnnounce' \X Channels
  BY <1>5, AcceptanceAnnouncesNothing DEF ApplyAcceptance
<1> QED
  BY <1>1, <1>2, <1>3, <1>4, <1>5, StoreWriters

\* The outbox holds one delivery per channel for exactly the scans that failed
\* or opened a change of WARNING or more, whatever was accepted or resolved since.
THEOREM OutboxIsExact == Spec => []OutboxMatchesScans
<1>1. Init => OutboxMatchesScans
  <2>1. Init => outbox = {} /\ ToAnnounce = {}
    BY DEF Init, ToAnnounce
  <2> QED
    BY <2>1 DEF OutboxMatchesScans, ToAnnounce
<1>2. TypeOK /\ Inductive /\ OutboxMatchesScans /\ [Next]_vars => OutboxMatchesScans'
  BY OutboxNext
<1> QED
  BY <1>1, <1>2, InductiveCorrect, PTL DEF Spec

\* The requests at work never all wait for each other: whoever holds what another
\* one waits for is past its own waiting (scans.py:221-235, changes.py:132-134).
THEOREM SomebodyGoesOn == Spec => []NotEverybodyWaits
<1>1. TypeOK /\ LockDiscipline => NotEverybodyWaits
  <2> SUFFICES ASSUME TypeOK, LockDiscipline PROVE NotEverybodyWaits
    OBVIOUS
  <2>1. ASSUME NEW a \in Acceptances, forUpdate = a PROVE NotEverybodyWaits
    <3>1. accept[a].pc = "holding"
      BY <2>1 DEF LockDiscipline
    <3> QED
      BY <3>1 DEF NotEverybodyWaits, AcceptWaits, AcceptWorking
  <2>2. ASSUME NEW r \in Scans, r \in keyShare PROVE NotEverybodyWaits
    <3>1. scan[r].pc \in ScanWorking \ {"locked"}
      BY <2>2 DEF LockDiscipline
    <3> QED
      BY <3>1 DEF NotEverybodyWaits, ScanWaits
  <2>3. CASE forUpdate = Nobody /\ keyShare = {}
    BY <2>3 DEF NotEverybodyWaits, ScanWaits, AcceptWaits, SourceLockFree
  <2> QED
    BY <2>1, <2>2, <2>3 DEF TypeOK
<1>2. TypeOK /\ Inductive => NotEverybodyWaits
  BY <1>1 DEF Inductive
<1> QED
  BY <1>2, InductiveCorrect, PTL
=============================================================================
