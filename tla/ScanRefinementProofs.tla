------------------------- MODULE ScanRefinementProofs -------------------------
(***************************************************************************)
(* ScanLifecycle implements DriftContract, for any number of requests.     *)
(* Four steps write the baseline or the changes; each is one operation of  *)
(* the contract because what its handler read before is still true.        *)
(***************************************************************************)
EXTENDS ScanSafetyProofs

\* What a scan carries: a snapshot that shows a column, and from the diff on
\* the difference between it and the columns it expected.
DriftKnown ==
  \A r \in Scans :
    /\ scan[r].pc \in {"collected", "loaded", "diffed", "reconciling"} =>
         scan[r].observed \in Snapshots \ {NoColumns}
    /\ scan[r].pc \in {"diffed", "reconciling"} =>
         /\ scan[r].expected # NoColumns
         /\ \E deps \in SUBSET Columns :
              scan[r].diff = DiffColumns(scan[r].expected, scan[r].observed, deps)

\* The row an acceptance is about reports what it reported when it was read.
TargetsKnown ==
  \A a \in Acceptances : accept[a].pc \in AcceptWorking =>
    \A row \in changes :
      SameRow(row, accept[a].target) => Fingerprint(row) = Fingerprint(accept[a].target)

-----------------------------------------------------------------------------
(* The two additional invariants. *)

\* A step that leaves a scan's record of one request as the only change needs
\* to be looked at only for that request.
LEMMA OtherScansKnown ==
  ASSUME DriftKnown, NEW r \in Scans, \A q \in Scans \ {r} : scan'[q] = scan[q],
         scan'[r].pc \in {"collected", "loaded", "diffed", "reconciling"} =>
           scan'[r].observed \in Snapshots \ {NoColumns},
         scan'[r].pc \in {"diffed", "reconciling"} =>
           /\ scan'[r].expected # NoColumns
           /\ \E deps \in SUBSET Columns :
                scan'[r].diff = DiffColumns(scan'[r].expected, scan'[r].observed, deps)
  PROVE  DriftKnown'
BY DEF DriftKnown

\* A scan computes its diff from what it observed and expected and carries all
\* three to the end.
LEMMA DriftKnownNext == TypeOK /\ DriftKnown /\ [Next]_vars => DriftKnown'
<1> SUFFICES ASSUME TypeOK, DriftKnown, [Next]_vars PROVE DriftKnown'
  OBVIOUS
<1> USE DEF store, locks
<1>1. ASSUME NEW r \in Scans, ScanArrives(r) \/ ScanStep(r) \/ CrashScan(r)
      PROVE  DriftKnown'
  <2>1. \A q \in Scans \ {r} : scan'[q] = scan[q]
    BY <1>1 DEF ScanArrives, RejectUnknownSource, AlreadyRunning, TryLock, ScanStep,
                CreateRunningScan, Collect, FailScan, LoadExpectedColumns,
                CompleteInitialBaseline, LoadDependencyColumns, ReadOpenChanges,
                CompleteDriftScan, BaselineDatasetNotFound, CrashScan, EndScan, TypeOK
  <2>2. CASE Collect(r)
    <3>1. PICK snapshot \in Snapshots :
            /\ snapshot # NoColumns
            /\ scan' = [scan EXCEPT ![r].pc = "collected", ![r].observed = snapshot]
      BY <2>2 DEF Collect
    <3>2. scan'[r].pc = "collected" /\ scan'[r].observed = snapshot
      BY <3>1 DEF TypeOK, ScanRequest
    <3> QED
      BY <2>1, <3>1, <3>2, OtherScansKnown
  <2>3. CASE LoadExpectedColumns(r)
    <3>1. /\ scan[r].pc = "collected" /\ scan'[r].pc = "loaded"
          /\ scan'[r].observed = scan[r].observed
      BY <2>3 DEF LoadExpectedColumns, TypeOK, ScanRequest
    <3> QED
      BY <2>1, <3>1, OtherScansKnown DEF DriftKnown
  <2>4. CASE LoadDependencyColumns(r)
    <3> DEFINE diff == DiffColumns(scan[r].expected, scan[r].observed, lineage)
    <3>1. /\ scan[r].pc = "loaded" /\ scan[r].expected # NoColumns
          /\ scan'[r].pc = "diffed" /\ scan'[r].diff = diff
          /\ scan'[r].observed = scan[r].observed
          /\ scan'[r].expected = scan[r].expected
      BY <2>4 DEF LoadDependencyColumns, TypeOK, ScanRequest
    <3>2. lineage \in SUBSET Columns
      BY DEF TypeOK
    <3>3. \E deps \in SUBSET Columns :
            scan'[r].diff = DiffColumns(scan'[r].expected, scan'[r].observed, deps)
      BY <3>1, <3>2
    <3>4. scan'[r].observed \in Snapshots \ {NoColumns}
      BY <3>1 DEF DriftKnown
    <3> QED
      BY <2>1, <3>1, <3>3, <3>4, OtherScansKnown
  <2>5. CASE ReadOpenChanges(r)
    <3>1. /\ scan[r].pc = "diffed" /\ scan'[r].pc = "reconciling"
          /\ scan'[r].observed = scan[r].observed
          /\ scan'[r].expected = scan[r].expected
          /\ scan'[r].diff = scan[r].diff
      BY <2>5 DEF ReadOpenChanges, TypeOK, ScanRequest
    <3> QED
      BY <2>1, <3>1, OtherScansKnown DEF DriftKnown
  <2>6. CASE ~ \/ Collect(r) \/ LoadExpectedColumns(r)
               \/ LoadDependencyColumns(r) \/ ReadOpenChanges(r)
    <3>1. scan'[r].pc \notin {"collected", "loaded", "diffed", "reconciling"}
      BY <1>1, <2>6
      DEF ScanArrives, RejectUnknownSource, AlreadyRunning, TryLock, ScanStep,
          CreateRunningScan, FailScan, CompleteInitialBaseline, CompleteDriftScan,
          BaselineDatasetNotFound, CrashScan, EndScan, TypeOK, ScanRequest, ScanRecord
    <3> QED
      BY <2>1, <3>1, OtherScansKnown
  <2> QED
    BY <2>2, <2>3, <2>4, <2>5, <2>6
<1>2. CASE UNCHANGED scan
  BY <1>2 DEF DriftKnown
<1>3. ASSUME NEW a \in Acceptances,
             OperatorStep(a) \/ AcceptStep(a) \/ CrashAccept(a)
      PROVE  UNCHANGED scan
  BY <1>3 DEF OperatorStep, ReadPageVersion, SubmitChange, LeavePage, AcceptStep,
              ReadOpenChange, ChangeNotFound, LockSource, BaselineVersionConflict,
              ApplyAcceptance, ApplyFails, CrashAccept, EndAccept
<1>4. ASSUME NEW s \in Syncs, ValidateCatalog(s) \/ ReplaceCatalog(s)
      PROVE  UNCHANGED scan
  BY <1>4 DEF ValidateCatalog, ReplaceCatalog
<1>5. UNCHANGED vars => UNCHANGED scan
  BY DEF vars
<1> QED
  BY <1>1, <1>2, <1>3, <1>4, <1>5 DEF Next, Terminated

\* An acceptance keeps the row it was submitted for.
LEMMA TargetKept ==
  ASSUME TypeOK, [Next]_vars, NEW b \in Acceptances, accept'[b].pc \in AcceptWorking
  PROVE  \/ SubmitChange(b)
         \/ accept[b].pc \in AcceptWorking /\ accept'[b].target = accept[b].target
<1> USE DEF store, locks
<1>1. ASSUME NEW a \in Acceptances,
             OperatorStep(a) \/ AcceptStep(a) \/ CrashAccept(a), a # b
      PROVE  accept'[b] = accept[b]
  BY <1>1 DEF OperatorStep, ReadPageVersion, SubmitChange, LeavePage, AcceptStep,
              ReadOpenChange, ChangeNotFound, LockSource, BaselineVersionConflict,
              ApplyAcceptance, ApplyFails, CrashAccept, EndAccept, TypeOK
<1>2. CASE ReadPageVersion(b)
  <2>1. accept'[b].pc = "viewing"
    BY <1>2 DEF ReadPageVersion, TypeOK, AcceptRequest
  <2> QED
    BY <2>1 DEF AcceptWorking
<1>3. CASE ReadOpenChange(b) \/ LockSource(b)
  <2>1. accept[b].pc \in AcceptWorking
    BY <1>3 DEF ReadOpenChange, LockSource, AcceptWorking
  <2>2. accept'[b].target = accept[b].target
    BY <1>3 DEF ReadOpenChange, LockSource, TypeOK, AcceptRequest
  <2> QED
    BY <2>1, <2>2
<1>4. CASE \/ LeavePage(b) \/ ChangeNotFound(b) \/ BaselineVersionConflict(b)
           \/ ApplyAcceptance(b) \/ ApplyFails(b) \/ CrashAccept(b)
  <2>1. PICK answer \in AcceptAnswered : EndAccept(b, answer)
    BY <1>4 DEF LeavePage, ChangeNotFound, BaselineVersionConflict,
                ApplyAcceptance, ApplyFails, CrashAccept, AcceptAnswered
  <2>2. accept'[b].pc = answer
    BY <2>1 DEF EndAccept, AcceptRecord, TypeOK
  <2> QED
    BY <2>2 DEF AcceptWorking, AcceptAnswered
<1>5. ASSUME NEW r \in Scans, ScanArrives(r) \/ ScanStep(r) \/ CrashScan(r)
      PROVE  UNCHANGED accept
  BY <1>5 DEF ScanArrives, RejectUnknownSource, AlreadyRunning, TryLock, ScanStep,
              CreateRunningScan, Collect, FailScan, LoadExpectedColumns,
              CompleteInitialBaseline, LoadDependencyColumns, ReadOpenChanges,
              CompleteDriftScan, BaselineDatasetNotFound, CrashScan, EndScan
<1>6. ASSUME NEW s \in Syncs, ValidateCatalog(s) \/ ReplaceCatalog(s)
      PROVE  UNCHANGED accept
  BY <1>6 DEF ValidateCatalog, ReplaceCatalog
<1>7. UNCHANGED vars => UNCHANGED accept
  BY DEF vars
<1> QED
  BY <1>1, <1>2, <1>3, <1>4, <1>5, <1>6, <1>7
  DEF Next, Terminated, OperatorStep, AcceptStep

\* A row is an old row with a new state, or the row of a scan that had none.
LEMMA RowsKeepFingerprint ==
  ASSUME TypeOK, Inductive, [Next]_vars, NEW row \in changes'
  PROVE  \/ \E old \in changes :
              SameRow(row, old) /\ Fingerprint(row) = Fingerprint(old)
         \/ \A old \in changes : old.scan # row.scan
<1>1. CASE UNCHANGED changes
  BY <1>1 DEF SameRow
<1>2. ASSUME NEW r \in Scans, CompleteDriftScan(r)
      PROVE  \/ \E old \in changes :
                  SameRow(row, old) /\ Fingerprint(row) = Fingerprint(old)
             \/ \A old \in changes : old.scan # row.scan
  <2>1. runs[r] # "COMPLETED" /\ \A old \in changes : old.scan # r
    BY <1>2 DEF CompleteDriftScan, Inductive, RowsOfCompletedScans, ScanWorking
  <2>2. \A c \in NewChanges(r) : NewRow(r, c).scan = r
    BY DEF NewRow
  <2> QED
    BY <1>2, <2>1, <2>2, DriftRows DEF Inductive
<1>3. ASSUME NEW a \in Acceptances, ApplyAcceptance(a)
      PROVE  \E old \in changes :
               SameRow(row, old) /\ Fingerprint(row) = Fingerprint(old)
  <2>1. PICK old \in changes : row = MarkAccepted(old, accept[a].target)
    BY <1>3 DEF ApplyAcceptance
  <2>2. old \in ChangeRow
    BY DEF TypeOK
  <2> QED
    BY <2>1, <2>2 DEF MarkAccepted, ChangeRow, SameRow, Fingerprint
<1> QED
  BY <1>1, <1>2, <1>3, StoreWriters DEF FailScan, CompleteInitialBaseline

\* No step changes what a row reports.
LEMMA TargetsKnownNext ==
  TypeOK /\ Inductive /\ TargetsKnown /\ [Next]_vars => TargetsKnown'
<1> SUFFICES ASSUME TypeOK, Inductive, TargetsKnown, [Next]_vars,
                    NEW b \in Acceptances, accept'[b].pc \in AcceptWorking,
                    NEW row \in changes', SameRow(row, accept'[b].target)
             PROVE  Fingerprint(row) = Fingerprint(accept'[b].target)
  BY DEF TargetsKnown
<1>1. CASE SubmitChange(b)
  <2>1. PICK sent \in OpenChanges :
          accept' = [accept EXCEPT ![b].pc = "submitted", ![b].target = sent]
    BY <1>1 DEF SubmitChange
  <2>2. accept'[b].target = sent
    BY <2>1 DEF TypeOK, AcceptRequest
  <2>3. row \in changes /\ sent \in changes
    BY <1>1 DEF SubmitChange, store, OpenChanges
  <2> QED
    BY <2>2, <2>3 DEF Inductive, RowsOfCompletedScans
<1>2. CASE accept[b].pc \in AcceptWorking /\ accept'[b].target = accept[b].target
  <2>1. PICK known \in changes : SameRow(known, accept[b].target)
    BY <1>2 DEF Inductive, PageIsCurrentOrStale, PageOf
  <2>2. row.scan = known.scan
    BY <1>2, <2>1 DEF SameRow
  <2>3. PICK old \in changes :
          SameRow(row, old) /\ Fingerprint(row) = Fingerprint(old)
    BY <2>2, RowsKeepFingerprint
  <2>4. SameRow(old, accept[b].target)
    BY <1>2, <2>3 DEF SameRow
  <2> QED
    BY <1>2, <2>3, <2>4 DEF TargetsKnown
<1> QED
  BY <1>1, <1>2, TargetKept

-----------------------------------------------------------------------------
(* The steps of the contract. *)

\* The fingerprint of a change is the change.
LEMMA FingerprintIsChange ==
  ASSUME NEW c \in SchemaChange PROVE Fingerprint(c) = c
BY DEF SchemaChange, Fingerprint

\* The first scan establishes the baseline as it observed it.
LEMMA InitialScanEstablishes ==
  ASSUME TypeOK, Inductive, DriftKnown, NEW r \in Scans, CompleteInitialBaseline(r)
  PROVE  Contract!Establish
<1>1. baseline = NoColumns
  BY DEF CompleteInitialBaseline, Inductive, ScanReadsStayCurrent
<1>2. scan[r].observed \in Snapshots \ {NoColumns}
  BY DEF CompleteInitialBaseline, DriftKnown
<1>3. scan[r].observed \in Schemas
  BY DEF TypeOK, ScanRequest
<1>4. baseline' = [c \in Columns |-> scan[r].observed[c]]
  BY <1>1 DEF CompleteInitialBaseline, NoColumns
<1>5. baseline' = scan[r].observed
  BY <1>3, <1>4 DEF Schemas
<1> QED
  BY <1>1, <1>2, <1>5 DEF Contract!Establish, CompleteInitialBaseline, OpenChanges

\* A drift scan leaves open what distinguishes its snapshot from the baseline.
LEMMA DriftScanDrifts ==
  ASSUME TypeOK, Inductive, DriftKnown, NEW r \in Scans, CompleteDriftScan(r)
  PROVE  Contract!Drift
<1> DEFINE Open     == {Fingerprint(row) : row \in OpenChanges}
           Reported == {Fingerprint(row) : row \in changes}
<1>1. /\ scan[r].pc = "reconciling" /\ scan[r].expected = baseline
      /\ scan[r].diff \subseteq SchemaChange
      /\ ScanReadsStayCurrent /\ RowsOfCompletedScans
  BY DEF CompleteDriftScan, Inductive, ScanReadsStayCurrent, TypeOK, ScanRequest
<1>2. PICK deps \in SUBSET Columns :
        scan[r].diff = DiffColumns(baseline, scan[r].observed, deps)
  BY <1>1 DEF DriftKnown
<1>3. scan[r].observed \in Snapshots \ {NoColumns} /\ baseline # NoColumns
  BY <1>1 DEF DriftKnown
<1>4. Open' = scan[r].diff
  BY <1>1, DriftOpensItsDiff, FingerprintIsChange
<1>5. Reported' = Reported \union Open'
  <2>1. ASSUME NEW row \in changes'
        PROVE  Fingerprint(row) \in Reported \union Open'
    <3>1. CASE \E c \in NewChanges(r) : row = NewRow(r, c) /\ c \in SchemaChange
      BY <3>1, NewRowIs DEF OpenChanges
    <3> QED
      BY <1>1, <3>1, DriftRows
  <2>2. ASSUME NEW old \in changes PROVE Fingerprint(old) \in Reported'
    <3>1. Resolve(old, Vanished(r)) \in changes' /\ old \in ChangeRow
      BY DEF CompleteDriftScan, TypeOK
    <3> QED
      BY <3>1, RowsKeepIdentity
  <2>3. Open' \subseteq Reported'
    BY DEF OpenChanges
  <2> QED
    BY <2>1, <2>2, <2>3
<1> QED
  BY <1>2, <1>3, <1>4, <1>5 DEF Contract!Drift, CompleteDriftScan

\* An acceptance takes its change from the open ones, or from none of them if
\* a scan resolved it in between.
LEMMA AcceptanceAdopts ==
  ASSUME TypeOK, Inductive, TargetsKnown, NEW a \in Acceptances, ApplyAcceptance(a)
  PROVE  Contract!Next
<1> DEFINE Open     == {Fingerprint(row) : row \in OpenChanges}
           Reported == {Fingerprint(row) : row \in changes}
           target   == accept[a].target
           change   == Fingerprint(target)
<1>1. /\ accept[a].pc = "holding" /\ accept[a].pc \in AcceptWorking
      /\ changes \subseteq ChangeRow
      /\ changes' = {MarkAccepted(row, target) : row \in changes}
  BY DEF ApplyAcceptance, TypeOK, AcceptWorking
<1>2. PICK old \in changes : SameRow(old, target)
  BY <1>1 DEF Inductive, PageIsCurrentOrStale, PageOf
<1>3. Fingerprint(old) = change
  BY <1>1, <1>2 DEF TargetsKnown
<1>4. \A row \in changes : SameRow(row, target) <=> row = old
  BY <1>2 DEF SameRow, Inductive, RowsOfCompletedScans
<1>5. \A row \in changes :
        /\ Fingerprint(MarkAccepted(row, target)) = Fingerprint(row)
        /\ row # old => MarkAccepted(row, target) = row
        /\ row = old => MarkAccepted(row, target).state = "ACCEPTED"
  BY <1>1, <1>4 DEF MarkAccepted, Fingerprint, ChangeRow
<1>6. Reported' = Reported
  BY <1>1, <1>5
<1>7. OpenChanges' = OpenChanges \ {old}
  BY <1>1, <1>5 DEF OpenChanges
<1>8. Contract!Adopt(change)
  <2>1. /\ CannotApply(change, baseline) <=> CannotApply(target, baseline)
        /\ ApplyChange(change, baseline) = ApplyChange(target, baseline)
    BY DEF CannotApply, ApplyChange, Adopted, Fingerprint
  <2> QED
    BY <1>6, <2>1 DEF Contract!Adopt, ApplyAcceptance
<1>9. CASE old \in OpenChanges
  <2>1. \A row \in OpenChanges : Fingerprint(row) = change => row = old
    BY <1>3, <1>9 DEF Inductive, OpenChangesDistinct, Fingerprint
  <2>2. Open' = Open \ {change} /\ change \in Open
    BY <1>3, <1>7, <1>9, <2>1
  <2> QED
    BY <1>8, <2>2 DEF Contract!AcceptOpen, Contract!Next
<1>10. CASE old \notin OpenChanges
  <2>1. Open' = Open /\ change \in Reported
    BY <1>3, <1>7, <1>10
  <2> QED
    BY <1>8, <2>1 DEF Contract!AcceptWithdrawn, Contract!Next
<1> QED
  BY <1>9, <1>10

\* Scans and acceptances, statement by statement and however they interleave,
\* implement the contract: each takes effect in one step, or not at all.
THEOREM ScansImplementContract == Spec => ImplementsContract
<1>1. Init => Contract!Init
  BY DEF Init, Contract!Init, OpenChanges
<1>2. Init => DriftKnown /\ TargetsKnown
  BY DEF Init, DriftKnown, TargetsKnown, ScanRecord
<1>3. /\ TypeOK /\ Inductive /\ DriftKnown /\ TargetsKnown /\ [Next]_vars
      => (DriftKnown /\ TargetsKnown)'
  BY DriftKnownNext, TargetsKnownNext
<1>4. /\ TypeOK /\ Inductive /\ DriftKnown /\ TargetsKnown /\ [Next]_vars
      => [Contract!Next]_Contract!state
  <2> SUFFICES ASSUME TypeOK, Inductive, DriftKnown, TargetsKnown, [Next]_vars
               PROVE  [Contract!Next]_Contract!state
    OBVIOUS
  <2>1. CASE UNCHANGED <<baseline, version, changes>>
    BY <2>1 DEF Contract!state, OpenChanges
  <2>2. ASSUME NEW r \in Scans, FailScan(r) PROVE UNCHANGED <<baseline, version, changes>>
    BY <2>2 DEF FailScan
  <2> QED
    BY <2>1, <2>2, StoreWriters, InitialScanEstablishes, DriftScanDrifts, AcceptanceAdopts
    DEF Contract!Next
<1> QED
  BY <1>1, <1>2, <1>3, <1>4, InductiveCorrect, PTL
  DEF Spec, ImplementsContract, Contract!Spec
=============================================================================
