---------------------------- MODULE PipelineGuard ----------------------------
(***************************************************************************)
(* The guard of a daily DAG run: its first task asks the service whether   *)
(* the pipeline is safe, up to MaxAttempts times, and only if that task    *)
(* succeeded does the second one write the mart.  The service answers from *)
(* three statements of a READ COMMITTED transaction, beside scans,         *)
(* acceptances and catalog commands that commit between them:              *)
(*  - DriftContract stands for the scans and the acceptances, each of      *)
(*    which takes effect in one step;                                      *)
(*  - CatalogSync is the catalog command.                                  *)
(***************************************************************************)
EXTENDS CatalogSync, Naturals

CONSTANTS
  Snapshots,    \* what a scan can observe
  Runs,         \* runs of the DAG
  PipelineOf,   \* the pipeline a run validates
  MaxAttempts,  \* of the guard task: one and its retries
  MaxVersion    \* bound on the acceptances

ASSUME GuardAssumption ==
  /\ Snapshots \subseteq Schemas
  /\ PipelineOf \in [Runs -> Pipelines]
  /\ MaxAttempts \in Nat \ {0}

VARIABLES
  version,   \* data_sources.baseline_version
  open,      \* schema_changes that are OPEN
  reported,  \* every schema change ever reported
  run,       \* the DAG runs, each with its validation request
  standing   \* history: what blocked the run's pipeline ever since it last asked

store == <<baseline, version, open, reported>>
vars  == <<store, catalog, command, run, standing>>

Contract == INSTANCE DriftContract WITH
  Lineages <- SUBSET {e.upstream : e \in UNION Files}

-----------------------------------------------------------------------------
(* The DAG run.  Its guard task is to be tried ("scheduled"), has a request *)
(* at one of its statements ("find", "lineage", "changes"), has its answer *)
(* ("answered"), or ended ("cleared", "blocked", "failed").                *)

RunRecord ==
  [pc: {"scheduled", "find", "lineage", "changes", "answered",
        "cleared", "aggregating", "done", "blocked", "failed"},
   attempts: 0 .. MaxAttempts,
   edges:    SUBSET Edge,                            \* the lineage it read
   answer:   {"none", "safe", "conflict", "error"}]  \* 200, 409, anything else

TypeOK ==
  /\ baseline \in Schemas
  /\ version \in Nat \ {0}
  /\ open \subseteq SchemaChange
  /\ reported \subseteq SchemaChange
  /\ CatalogTypeOK
  /\ run \in [Runs -> RunRecord]
  /\ standing \in [Runs -> SUBSET SchemaChange]

\* A new installation, or one whose source was scanned and whose first catalog
\* was written.
Init ==
  /\ baseline \in Snapshots \union {NoColumns}
  /\ version = 1
  /\ open = {}
  /\ reported = {}
  /\ CatalogInit
  /\ run = [d \in Runs |->
              [pc |-> "scheduled", attempts |-> 0, edges |-> {}, answer |-> "none"]]
  /\ standing = [d \in Runs |-> {}]

-----------------------------------------------------------------------------
(* The validation request. *)

InValidation(d) == run[d].pc \in {"find", "lineage", "changes"}

\* The open changes that stop the pipeline, under the lineage that was read.
BlockingChanges_AnySeverity(d) ==
  {change \in open :
     \E column \in Columns :
       <<PipelineOf[d], column>> \in Impacts(run[d].edges, {change.column})}

BlockingChanges_OwnEdges(d) ==
  {change \in open :
     /\ change.severity = "BREAKING"
     /\ \E column \in Columns :
          <<PipelineOf[d], column>> \in
            Impacts({e \in run[d].edges : e.pipeline = PipelineOf[d]}, {change.column})}

BlockingChanges(d) ==
  {change \in open :
     /\ change.severity = "BREAKING"
     /\ \E column \in Columns :
          <<PipelineOf[d], column>> \in Impacts(run[d].edges, {change.column})}

TryNumber_StartsOver(d) == 1

TryNumber(d) == run[d].attempts + 1

AskGuard(d) ==
  /\ run[d].pc = "scheduled"
  /\ run' = [run EXCEPT ![d].pc = "find", ![d].attempts = TryNumber(d)]

Answer(d, answer) ==
  run' = [run EXCEPT ![d].pc = "answered", ![d].answer = answer, ![d].edges = {}]

\* A pipeline the catalog does not have is answered with 404.
FindPipeline(d) ==
  /\ run[d].pc = "find"
  /\ IF PipelineOf[d] \in PipelinesOf(Lineage)
     THEN run' = [run EXCEPT ![d].pc = "lineage"]
     ELSE Answer(d, "error")

ReadLineage(d) ==
  /\ run[d].pc = "lineage"
  /\ run' = [run EXCEPT ![d].pc = "changes", ![d].edges = Lineage]

ReadChanges(d) ==
  /\ run[d].pc = "changes"
  /\ Answer(d, IF BlockingChanges(d) = {} THEN "safe" ELSE "conflict")

\* The database or the service fails: any status but 200 and 409.
FailRequest(d) == InValidation(d) /\ Answer(d, "error")

-----------------------------------------------------------------------------
(* The tasks. *)

Retried_NoLimit(d) == "scheduled"

Retried(d) == IF run[d].attempts < MaxAttempts THEN "scheduled" ELSE "failed"

\* What the guard task makes of the answer; 409 is never tried again.
Outcome_FailOpen(d) ==
  CASE run[d].answer = "conflict" -> "blocked"
    [] run[d].answer = "safe" -> "cleared"
    [] OTHER -> IF run[d].attempts < MaxAttempts THEN "scheduled" ELSE "cleared"

Outcome(d) ==
  CASE run[d].answer = "conflict" -> "blocked"
    [] run[d].answer = "safe" -> "cleared"
    [] OTHER -> Retried(d)

EndAttempt(d) ==
  /\ run[d].pc = "answered"
  /\ run' = [run EXCEPT ![d].pc = Outcome(d), ![d].answer = "none"]

\* The service cannot be reached, or does not answer within the timeout.
LoseRequest(d) ==
  /\ InValidation(d) \/ run[d].pc = "answered"
  /\ run' = [run EXCEPT ![d].pc = Retried(d), ![d].answer = "none", ![d].edges = {}]

StartAggregate(d) ==
  /\ run[d].pc = "cleared"
  /\ run' = [run EXCEPT ![d].pc = "aggregating"]

EndAggregate(d) ==
  /\ run[d].pc = "aggregating"
  /\ \E end \in {"done", "failed"} : run' = [run EXCEPT ![d].pc = end]

\* What goes on when it can ...
Proceed(d) ==
  \/ AskGuard(d)
  \/ FindPipeline(d)
  \/ ReadLineage(d)
  \/ ReadChanges(d)
  \/ EndAttempt(d)
  \/ StartAggregate(d)
  \/ EndAggregate(d)

\* ... and what may go wrong instead.
GuardStep(d) == Proceed(d) \/ FailRequest(d) \/ LoseRequest(d)

-----------------------------------------------------------------------------
(* The system. *)

\* What blocks a run's pipeline at this moment: the BREAKING changes of columns
\* from which the lineage leads to a column the pipeline reads.
Blocking(d) ==
  {change \in open :
     /\ change.severity = "BREAKING"
     /\ \E e \in Lineage :
          /\ e.pipeline = PipelineOf[d]
          /\ e.upstream \in ReachableFrom(Lineage, {change.column})}

\* The history variable: an attempt starts with what blocks the pipeline, and
\* keeps what never ceases to.
Observe ==
  standing' =
    [d \in Runs |->
       IF run'[d].attempts # run[d].attempts THEN Blocking(d)'
       ELSE standing[d] \intersect Blocking(d)']

ScanOrAccept ==
  /\ Contract!Next
  /\ version' <= MaxVersion
  /\ UNCHANGED <<catalog, command, run>>

CatalogStep(c) ==
  /\ SyncCatalog(c) \/ AbortCommand(c)
  /\ UNCHANGED <<store, run>>

RunStep(d) == GuardStep(d) /\ UNCHANGED <<store, catalog, command>>

Next ==
  /\ \/ ScanOrAccept
     \/ \E c \in Commands : CatalogStep(c)
     \/ \E d \in Runs : RunStep(d)
  /\ Observe

Spec == Init /\ [][Next]_vars

\* A task or a command that can go on does; nobody has to scan or to accept.
Fairness ==
  /\ \A c \in Commands : WF_vars(SyncCatalog(c) /\ UNCHANGED <<store, run>> /\ Observe)
  /\ \A d \in Runs :
       WF_vars(Proceed(d) /\ UNCHANGED <<store, catalog, command>> /\ Observe)

FairSpec == Spec /\ Fairness

-----------------------------------------------------------------------------
(* Safety. *)

\* The mart is written only if nothing has blocked the pipeline ever since the
\* guard asked: a BREAKING change that was open and reached the pipeline from
\* the request to the answer, and to the aggregation, stops it, whichever scans
\* and catalogs were committed between the statements of the request and after
\* it, and through however many failed attempts (changes.py:144-203,
\* daily_revenue.py:20-29, 55).
StandingChangeStops ==
  \A d \in Runs :
    run[d].pc \in {"cleared", "aggregating", "done"} => standing[d] = {}

\* A run is refused only if some change blocks its pipeline when the changes are
\* read, unless a catalog was committed since the lineage was read.
ConflictHasReason ==
  \A d \in Runs :
    /\ run[d].pc = "changes" /\ run'[d].answer = "conflict"
    /\ run[d].edges = Lineage
    => Blocking(d) # {}

OnlyBlockedRunsConflict == [][ConflictHasReason]_vars

-----------------------------------------------------------------------------
(* Liveness. *)

\* However often the service fails, each run comes to an end.
RunsEnd == \A d \in Runs : <>(run[d].pc \in {"done", "blocked", "failed"})
=============================================================================
