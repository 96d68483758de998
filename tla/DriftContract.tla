---------------------------- MODULE DriftContract ----------------------------
(***************************************************************************)
(* What Schema Sentry promises about one baseline, without requests,       *)
(* transactions or locks: the open changes are the difference between the  *)
(* baseline and what some complete scan observed, less what was accepted   *)
(* since, and only an acceptance changes an established baseline.  Every   *)
(* operation is one step, so ScanLifecycle implements it only if each scan *)
(* and each acceptance takes effect as if nothing had run beside it.       *)
(*                                                                         *)
(* What is different and what a change does to a baseline is the policy's  *)
(* business: the contract holds for whatever operators stand for it.       *)
(***************************************************************************)
EXTENDS Naturals

CONSTANTS
  Lineages,            \* the sets of columns pipelines can depend on
  NoColumns,           \* the baseline before the first scan
  Snapshots,           \* what the source can look like
  DiffColumns(_,_,_),  \* the changes between two schemas under a lineage
  CannotApply(_,_),    \* whether a change has nothing to change in a baseline
  ApplyChange(_,_)     \* the baseline with a change adopted

VARIABLES
  baseline,   \* the expected schema
  version,    \* 1, and one more for each acceptance
  open,       \* the changes that wait for a decision
  reported    \* every change a scan ever reported

state == <<baseline, version, open, reported>>

Init ==
  /\ baseline = NoColumns
  /\ version = 1
  /\ open = {}
  /\ reported = {}

\* The first complete observation is adopted as it is; so is the first one
\* after the last column of the baseline was accepted as dropped.
Establish ==
  /\ baseline = NoColumns
  /\ baseline' \in Snapshots \ {NoColumns}
  /\ UNCHANGED <<version, open, reported>>

\* A scan replaces the open changes by the whole difference; which drops are
\* BREAKING depends on the lineage of the moment.
Drift ==
  /\ baseline # NoColumns
  /\ \E observed \in Snapshots \ {NoColumns} : \E dependencies \in Lineages :
       open' = DiffColumns(baseline, observed, dependencies)
  /\ reported' = reported \union open'
  /\ UNCHANGED <<baseline, version>>

Adopt(change) ==
  /\ ~CannotApply(change, baseline)
  /\ baseline' = ApplyChange(change, baseline)
  /\ version' = version + 1
  /\ UNCHANGED reported

AcceptOpen(change) ==
  /\ Adopt(change)
  /\ open' = open \ {change}

\* The change was resolved, and perhaps reported again, while its acceptance
\* was under way: scans do not count as a new version.
AcceptWithdrawn(change) ==
  /\ Adopt(change)
  /\ UNCHANGED open

Next ==
  \/ Establish
  \/ Drift
  \/ \E change \in open : AcceptOpen(change)
  \/ \E change \in reported : AcceptWithdrawn(change)

Spec == Init /\ [][Next]_state
=============================================================================
