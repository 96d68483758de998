--------------------------- MODULE BaselineReview ---------------------------
(***************************************************************************)
(* A review without concurrency: a scan compares the source with the       *)
(* baseline, the operator accepts its changes one by one in any order, and *)
(* only then does the next scan look again.  It isolates what diff.py and  *)
(* apply() owe each other; ScanLifecycle adds the transactions.            *)
(***************************************************************************)
EXTENDS SchemaPolicy

VARIABLES
  expected,      \* expected_columns
  observed,      \* the source as the last scan saw it
  dependencies,  \* upstream columns of the lineage at that scan
  open           \* the changes of that scan not yet accepted

vars == <<expected, observed, dependencies, open>>

TypeOK == /\ expected \in Schemas
          /\ observed \in Schemas
          /\ dependencies \subseteq Columns
          /\ open \subseteq SchemaChange

Scan(snapshot, upstream) ==
  /\ expected # NoColumns
  /\ observed' = snapshot
  /\ dependencies' = upstream
  /\ open' = DiffColumns(expected, snapshot, upstream)
  /\ UNCHANGED expected

\* A scan that finds no expected column adopts what it observes.
InitialBaseline(snapshot) ==
  /\ expected = NoColumns
  /\ expected' = snapshot
  /\ observed' = snapshot
  /\ UNCHANGED <<dependencies, open>>

Accept(change) ==
  /\ ~CannotApply(change, expected)
  /\ expected' = ApplyChange(change, expected)
  /\ open' = open \ {change}
  /\ UNCHANGED <<observed, dependencies>>

Init == /\ expected = NoColumns
        /\ observed = NoColumns
        /\ dependencies = {}
        /\ open = {}

Next == \/ /\ open = {}
           /\ \E snapshot \in Schemas \ {NoColumns} :
                \/ InitialBaseline(snapshot)
                \/ \E upstream \in SUBSET Columns : Scan(snapshot, upstream)
        \/ \E change \in open : Accept(change)

Spec == Init /\ [][Next]_vars

-----------------------------------------------------------------------------
\* No order of acceptances leads to a change apply() must refuse with
\* ValueError (repositories/changes.py:61-67): the changes of one scan never
\* take the baseline column away from one another.
EveryOpenChangeApplies == \A change \in open : ~CannotApply(change, expected)

\* Accepting every change of a scan, in any order and without a scan between,
\* leaves nothing to report: apply() adopts all that compare_column looks at
\* (repositories/changes.py:48-70 against domain/diff.py:33-52).
FullReviewAligns ==
  open = {} => DiffColumns(expected, observed, dependencies) = {}

\* One acceptance settles its own column and touches no other: what the next
\* scan would report loses exactly the changes of that column.
AcceptanceSettlesItsColumn ==
  [][\A change \in open :
       Accept(change) =>
         DiffColumns(expected, observed, dependencies)' =
           {c \in DiffColumns(expected, observed, dependencies) :
              c.column # change.column}]_vars
=============================================================================
