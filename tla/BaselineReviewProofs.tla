------------------------- MODULE BaselineReviewProofs -------------------------
(***************************************************************************)
(* A review can always be completed and leaves nothing to report, for any  *)
(* schemas and lineages.  The invariant: a column is either untouched, and *)
(* its open changes are its whole difference, or settled, and what is left *)
(* open are changes of its definition that are still there to be adopted.  *)
(***************************************************************************)
EXTENDS BaselineReview, SchemaPolicyProofs, TLAPS

-----------------------------------------------------------------------------
(* The invariant. *)

Settled(column) == \A kind \in ChangeTypes :
                     ~Reports(kind, expected[column], observed[column])

Untouched(column) ==
  {change \in open : change.column = column} =
    CompareColumn(column, expected[column], observed[column], dependencies)

Adjusted(column) ==
  /\ Settled(column)
  /\ expected[column] # Absent
  /\ \A change \in open : change.column = column =>
       change.kind \in {"TYPE_CHANGE", "NULLABILITY_CHANGE"}

ReviewInvariant ==
  /\ \A change \in open : change.after = observed[change.column]
  /\ \A column \in Columns : Untouched(column) \/ Adjusted(column)

-----------------------------------------------------------------------------
(* Types. *)

LEMMA ReviewTypeInit == Init => TypeOK
BY NoColumnsType DEF Init, TypeOK

\* What one acceptance does to the baseline.
LEMMA AcceptKeepsSchema ==
  ASSUME TypeOK, NEW change \in open, Accept(change)
  PROVE  /\ expected' \in Schemas
         /\ expected' = [expected EXCEPT ![change.column] =
                           Adopted(change, expected[change.column])]
<1>1. /\ change.column \in Columns /\ change.kind \in ChangeTypes
      /\ change.before \in ColumnDefinition \union {Absent}
      /\ change.after \in ColumnDefinition \union {Absent}
      /\ Reports(change.kind, change.before, change.after)
  BY DEF TypeOK, SchemaChange
<1>2. ~CannotApply(change, expected) /\ expected' = ApplyChange(change, expected)
  BY DEF Accept
<1>3. expected' \in Schemas
  BY <1>1, <1>2, ApplyType DEF TypeOK
<1> QED
  BY <1>2, <1>3 DEF ApplyChange

LEMMA ReviewTypeNext == TypeOK /\ [Next]_vars => TypeOK'
<1> SUFFICES ASSUME TypeOK, [Next]_vars PROVE TypeOK'
  OBVIOUS
<1>1. ASSUME NEW snapshot \in Schemas, InitialBaseline(snapshot) PROVE TypeOK'
  BY <1>1 DEF InitialBaseline, TypeOK
<1>2. ASSUME NEW snapshot \in Schemas, NEW upstream \in SUBSET Columns,
             Scan(snapshot, upstream)
      PROVE  TypeOK'
  BY <1>2, DiffType DEF Scan, TypeOK
<1>3. ASSUME NEW change \in open, Accept(change) PROVE TypeOK'
  BY <1>3, AcceptKeepsSchema DEF Accept, TypeOK
<1>4. CASE UNCHANGED vars
  BY <1>4 DEF vars, TypeOK
<1> QED
  BY <1>1, <1>2, <1>3, <1>4 DEF Next

\* A review keeps a schema a schema and changes well-formed.
THEOREM ReviewTyped == Spec => []TypeOK
BY ReviewTypeInit, ReviewTypeNext, PTL DEF Spec

-----------------------------------------------------------------------------
(* One column. *)

\* A column compared with itself has no changes.
LEMMA SameIsSettled ==
  ASSUME NEW kind, NEW definition PROVE ~Reports(kind, definition, definition)
BY DEF Reports

\* A settled column contributes nothing to the diff.
LEMMA SettledHasNoChanges ==
  ASSUME NEW column, Settled(column)
  PROVE  CompareColumn(column, expected[column], observed[column], dependencies) = {}
BY DEF Settled, CompareColumn

\* What is known of an open change of a column.
LEMMA OpenChangeOf ==
  ASSUME TypeOK, ReviewInvariant, NEW change \in open
  PROVE  /\ change.column \in Columns /\ change.kind \in ChangeTypes
         /\ change.after = observed[change.column]
         /\ change.after \in ColumnDefinition \union {Absent}
         /\ expected[change.column] \in ColumnDefinition \union {Absent}
         /\ Adjusted(change.column)
              \/ Reports(change.kind, expected[change.column], observed[change.column])
<1>1. /\ change.column \in Columns /\ change.kind \in ChangeTypes
      /\ change.after \in ColumnDefinition \union {Absent}
  BY DEF TypeOK, SchemaChange
<1>2. expected[change.column] \in ColumnDefinition \union {Absent}
  BY <1>1 DEF TypeOK, Schemas
<1>3. ASSUME Untouched(change.column)
      PROVE  Reports(change.kind, expected[change.column], observed[change.column])
  BY <1>3 DEF Untouched, CompareColumn
<1> QED
  BY <1>1, <1>2, <1>3 DEF ReviewInvariant

\* An adopted change leaves its column settled, and there unless it is a drop;
\* a change that adds or drops a column is the only one of it.
LEMMA AcceptSettles ==
  ASSUME TypeOK, ReviewInvariant, NEW change \in open, Accept(change)
  PROVE  LET column == change.column IN
         /\ \A kind \in ChangeTypes : ~Reports(kind, expected'[column], observed[column])
         /\ \/ /\ expected'[column] # Absent
               /\ \A other \in open : other.column = column =>
                    other.kind \in {"TYPE_CHANGE", "NULLABILITY_CHANGE"}
            \/ \A other \in open : other.column = column => other = change
<1> DEFINE column == change.column
           old    == expected[column]
           new    == observed[column]
<1>1. /\ column \in Columns /\ change.kind \in ChangeTypes
      /\ change.after = new
      /\ new \in ColumnDefinition \union {Absent}
      /\ old \in ColumnDefinition \union {Absent}
      /\ Adjusted(column) \/ Reports(change.kind, old, new)
  BY OpenChangeOf
<1>2. expected'[column] = Adopted(change, old)
  BY <1>1, AcceptKeepsSchema DEF TypeOK, Schemas
<1>3. CASE change.kind = "ADD_COLUMN"
  <2>1. ~Adjusted(column)
    BY <1>3 DEF Adjusted
  <2>2. old = Absent /\ new # Absent
    BY <1>1, <1>3, <2>1 DEF Reports
  <2>3. expected'[column] = new
    BY <1>1, <1>2, <1>3, <2>2 DEF Adopted
  <2>4. ASSUME NEW other \in open, other.column = column PROVE other = change
    <3>1. Untouched(column)
      BY <1>1, <2>1 DEF ReviewInvariant
    <3>2. other \in CompareColumn(column, old, new, dependencies)
          /\ change \in CompareColumn(column, old, new, dependencies)
      BY <2>4, <3>1 DEF Untouched
    <3> QED
      BY <2>2, <3>2 DEF CompareColumn, Reports
  <2> QED
    BY <2>3, <2>4, SameIsSettled
<1>4. CASE change.kind = "DROP_COLUMN"
  <2>1. ~Adjusted(column)
    BY <1>4 DEF Adjusted
  <2>2. old # Absent /\ new = Absent
    BY <1>1, <1>4, <2>1 DEF Reports
  <2>3. expected'[column] = new
    BY <1>2, <1>4, <2>2 DEF Adopted
  <2>4. ASSUME NEW other \in open, other.column = column PROVE other = change
    <3>1. Untouched(column)
      BY <1>1, <2>1 DEF ReviewInvariant
    <3>2. other \in CompareColumn(column, old, new, dependencies)
          /\ change \in CompareColumn(column, old, new, dependencies)
      BY <2>4, <3>1 DEF Untouched
    <3> QED
      BY <2>2, <3>2 DEF CompareColumn, Reports
  <2> QED
    BY <2>3, <2>4, SameIsSettled
<1>5. CASE change.kind \in {"TYPE_CHANGE", "NULLABILITY_CHANGE"}
  <2>1. old # Absent
    BY <1>5 DEF Accept, CannotApply
  <2>2. new # Absent
    <3>1. CASE Adjusted(column)
      BY <1>1, <2>1, <3>1 DEF Adjusted, Settled, Reports, ChangeTypes
    <3>2. CASE Reports(change.kind, old, new)
      BY <1>5, <3>2 DEF Reports
    <3> QED
      BY <1>1, <3>1, <3>2
  <2>3. expected'[column] = [old EXCEPT !.dtype = new.dtype, !.nullable = new.nullable,
                                        !.default = new.default]
    BY <1>1, <1>2, <1>5 DEF Adopted
  <2>4. /\ expected'[column] \in ColumnDefinition
        /\ expected'[column].dtype = new.dtype
        /\ expected'[column].nullable = new.nullable
    BY <1>1, <2>1, <2>2, <2>3 DEF ColumnDefinition
  <2>5. expected'[column] # Absent
    BY <2>4, AbsentAssumption
  <2>6. \A kind \in ChangeTypes : ~Reports(kind, expected'[column], new)
    BY <2>2, <2>4, <2>5 DEF Reports
  <2>7. ASSUME NEW other \in open, other.column = column
        PROVE  other.kind \in {"TYPE_CHANGE", "NULLABILITY_CHANGE"}
    <3>1. other.kind \in ChangeTypes /\ (Adjusted(column) \/ Reports(other.kind, old, new))
      BY <2>7, OpenChangeOf
    <3> QED
      BY <2>1, <2>2, <2>7, <3>1 DEF Adjusted, Reports, ChangeTypes
  <2> QED
    BY <2>5, <2>6, <2>7
<1> QED
  BY <1>1, <1>3, <1>4, <1>5 DEF ChangeTypes

-----------------------------------------------------------------------------
(* The review. *)

LEMMA ReviewInit == Init => ReviewInvariant
<1> SUFFICES ASSUME Init PROVE ReviewInvariant
  OBVIOUS
<1>1. open = {} /\ expected = observed
  BY DEF Init
<1>2. \A column \in Columns : Untouched(column)
  BY <1>1, SameIsSettled DEF Untouched, CompareColumn
<1> QED
  BY <1>1, <1>2 DEF ReviewInvariant

\* A scan opens the whole difference.
LEMMA ScanKeepsReview ==
  ASSUME NEW snapshot, NEW upstream, Scan(snapshot, upstream)
  PROVE  ReviewInvariant'
<1>1. /\ expected' = expected /\ observed' = snapshot /\ dependencies' = upstream
      /\ open' = DiffColumns(expected, snapshot, upstream)
  BY DEF Scan
<1>2. \A change \in open' : change.after = observed'[change.column]
  BY <1>1 DEF DiffColumns, CompareColumn
<1>3. \A column \in Columns : Untouched(column)'
  BY <1>1 DEF Untouched, DiffColumns, CompareColumn
<1> QED
  BY <1>2, <1>3 DEF ReviewInvariant

\* An adopted baseline has no changes.
LEMMA InitialKeepsReview ==
  ASSUME open = {}, NEW snapshot, InitialBaseline(snapshot)
  PROVE  ReviewInvariant'
<1>1. open' = {} /\ expected' = observed'
  BY DEF InitialBaseline
<1>2. \A column \in Columns : Untouched(column)'
  BY <1>1, SameIsSettled DEF Untouched, CompareColumn
<1> QED
  BY <1>1, <1>2 DEF ReviewInvariant

\* An acceptance settles one column and leaves the others as they were.
LEMMA AcceptKeepsReview ==
  ASSUME TypeOK, ReviewInvariant, NEW change \in open, Accept(change)
  PROVE  ReviewInvariant'
<1>1. /\ open' = open \ {change} /\ UNCHANGED <<observed, dependencies>>
      /\ \A column \in Columns : column # change.column =>
           expected'[column] = expected[column]
  BY AcceptKeepsSchema DEF Accept, TypeOK, Schemas
<1>2. \A other \in open' : other.after = observed'[other.column]
  BY <1>1 DEF ReviewInvariant
<1>3. ASSUME NEW column \in Columns, column # change.column
      PROVE  Untouched(column)' \/ Adjusted(column)'
  <2>1. CASE Untouched(column)
    BY <1>1, <1>3, <2>1 DEF Untouched
  <2>2. CASE Adjusted(column)
    BY <1>1, <1>3, <2>2 DEF Adjusted, Settled
  <2> QED
    BY <2>1, <2>2 DEF ReviewInvariant
<1>4. Untouched(change.column)' \/ Adjusted(change.column)'
  <2>1. Settled(change.column)'
    BY <1>1, AcceptSettles DEF Settled
  <2>2. CASE /\ expected'[change.column] # Absent
             /\ \A other \in open : other.column = change.column =>
                  other.kind \in {"TYPE_CHANGE", "NULLABILITY_CHANGE"}
    BY <1>1, <2>1, <2>2 DEF Adjusted
  <2>3. CASE \A other \in open : other.column = change.column => other = change
    <3>1. {other \in open' : other.column = change.column} = {}
      BY <1>1, <2>3
    <3>2. CompareColumn(change.column, expected'[change.column],
                        observed'[change.column], dependencies') = {}
      BY <2>1 DEF Settled, CompareColumn
    <3> QED
      BY <3>1, <3>2 DEF Untouched
  <2> QED
    BY <2>2, <2>3, AcceptSettles
<1> QED
  BY <1>2, <1>3, <1>4 DEF ReviewInvariant

LEMMA ReviewNext == TypeOK /\ ReviewInvariant /\ [Next]_vars => ReviewInvariant'
<1> SUFFICES ASSUME TypeOK, ReviewInvariant, [Next]_vars PROVE ReviewInvariant'
  OBVIOUS
<1>1. CASE UNCHANGED vars
  BY <1>1 DEF vars, ReviewInvariant, Untouched, Adjusted, Settled
<1> QED
  BY <1>1, ScanKeepsReview, InitialKeepsReview, AcceptKeepsReview DEF Next

LEMMA ReviewCorrect == Spec => [](TypeOK /\ ReviewInvariant)
BY ReviewInit, ReviewNext, ReviewTypeInit, ReviewTypeNext, PTL DEF Spec

\* In any order of acceptances, over any schemas: apply() never has to refuse a
\* change of the scan that is being reviewed.
THEOREM EveryChangeCanBeAccepted == Spec => []EveryOpenChangeApplies
<1>1. TypeOK /\ ReviewInvariant => EveryOpenChangeApplies
  <2> SUFFICES ASSUME TypeOK, ReviewInvariant, NEW change \in open,
                      change.kind # "ADD_COLUMN", expected[change.column] = Absent
               PROVE  FALSE
    BY DEF EveryOpenChangeApplies, CannotApply
  <2> QED
    BY OpenChangeOf DEF Adjusted, Reports
<1> QED
  BY <1>1, ReviewCorrect, PTL

\* Whatever the order, a review in which everything was accepted leaves a
\* baseline from which the source does not differ.
THEOREM ReviewsAlign == Spec => []FullReviewAligns
<1>1. ReviewInvariant => FullReviewAligns
  <2> SUFFICES ASSUME ReviewInvariant, open = {}, NEW column \in Columns
               PROVE  CompareColumn(column, expected[column], observed[column],
                                    dependencies) = {}
    BY DEF FullReviewAligns, DiffColumns
  <2>1. CASE Untouched(column)
    BY <2>1 DEF Untouched
  <2>2. CASE Adjusted(column)
    BY <2>2, SettledHasNoChanges DEF Adjusted
  <2> QED
    BY <2>1, <2>2 DEF ReviewInvariant
<1> QED
  BY <1>1, ReviewCorrect, PTL

\* An acceptance takes exactly its column out of what the next scan would report.
THEOREM AcceptanceIsLocal == Spec => AcceptanceSettlesItsColumn
<1>1. ASSUME TypeOK, ReviewInvariant, NEW change \in open, Accept(change)
      PROVE  DiffColumns(expected, observed, dependencies)' =
               {c \in DiffColumns(expected, observed, dependencies) :
                  c.column # change.column}
  <2>1. /\ UNCHANGED <<observed, dependencies>>
        /\ \A column \in Columns : column # change.column =>
             expected'[column] = expected[column]
    BY <1>1, AcceptKeepsSchema DEF Accept, TypeOK, Schemas
  <2>2. CompareColumn(change.column, expected'[change.column],
                      observed[change.column], dependencies) = {}
    BY <1>1, AcceptSettles DEF CompareColumn
  <2>3. \A column : \A c \in CompareColumn(column, expected[column], observed[column],
                                          dependencies) : c.column = column
    BY DEF CompareColumn
  <2>4. ASSUME NEW c \in DiffColumns(expected, observed, dependencies)'
        PROVE  c \in DiffColumns(expected, observed, dependencies)
               /\ c.column # change.column
    <3>1. PICK column \in Columns :
            c \in CompareColumn(column, expected'[column], observed[column], dependencies)
      BY <2>1, <2>4 DEF DiffColumns
    <3>2. column # change.column
      BY <2>2, <3>1
    <3> QED
      BY <2>1, <2>3, <3>1, <3>2 DEF DiffColumns
  <2>5. ASSUME NEW c \in DiffColumns(expected, observed, dependencies),
               c.column # change.column
        PROVE  c \in DiffColumns(expected, observed, dependencies)'
    <3>1. PICK column \in Columns :
            c \in CompareColumn(column, expected[column], observed[column], dependencies)
      BY <2>5 DEF DiffColumns
    <3>2. column # change.column
      BY <2>3, <2>5, <3>1
    <3> QED
      BY <2>1, <3>1, <3>2 DEF DiffColumns
  <2> QED
    BY <2>4, <2>5
<1>2. TypeOK /\ ReviewInvariant =>
        \A change \in open :
          Accept(change) =>
            DiffColumns(expected, observed, dependencies)' =
              {c \in DiffColumns(expected, observed, dependencies) :
                 c.column # change.column}
  BY <1>1
<1> QED
  BY <1>2, ReviewCorrect, PTL DEF AcceptanceSettlesItsColumn
===============================================================================
