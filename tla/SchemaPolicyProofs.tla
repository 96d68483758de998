--------------------------- MODULE SchemaPolicyProofs ---------------------------
(***************************************************************************)
(* Lemmas about the policy that several components rest on, for any sets   *)
(* of columns, types, defaults and ordinals.                               *)
(***************************************************************************)
EXTENDS SchemaPolicy, TLAPS

-----------------------------------------------------------------------------
(* Schemas, diffs and acceptances are of the right shape. *)

\* A source that was never observed has a schema too.
LEMMA NoColumnsType == NoColumns \in Schemas
BY DEF NoColumns, Schemas

\* Every kind of change has a severity.
LEMMA SeverityType ==
  ASSUME NEW kind \in ChangeTypes, NEW column, NEW before, NEW after, NEW deps
  PROVE  SeverityOf(kind, column, before, after, deps) \in Severities
BY DEF ChangeTypes, SeverityOf, Severities, ClassifyTypeChange

\* A diff of two schemas is made of well-formed changes: an added column has no
\* definition before, a dropped one none after, the other kinds have both.
LEMMA DiffType ==
  ASSUME NEW expected \in Schemas, NEW observed \in Schemas, NEW deps
  PROVE  DiffColumns(expected, observed, deps) \subseteq SchemaChange
<1> SUFFICES ASSUME NEW c \in DiffColumns(expected, observed, deps)
             PROVE  c \in SchemaChange
  OBVIOUS
<1>1. PICK column \in Columns :
        c \in CompareColumn(column, expected[column], observed[column], deps)
  BY DEF DiffColumns
<1>2. PICK kind \in ChangeTypes :
        /\ Reports(kind, expected[column], observed[column])
        /\ c = [column |-> column, kind |-> kind,
                severity |-> SeverityOf(kind, column, expected[column],
                                        observed[column], deps),
                before |-> expected[column], after |-> observed[column]]
  BY <1>1 DEF CompareColumn
<1>3. /\ expected[column] \in ColumnDefinition \union {Absent}
      /\ observed[column] \in ColumnDefinition \union {Absent}
  BY DEF Schemas
<1> QED
  BY <1>2, <1>3, SeverityType DEF SchemaChange

\* A change that can be applied turns a schema into a schema.
LEMMA ApplyType ==
  ASSUME NEW row, NEW expected \in Schemas,
         row.column \in Columns, row.kind \in ChangeTypes,
         row.before \in ColumnDefinition \union {Absent},
         row.after \in ColumnDefinition \union {Absent},
         Reports(row.kind, row.before, row.after),
         ~CannotApply(row, expected)
  PROVE  ApplyChange(row, expected) \in Schemas
<1> DEFINE old == expected[row.column]
<1>1. row.column \in Columns /\ row.kind \in ChangeTypes
  OBVIOUS
<1>2. old \in ColumnDefinition \union {Absent}
  BY DEF Schemas
<1>3. Adopted(row, old) \in ColumnDefinition \union {Absent}
  <2>1. CASE row.kind = "ADD_COLUMN"
    BY <2>1, <1>2 DEF Adopted, Reports
  <2>2. CASE row.kind = "DROP_COLUMN"
    BY <2>2 DEF Adopted
  <2>3. CASE row.kind \in {"TYPE_CHANGE", "NULLABILITY_CHANGE"}
    <3>1. old # Absent
      BY <2>3 DEF CannotApply
    <3>2. row.after \in ColumnDefinition
      BY <2>3 DEF Reports
    <3>3. Adopted(row, old) = [old EXCEPT !.dtype = row.after.dtype,
                                          !.nullable = row.after.nullable,
                                          !.default = row.after.default]
      BY <2>3 DEF Adopted
    <3> QED
      BY <3>1, <3>2, <3>3, <1>2 DEF ColumnDefinition
  <2> QED
    BY <2>1, <2>2, <2>3, <1>1 DEF ChangeTypes
<1> QED
  BY <1>1, <1>3 DEF ApplyChange, Schemas

-----------------------------------------------------------------------------
(* The order that "compatible" is. *)

\* None or one number.
Optional(set) == set = {} \/ \E n \in Int : set = {n}

\* What canonicalize_postgres_type returns: a length or digits only where the
\* name has them, and no scale without a precision.
Canonical(type) ==
  /\ Optional(type.length) /\ Optional(type.precision) /\ Optional(type.scale)
  /\ type.name \notin LengthTypes => type.length = {}
  /\ type.name # "numeric" => type.precision = {} /\ type.scale = {}
  /\ type.precision = {} => type.scale = {}
  /\ type = [name |-> type.name, length |-> type.length,
             precision |-> type.precision, scale |-> type.scale]

\* A row of information_schema.columns has at most one number of each kind, and
\* reports a scale only with a precision.
LEMMA CanonicalizeIsCanonical ==
  ASSUME NEW raw, Optional(raw.length), Optional(raw.precision), Optional(raw.scale),
         raw.precision = {} => raw.scale = {}
  PROVE  Canonical(CanonicalizePostgresType(raw))
<1> DEFINE name == CanonicalName(raw)
           length == IF name \in LengthTypes THEN raw.length ELSE {}
           precision == IF name = "numeric" THEN raw.precision ELSE {}
           scale == IF name = "numeric" THEN raw.scale ELSE {}
<1>1. CanonicalizePostgresType(raw)
        = [name |-> name, length |-> length, precision |-> precision, scale |-> scale]
  BY DEF CanonicalizePostgresType
<1>2. Optional(length) /\ Optional(precision) /\ Optional(scale)
  BY DEF Optional
<1>3. /\ name \notin LengthTypes => length = {}
      /\ name # "numeric" => precision = {} /\ scale = {}
      /\ precision = {} => scale = {}
  OBVIOUS
<1> HIDE DEF name, length, precision, scale
<1> QED
  BY <1>1, <1>2, <1>3 DEF Canonical

\* The four rules concern different names.
LEMMA WidenedNames ==
  ASSUME NEW a, NEW b, Widened(a, b)
  PROVE  \/ /\ a.name \in DOMAIN IntegerRank /\ b.name \in DOMAIN IntegerRank
            /\ IntegerWidened(a, b)
         \/ a.name = "character varying" /\ b.name = "character varying" /\ VarcharWidened(a, b)
         \/ a.name = "character varying" /\ b.name = "text"
         \/ a.name = "numeric" /\ b.name = "numeric" /\ NumericWidened(a, b)
BY DEF Widened, IntegerWidened, VarcharWidened, VarcharToText, NumericWidened

LEMMA IntegerNames == DOMAIN IntegerRank = {"smallint", "integer", "bigint"}
BY DEF IntegerRank

LEMMA IntegerRanks ==
  \A name \in {"smallint", "integer", "bigint"} : IntegerRank[name] \in Int
BY DEF IntegerRank

\* Each rule, applied twice, is a rule again.
LEMMA WidenedTransitive ==
  ASSUME NEW a, NEW b, NEW c, Canonical(a), Canonical(b), Canonical(c),
         Widened(a, b), Widened(b, c)
  PROVE  Widened(a, c)
<1>1. CASE a.name \in DOMAIN IntegerRank
  <2>1. IntegerWidened(a, b) /\ IntegerWidened(b, c)
    BY <1>1, WidenedNames, IntegerNames
  <2>2. /\ a.name \in {"smallint", "integer", "bigint"}
        /\ b.name \in {"smallint", "integer", "bigint"}
        /\ c.name \in {"smallint", "integer", "bigint"}
        /\ IntegerRank[b.name] > IntegerRank[a.name]
        /\ IntegerRank[c.name] > IntegerRank[b.name]
    BY <2>1, IntegerNames DEF IntegerWidened
  <2>3. IntegerRank[c.name] > IntegerRank[a.name]
    BY <2>2, IntegerRanks
  <2> QED
    BY <2>2, <2>3, IntegerNames DEF IntegerWidened, Widened
<1>2. CASE a.name = "character varying" /\ c.name = "text"
  BY <1>2 DEF VarcharToText, Widened
<1>3. CASE a.name = "character varying" /\ c.name # "text"
  <2>1. VarcharWidened(a, b) /\ VarcharWidened(b, c)
    BY <1>3, WidenedNames, IntegerNames
  <2>2. a.name = "character varying" /\ c.name = "character varying"
    BY <2>1 DEF VarcharWidened
  <2>3. CASE c.length = {}
    BY <2>2, <2>3 DEF VarcharWidened, Widened
  <2>4. CASE c.length # {}
    <3>1. PICK m \in b.length, k \in c.length : k >= m
      BY <2>1, <2>4 DEF VarcharWidened
    <3>2. PICK n \in a.length, l \in b.length : l >= n
      BY <2>1, <3>1 DEF VarcharWidened
    <3>3. l = m /\ k \in Int /\ m \in Int /\ n \in Int
      BY <3>1, <3>2 DEF Canonical, Optional
    <3>4. k >= n
      BY <3>1, <3>2, <3>3
    <3> QED
      BY <2>2, <3>4 DEF VarcharWidened, Widened
  <2> QED
    BY <2>3, <2>4
<1>4. CASE a.name = "numeric"
  <2>1. NumericWidened(a, b) /\ NumericWidened(b, c)
    BY <1>4, WidenedNames, IntegerNames
  <2>2. NumericWidened(a, c)
    BY <2>1 DEF NumericWidened, Canonical, Optional
  <2> QED
    BY <2>2 DEF Widened
<1> QED
  BY <1>1, <1>2, <1>3, <1>4, WidenedNames

\* Two types that can each be widened to the other are the same.
LEMMA WidenedAntisymmetric ==
  ASSUME NEW a, NEW b, Canonical(a), Canonical(b), Widened(a, b), Widened(b, a)
  PROVE  a = b
<1>1. CASE a.name \in DOMAIN IntegerRank
  <2>1. IntegerWidened(a, b) /\ IntegerWidened(b, a)
    BY <1>1, WidenedNames, IntegerNames
  <2>2. /\ a.name \in {"smallint", "integer", "bigint"}
        /\ b.name \in {"smallint", "integer", "bigint"}
        /\ IntegerRank[b.name] > IntegerRank[a.name]
        /\ IntegerRank[a.name] > IntegerRank[b.name]
    BY <2>1, IntegerNames DEF IntegerWidened
  <2> QED
    BY <2>2, IntegerRanks
<1>2. CASE a.name = "character varying"
  <2>1. VarcharWidened(a, b) /\ VarcharWidened(b, a)
    BY <1>2, WidenedNames, IntegerNames
  <2>2. a.length = b.length
    <3>1. CASE a.length = {} \/ b.length = {}
      BY <3>1, <2>1 DEF VarcharWidened
    <3>2. CASE a.length # {} /\ b.length # {}
      <4>1. PICK n \in Int, m \in Int : a.length = {n} /\ b.length = {m}
        BY <3>2 DEF Canonical, Optional
      <4>2. m >= n /\ n >= m
        BY <2>1, <4>1 DEF VarcharWidened
      <4> QED
        BY <4>1, <4>2
    <3> QED
      BY <3>1, <3>2
  <2>3. /\ a.name = b.name
        /\ a.precision = b.precision /\ a.scale = b.scale
    BY <1>2, <2>1 DEF VarcharWidened, Canonical
  <2> QED
    BY <2>2, <2>3 DEF Canonical
<1>3. CASE a.name = "numeric"
  <2>1. NumericWidened(a, b) /\ NumericWidened(b, a)
    BY <1>3, WidenedNames, IntegerNames
  <2>2. a.precision = b.precision /\ a.scale = b.scale
    BY <2>1 DEF NumericWidened, Canonical, Optional
  <2>3. a.name = b.name /\ a.length = b.length
    BY <1>3, <2>1 DEF NumericWidened, Canonical, LengthTypes
  <2> QED
    BY <2>2, <2>3 DEF Canonical
<1> QED
  BY <1>1, <1>2, <1>3, WidenedNames

\* Two compatible changes make a compatible change, whatever the lengths and
\* digits: it does not matter which baseline an evolution is compared with
\* (type_rules.py:68-100).
THEOREM CompatibleComposes ==
  ASSUME NEW a, NEW b, NEW c, Canonical(a), Canonical(b), Canonical(c),
         ClassifyTypeChange(a, b) = "WARNING", ClassifyTypeChange(b, c) = "WARNING"
  PROVE  ClassifyTypeChange(a, c) = "WARNING"
<1>1. a # b /\ Widened(a, b) /\ Widened(b, c)
  BY DEF ClassifyTypeChange
<1>2. Widened(a, c)
  BY <1>1, WidenedTransitive
<1>3. a # c
  BY <1>1, WidenedAntisymmetric
<1> QED
  BY <1>2, <1>3 DEF ClassifyTypeChange

\* The way back of a compatible change is BREAKING (type_rules.py:75, 80, 85, 91, 98).
THEOREM CompatibleIsOneWay ==
  ASSUME NEW a, NEW b, Canonical(a), Canonical(b),
         ClassifyTypeChange(a, b) = "WARNING"
  PROVE  ClassifyTypeChange(b, a) = "BREAKING"
<1>1. a # b /\ Widened(a, b)
  BY DEF ClassifyTypeChange
<1>2. ~Widened(b, a)
  BY <1>1, WidenedAntisymmetric
<1> QED
  BY <1>1, <1>2 DEF ClassifyTypeChange
=============================================================================
