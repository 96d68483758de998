---------------------------- MODULE SchemaPolicy ----------------------------
(***************************************************************************)
(* The pure core of Schema Sentry: canonical PostgreSQL types, the         *)
(* severity of a type change, the comparison of one column, the diff of    *)
(* two schemas and the effect an accepted change has on the baseline.      *)
(*                                                                         *)
(* A value that Python holds as "int or None" is a set with at most one    *)
(* element: {} is None and {n} is n.  A column that a schema lacks maps to *)
(* the constant Absent.  A string is whatever the code tells apart: a type *)
(* name keeps its text, a default expression is an element of Defaults.    *)
(*                                                                         *)
(* An operator with an underscore in its name is a seeded fault: the       *)
(* operator before the underscore with one plausible mistake.  Nothing     *)
(* uses it; it stands in for the right one when a property is tested.      *)
(***************************************************************************)
EXTENDS Integers

CONSTANTS
  Columns,    \* the ColumnRefs that can occur: a dataset and a name
  Types,      \* the canonical types that can occur
  Defaults,   \* the column default expressions, "no default" included
  Ordinals,   \* the ordinal positions
  Absent      \* the value of a schema at a column it does not have

CanonicalType ==
  [name: STRING, length: SUBSET Nat, precision: SUBSET Nat, scale: SUBSET Int]

ColumnDefinition ==
  [dtype: Types, nullable: BOOLEAN, default: Defaults, ordinal: Ordinals]

Schemas == [Columns -> ColumnDefinition \union {Absent}]

ASSUME TypesAssumption  == Types \subseteq CanonicalType
ASSUME AbsentAssumption == Absent \notin ColumnDefinition

NoColumns == [c \in Columns |-> Absent]

ColumnsOf(schema) == {c \in Columns : schema[c] # Absent}

-----------------------------------------------------------------------------
(* Canonical types. *)

\* The aliases, and the one upper-case name information_schema reports.
Aliases ==
  [bool |-> "boolean", decimal |-> "numeric", float8 |-> "double precision",
   int2 |-> "smallint", int4 |-> "integer", int8 |-> "bigint",
   timestamp |-> "timestamp without time zone",
   timestamptz |-> "timestamp with time zone",
   varchar |-> "character varying", ARRAY |-> "array"]

\* name is already in lower case and single-spaced, which _normalize_name sees to.
NormalizeName(name) ==
  IF name \in DOMAIN Aliases THEN Aliases[name] ELSE name

LengthTypes == {"character", "character varying", "bit", "bit varying"}

CanonicalizePostgresType_DataType(raw) ==
  [name |-> NormalizeName(raw.data_type), length |-> raw.length,
   precision |-> {}, scale |-> {}]

\* raw is a row of information_schema.columns as the collector selects it.  Its
\* udt_name is the type it names and how that name reads in lower case: the case,
\* the blanks and the schema that tell two types apart in the source are lost.
CanonicalName(raw) ==
  NormalizeName(IF raw.data_type = "USER-DEFINED"
                THEN raw.udt_name.folded ELSE raw.data_type)

CanonicalizePostgresType(raw) ==
  LET name == CanonicalName(raw)
  IN  [name      |-> name,
       length    |-> IF name \in LengthTypes THEN raw.length ELSE {},
       precision |-> IF name = "numeric" THEN raw.precision ELSE {},
       scale     |-> IF name = "numeric" THEN raw.scale ELSE {}]

-----------------------------------------------------------------------------
(* The severity of a type change. *)

IntegerRank == [smallint |-> 0, integer |-> 1, bigint |-> 2]

IntegerWidened_AnyRank(before, after) ==
  /\ before.name \in DOMAIN IntegerRank
  /\ after.name \in DOMAIN IntegerRank
  /\ IntegerRank[after.name] # IntegerRank[before.name]

IntegerWidened(before, after) ==
  /\ before.name \in DOMAIN IntegerRank
  /\ after.name \in DOMAIN IntegerRank
  /\ IntegerRank[after.name] > IntegerRank[before.name]

VarcharWidened(before, after) ==
  /\ before.name = "character varying"
  /\ after.name = "character varying"
  /\ \/ after.length = {}
     \/ \E n \in before.length : \E m \in after.length : m >= n

VarcharToText_EitherWay(before, after) ==
  {before.name, after.name} = {"character varying", "text"}

VarcharToText(before, after) ==
  before.name = "character varying" /\ after.name = "text"

NumericWidened_AnyScale(before, after) ==
  /\ before.name = "numeric"
  /\ after.name = "numeric"
  /\ \/ after.precision = {}
     \/ \E p \in before.precision : \E q \in after.precision : q >= p

NumericWidened(before, after) ==
  /\ before.name = "numeric"
  /\ after.name = "numeric"
  /\ \/ after.precision = {}
     \/ /\ before.scale = after.scale
        /\ \E p \in before.precision : \E q \in after.precision : q >= p

Widened(before, after) ==
  \/ IntegerWidened(before, after)
  \/ VarcharWidened(before, after)
  \/ VarcharToText(before, after)
  \/ NumericWidened(before, after)

ClassifyTypeChange(before, after) ==
  IF before = after THEN "INFO"
  ELSE IF Widened(before, after) THEN "WARNING" ELSE "BREAKING"

-----------------------------------------------------------------------------
(* The diff. *)

ChangeTypes ==
  {"ADD_COLUMN", "DROP_COLUMN", "TYPE_CHANGE", "NULLABILITY_CHANGE"}

Severities == {"INFO", "WARNING", "BREAKING"}

\* Whether comparing before with after reports a change of this kind.
Reports(kind, before, after) ==
  \/ kind = "ADD_COLUMN" /\ before = Absent /\ after # Absent
  \/ kind = "DROP_COLUMN" /\ before # Absent /\ after = Absent
  \/ /\ before # Absent /\ after # Absent
     /\ \/ kind = "TYPE_CHANGE" /\ before.dtype # after.dtype
        \/ kind = "NULLABILITY_CHANGE" /\ before.nullable # after.nullable

SchemaChange ==
  {c \in [column: Columns, kind: ChangeTypes, severity: Severities,
          before: ColumnDefinition \union {Absent},
          after: ColumnDefinition \union {Absent}] :
     Reports(c.kind, c.before, c.after)}

SeverityOf_Criticality(kind, column, before, after, dependencies) ==
  IF column \in dependencies THEN "CRITICAL" ELSE "WARNING"

SeverityOf(kind, column, before, after, dependencies) ==
  CASE kind = "ADD_COLUMN" -> IF after.nullable THEN "INFO" ELSE "WARNING"
    [] kind = "DROP_COLUMN" ->
         IF column \in dependencies THEN "BREAKING" ELSE "WARNING"
    [] kind = "TYPE_CHANGE" -> ClassifyTypeChange(before.dtype, after.dtype)
    [] kind = "NULLABILITY_CHANGE" ->
         IF ~before.nullable /\ after.nullable /\ column \in dependencies
         THEN "BREAKING" ELSE "WARNING"

CompareColumn(column, before, after, dependencies) ==
  {[column |-> column, kind |-> kind,
    severity |-> SeverityOf(kind, column, before, after, dependencies),
    before |-> before, after |-> after] :
     kind \in {k \in ChangeTypes : Reports(k, before, after)}}

DiffColumns(expected, observed, dependencies) ==
  UNION {CompareColumn(c, expected[c], observed[c], dependencies) : c \in Columns}

\* change_fingerprint hashes every field of a change and nothing else of its row.
Fingerprint(row) ==
  [column |-> row.column, kind |-> row.kind, severity |-> row.severity,
   before |-> row.before, after |-> row.after]

-----------------------------------------------------------------------------
(* Acceptance: the effect of one change on the expected columns. *)

\* apply() raises ValueError instead of accepting such a change.
CannotApply(change, expected) ==
  change.kind # "ADD_COLUMN" /\ expected[change.column] = Absent

Adopted_TypeOnly(change, definition) ==
  CASE change.kind = "ADD_COLUMN" ->
         IF definition = Absent THEN change.after ELSE definition
    [] change.kind = "DROP_COLUMN" -> Absent
    [] OTHER -> [definition EXCEPT !.dtype = change.after.dtype]

Adopted_ReportedAspect(change, definition) ==
  CASE change.kind = "ADD_COLUMN" ->
         IF definition = Absent THEN change.after ELSE definition
    [] change.kind = "DROP_COLUMN" -> Absent
    [] change.kind = "TYPE_CHANGE" ->
         [definition EXCEPT !.dtype = change.after.dtype]
    [] change.kind = "NULLABILITY_CHANGE" ->
         [definition EXCEPT !.nullable = change.after.nullable]

Adopted(change, definition) ==
  CASE change.kind = "ADD_COLUMN" ->
         IF definition = Absent THEN change.after ELSE definition
    [] change.kind = "DROP_COLUMN" -> Absent
    [] OTHER -> [definition EXCEPT !.dtype = change.after.dtype,
                                   !.nullable = change.after.nullable,
                                   !.default = change.after.default]

ApplyChange_WholeTable(change, expected) ==
  IF change.kind = "DROP_COLUMN" THEN NoColumns
  ELSE [expected EXCEPT ![change.column] = Adopted(change, @)]

ApplyChange(change, expected) ==
  [expected EXCEPT ![change.column] = Adopted(change, @)]
=============================================================================
