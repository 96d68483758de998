---------------------------- MODULE TypeEvolution ----------------------------
(***************************************************************************)
(* A column whose type is altered again and again, observed through        *)
(* information_schema and judged by classify_type_change.  The last three  *)
(* types are kept, so that the judgement of two steps can be compared with *)
(* the judgement of the direct change, the one a baseline that accepted    *)
(* nothing in between would see.                                           *)
(***************************************************************************)
EXTENDS SchemaPolicy, Sequences

CONSTANTS
  RawTypes,   \* the information_schema rows the column can have
  Limit       \* the largest length, or number of digits, told apart

AtMostOne(set) == \A m, n \in set : m = n

\* information_schema reports lengths of character and bit types, a scale only with
\* a precision, and of the aliases none but ARRAY: the others are udt_names.
Reported(raw) ==
  /\ raw.length \subseteq Int /\ AtMostOne(raw.length)
  /\ raw.precision \subseteq Int /\ AtMostOne(raw.precision)
  /\ raw.scale \subseteq Int /\ AtMostOne(raw.scale)
  /\ raw.data_type \notin LengthTypes => raw.length = {}
  /\ raw.precision = {} => raw.scale = {}
  /\ raw.data_type \notin (DOMAIN Aliases \ {"ARRAY"}) \union {"array"}

ASSUME EvolutionAssumption ==
  /\ \A raw \in RawTypes : Reported(raw)
  /\ Limit \in Nat

VARIABLES
  oldest, previous, current   \* the last three raw types, oldest first

vars == <<oldest, previous, current>>

Init == /\ current \in RawTypes
        /\ oldest = current
        /\ previous = current

\* ALTER TABLE ... ALTER COLUMN ... TYPE on the source.
AlterType(raw) ==
  /\ raw # current
  /\ oldest' = previous
  /\ previous' = current
  /\ current' = raw

Next == \E raw \in RawTypes : AlterType(raw)

Spec == Init /\ [][Next]_vars

-----------------------------------------------------------------------------
(* A reference semantics of types, written without the policy: the family  *)
(* of a type and the shapes of the values a column of the type can hold.   *)

Bits == [smallint |-> 16, integer |-> 32, bigint |-> 64]

\* The family of a type in the source: an array or a user-defined type is one of
\* its own.
Family(raw) ==
  CASE raw.data_type \in DOMAIN Bits -> <<"integer", "">>
    [] raw.data_type \in {"character varying", "text"} -> <<"string", "">>
    [] raw.data_type \in {"ARRAY", "USER-DEFINED"} -> <<raw.data_type, raw.udt_name.type>>
    [] OTHER -> <<raw.data_type, "">>

Within(bound, n) == \A m \in bound : n <= m

Digits == 0 .. Limit

IntegersOf(raw) == {<<"integer", b, 0>> : b \in 1 .. Bits[raw.data_type]}

StringsOf(raw) == {<<"string", n, 0>> : n \in {d \in Digits : Within(raw.length, d)}}

NumbersOf(raw) ==
  {<<"number", whole, fraction>> :
     whole \in {d \in Digits : \A p \in raw.precision, s \in raw.scale : d <= p - s},
     fraction \in {d \in Digits : Within(raw.scale, d)}}

ValuesOf(raw) ==
  CASE raw.data_type \in DOMAIN Bits -> IntegersOf(raw)
    [] raw.data_type \in {"character varying", "text"} -> StringsOf(raw)
    [] raw.data_type = "numeric" -> NumbersOf(raw)
    [] OTHER -> {Family(raw) \o <<0>>}

Severity(before, after) ==
  ClassifyTypeChange(CanonicalizePostgresType(before),
                     CanonicalizePostgresType(after))

RuledNames == DOMAIN IntegerRank \union {"character varying", "text"}

\* Two arrays; or a user-defined type whose name reads like that of the other type,
\* or like one of the built-in types that can be widened.
Namesakes(before, after) ==
  \/ before.data_type = "ARRAY" /\ after.data_type = "ARRAY"
  \/ \E raw \in {before, after} :
       /\ raw.data_type = "USER-DEFINED"
       /\ \/ CanonicalName(before) = CanonicalName(after)
          \/ CanonicalName(raw) \in RuledNames

\* A change reported as compatible (WARNING) loses no value: whatever the old
\* type could hold, the new one can hold.  type_rules.py:53-98 decides it from
\* names, ranks, lengths, precision and scale, one family at a time.
WideningKeepsValues ==
  Severity(previous, current) = "WARNING" /\ ~Namesakes(previous, current) =>
    ValuesOf(previous) \subseteq ValuesOf(current)

\* Two compatible steps are never BREAKING when they are seen as one: whether
\* the operator accepts between the steps does not make a compatible evolution
\* incompatible (type_rules.py:68-100 against the baseline of either moment).
WideningComposes ==
  /\ Severity(oldest, previous) = "WARNING"
  /\ Severity(previous, current) = "WARNING"
  => Severity(oldest, current) = "WARNING"

\* No change and its reversal are both compatible: a rollback of a widening is
\* reported as the narrowing it is (type_rules.py:75, 80, 85, 91, 98).
RevertingAWideningBreaks ==
  Severity(previous, current) = "WARNING" => Severity(current, previous) = "BREAKING"

\* Types of different families stay distinct through canonicalize_postgres_type,
\* and a change between them is BREAKING, as docs/architecture.md:176 says; only
\* namesakes escape, because the element type, the schema and the case of a name
\* are dropped (type_rules.py:28-30, 60-65).
OnlyNamesakesAreConfused ==
  Family(previous) # Family(current) /\ ~Namesakes(previous, current)
  => Severity(previous, current) = "BREAKING"
=============================================================================
