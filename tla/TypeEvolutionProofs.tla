------------------------- MODULE TypeEvolutionProofs -------------------------
(***************************************************************************)
(* What the type rules promise of a column whose type is altered again and *)
(* again, for every set of rows that information_schema can report: any    *)
(* lengths, digits and user-defined types.  The state only says that the   *)
(* three types are such rows; the rest is the policy against the reference *)
(* semantics, rule by rule.                                                *)
(***************************************************************************)
EXTENDS TypeEvolution, SchemaPolicyProofs

-----------------------------------------------------------------------------
(* Rows and their canonical types. *)

LEMMA OptionalNumbers ==
  ASSUME NEW set, set \subseteq Int, AtMostOne(set)
  PROVE  Optional(set)
BY DEF AtMostOne, Optional

\* The fields of a canonical type.
LEMMA CanonicalFields ==
  ASSUME NEW raw
  PROVE  LET type == CanonicalizePostgresType(raw)
         IN  /\ type.name = CanonicalName(raw)
             /\ type.length = IF CanonicalName(raw) \in LengthTypes THEN raw.length ELSE {}
             /\ type.precision = IF CanonicalName(raw) = "numeric" THEN raw.precision ELSE {}
             /\ type.scale = IF CanonicalName(raw) = "numeric" THEN raw.scale ELSE {}
BY DEF CanonicalizePostgresType

\* Every row has a canonical type.
LEMMA RowsAreCanonical ==
  ASSUME NEW raw \in RawTypes
  PROVE  Canonical(CanonicalizePostgresType(raw))
<1>1. Reported(raw)
  BY EvolutionAssumption
<1>2. Optional(raw.length) /\ Optional(raw.precision) /\ Optional(raw.scale)
  BY <1>1, OptionalNumbers DEF Reported
<1> QED
  BY <1>1, <1>2, CanonicalizeIsCanonical DEF Reported

\* The name of a built-in type is its data_type.
LEMMA BuiltInNames ==
  ASSUME NEW raw \in RawTypes, raw.data_type # "USER-DEFINED"
  PROVE  CanonicalName(raw) = IF raw.data_type = "ARRAY" THEN "array" ELSE raw.data_type
<1>1. raw.data_type \notin DOMAIN Aliases \ {"ARRAY"}
  BY EvolutionAssumption DEF Reported
<1>2. "ARRAY" \in DOMAIN Aliases /\ Aliases["ARRAY"] = "array"
  BY DEF Aliases
<1> QED
  BY <1>1, <1>2 DEF CanonicalName, NormalizeName

LEMMA RuledNamesAre ==
  RuledNames = {"smallint", "integer", "bigint", "character varying", "text"}
BY IntegerNames DEF RuledNames

\* A rule that widens one type to another, which is no namesake, reads the names
\* that the source gave them.
LEMMA RulesReadTheSource ==
  ASSUME NEW a \in RawTypes, NEW b \in RawTypes, ~Namesakes(a, b),
         Widened(CanonicalizePostgresType(a), CanonicalizePostgresType(b))
  PROVE  /\ CanonicalizePostgresType(a).name = a.data_type
         /\ CanonicalizePostgresType(b).name = b.data_type
<1>1. \/ CanonicalName(a) \in RuledNames /\ CanonicalName(b) \in RuledNames
      \/ CanonicalName(a) = "numeric" /\ CanonicalName(b) = "numeric"
  BY WidenedNames, CanonicalFields, IntegerNames, RuledNamesAre
<1>2. a.data_type # "USER-DEFINED" /\ b.data_type # "USER-DEFINED"
  BY <1>1 DEF Namesakes
<1>3. CanonicalName(a) # "array" /\ CanonicalName(b) # "array"
  BY <1>1, RuledNamesAre
<1> QED
  BY <1>2, <1>3, BuiltInNames, CanonicalFields

-----------------------------------------------------------------------------
(* The policy against the reference semantics. *)

\* What WideningKeepsValues says of any two rows.
LEMMA ValuesAreKept ==
  ASSUME NEW a \in RawTypes, NEW b \in RawTypes, ~Namesakes(a, b),
         Severity(a, b) = "WARNING"
  PROVE  ValuesOf(a) \subseteq ValuesOf(b)
<1> DEFINE before == CanonicalizePostgresType(a)
           after == CanonicalizePostgresType(b)
<1>1. Widened(before, after)
  BY DEF Severity, ClassifyTypeChange
<1>2. before.name = a.data_type /\ after.name = b.data_type
  BY <1>1, RulesReadTheSource
<1>3. CanonicalName(a) = a.data_type /\ CanonicalName(b) = b.data_type
  BY <1>2, CanonicalFields
<1>4. Reported(a) /\ Reported(b)
  BY EvolutionAssumption
<1>5. DOMAIN Bits = {"smallint", "integer", "bigint"}
  BY DEF Bits
<1>6. CASE IntegerWidened(before, after)
  <2>1. /\ a.data_type \in DOMAIN IntegerRank /\ b.data_type \in DOMAIN IntegerRank
        /\ IntegerRank[b.data_type] > IntegerRank[a.data_type]
    BY <1>2, <1>6 DEF IntegerWidened
  <2>2. /\ a.data_type \in DOMAIN Bits /\ b.data_type \in DOMAIN Bits
        /\ Bits[a.data_type] \in Nat /\ Bits[b.data_type] \in Nat
        /\ Bits[a.data_type] <= Bits[b.data_type]
    BY <2>1 DEF IntegerRank, Bits
  <2>3. a.data_type \in DOMAIN Bits /\ b.data_type \in DOMAIN Bits
    BY <2>2
  <2>4. ValuesOf(a) = IntegersOf(a) /\ ValuesOf(b) = IntegersOf(b)
    BY <2>3, <1>5 DEF ValuesOf
  <2> QED
    BY <2>2, <2>4 DEF IntegersOf
<1>7. CASE VarcharWidened(before, after) \/ VarcharToText(before, after)
  <2>1. /\ a.data_type = "character varying"
        /\ b.data_type \in {"character varying", "text"}
    BY <1>2, <1>7 DEF VarcharWidened, VarcharToText
  <2>2. ValuesOf(a) = StringsOf(a) /\ ValuesOf(b) = StringsOf(b)
    BY <2>1, <1>5 DEF ValuesOf
  <2>3. ASSUME NEW d \in Digits, Within(a.length, d) PROVE Within(b.length, d)
    <3>1. CASE b.length = {}
      BY <3>1 DEF Within
    <3>2. CASE b.length # {}
      <4>1. b.data_type = "character varying"
        BY <3>2, <2>1, <1>4 DEF Reported, LengthTypes
      <4>2. before.length = a.length /\ after.length = b.length
        BY <4>1, <2>1, <1>3, CanonicalFields DEF LengthTypes
      <4>3. VarcharWidened(before, after)
        BY <4>1, <1>2, <1>7 DEF VarcharToText
      <4>4. PICK n \in a.length, m \in b.length : m >= n
        BY <4>2, <4>3, <3>2 DEF VarcharWidened
      <4>5. d <= n /\ n \in Int /\ m \in Int /\ d \in Int
        BY <2>3, <4>4, <1>4 DEF Within, Reported, Digits
      <4>6. d <= m
        BY <4>4, <4>5
      <4>7. \A k \in b.length : k = m
        BY <1>4 DEF Reported, AtMostOne
      <4> QED
        BY <4>6, <4>7 DEF Within
    <3> QED
      BY <3>1, <3>2
  <2> QED
    BY <2>2, <2>3 DEF StringsOf
<1>8. CASE NumericWidened(before, after)
  <2>1. a.data_type = "numeric" /\ b.data_type = "numeric"
    BY <1>2, <1>8 DEF NumericWidened
  <2>2. /\ before.precision = a.precision /\ after.precision = b.precision
        /\ before.scale = a.scale /\ after.scale = b.scale
    BY <2>1, <1>3, CanonicalFields
  <2> DEFINE Wholes(raw) == {d \in Digits : \A p \in raw.precision, s \in raw.scale :
                                              d <= p - s}
             Fractions(raw) == {d \in Digits : Within(raw.scale, d)}
  <2>3. ValuesOf(a) = NumbersOf(a) /\ ValuesOf(b) = NumbersOf(b)
    BY <2>1, <1>5 DEF ValuesOf
  <2>4. Wholes(a) \subseteq Wholes(b) /\ Fractions(a) \subseteq Fractions(b)
    <3>1. CASE b.precision = {}
      BY <3>1, <1>4 DEF Reported, Within
    <3>2. CASE b.precision # {}
      <4>1. /\ a.scale = b.scale
            /\ \E p \in a.precision : \E q \in b.precision : q >= p
        BY <3>2, <1>8, <2>2 DEF NumericWidened
      <4>2. PICK p \in a.precision, q \in b.precision : q >= p
        BY <4>1
      <4>3. /\ p \in Int /\ q \in Int /\ b.scale \subseteq Int
            /\ \A k \in b.precision : k = q
        BY <1>4 DEF Reported, AtMostOne
      <4>4. ASSUME NEW d \in Wholes(a), NEW k \in b.precision, NEW s \in b.scale
            PROVE  d <= k - s
        <5>1. d <= p - s /\ d \in Int /\ s \in Int /\ k = q
          BY <4>1, <4>3 DEF Digits
        <5> QED
          BY <5>1, <4>2, <4>3
      <4> QED
        BY <4>1, <4>4
    <3> QED
      BY <3>1, <3>2
  <2> QED
    BY <2>3, <2>4 DEF NumbersOf
<1> QED
  BY <1>1, <1>6, <1>7, <1>8 DEF Widened

\* What OnlyNamesakesAreConfused says of any two rows.
LEMMA FamiliesStayApart ==
  ASSUME NEW a \in RawTypes, NEW b \in RawTypes, ~Namesakes(a, b),
         Severity(a, b) # "BREAKING"
  PROVE  Family(a) = Family(b)
<1> DEFINE before == CanonicalizePostgresType(a)
           after == CanonicalizePostgresType(b)
<1>1. before = after \/ Widened(before, after)
  BY DEF Severity, ClassifyTypeChange
<1>2. CASE before = after
  <2>1. CanonicalName(a) = CanonicalName(b)
    BY <1>2, CanonicalFields
  <2>2. a.data_type # "USER-DEFINED" /\ b.data_type # "USER-DEFINED"
    BY <2>1 DEF Namesakes
  <2>3. a.data_type # "array" /\ b.data_type # "array"
    BY EvolutionAssumption DEF Reported
  <2>4. a.data_type = b.data_type
    BY <2>1, <2>2, <2>3, BuiltInNames
  <2>5. a.data_type # "ARRAY"
    BY <2>4 DEF Namesakes
  <2> QED
    BY <2>2, <2>4, <2>5 DEF Family
<1>3. CASE Widened(before, after)
  <2>1. before.name = a.data_type /\ after.name = b.data_type
    BY <1>3, RulesReadTheSource
  <2>2. \/ a.data_type \in DOMAIN IntegerRank /\ b.data_type \in DOMAIN IntegerRank
        \/ /\ a.data_type = "character varying"
           /\ b.data_type \in {"character varying", "text"}
        \/ a.data_type = "numeric" /\ b.data_type = "numeric"
    BY <1>3, <2>1, WidenedNames
  <2> QED
    BY <2>2, IntegerNames DEF Family, Bits
<1> QED
  BY <1>1, <1>2, <1>3

-----------------------------------------------------------------------------
(* The theorems. *)

Remembered == oldest \in RawTypes /\ previous \in RawTypes /\ current \in RawTypes

\* The three types are rows the source reported.
LEMMA RemembersRows == Spec => []Remembered
<1>1. Init => Remembered
  BY DEF Init, Remembered
<1>2. Remembered /\ [Next]_vars => Remembered'
  BY DEF Remembered, Next, AlterType, vars
<1> QED
  BY <1>1, <1>2, PTL DEF Spec

\* A change reported as compatible loses no value, for all lengths, precisions,
\* scales and user-defined types, namesakes aside (type_rules.py:53-98).
THEOREM CompatibleKeepsValues == Spec => []WideningKeepsValues
<1>1. Remembered => WideningKeepsValues
  BY ValuesAreKept DEF Remembered, WideningKeepsValues
<1> QED
  BY <1>1, RemembersRows, PTL

\* Two compatible steps of a column are a compatible change (type_rules.py:68-100).
THEOREM EvolutionComposes == Spec => []WideningComposes
<1>1. Remembered => WideningComposes
  BY RowsAreCanonical, CompatibleComposes DEF Remembered, WideningComposes, Severity
<1> QED
  BY <1>1, RemembersRows, PTL

\* The way back of a compatible step is BREAKING (type_rules.py:75, 80, 85, 91, 98).
THEOREM RollbackBreaks == Spec => []RevertingAWideningBreaks
<1>1. Remembered => RevertingAWideningBreaks
  BY RowsAreCanonical, CompatibleIsOneWay
  DEF Remembered, RevertingAWideningBreaks, Severity
<1> QED
  BY <1>1, RemembersRows, PTL

\* A change from one family to another is BREAKING unless the two are namesakes,
\* whatever the types are called (type_rules.py:28-30, 53-65, 68-100).
THEOREM FamiliesAreKeptApart == Spec => []OnlyNamesakesAreConfused
<1>1. Remembered => OnlyNamesakesAreConfused
  BY FamiliesStayApart DEF Remembered, OnlyNamesakesAreConfused
<1> QED
  BY <1>1, RemembersRows, PTL
=============================================================================
