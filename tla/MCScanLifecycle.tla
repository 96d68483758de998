--------------------------- MODULE MCScanLifecycle ---------------------------
(* Instances of ScanLifecycle: two columns, with definitions chosen so that  *)
(* every kind of change, and every pair of kinds on one column, can occur.   *)
EXTENDS ScanLifecycle, TLC

CONSTANTS c1, c2, items, players

Plain(name) == [name |-> name, length |-> {}, precision |-> {}, scale |-> {}]

MCTypes == {Plain("integer"), Plain("bigint")}

Definition(name, nullable) ==
  [dtype |-> Plain(name), nullable |-> nullable, default |-> "none", ordinal |-> 1]

IntCol      == Definition("integer", FALSE)
BigNullable == Definition("bigint", TRUE)

Source(first, second) == [c \in Columns |-> IF c = c1 THEN first ELSE second]

\* The items table changes, the players table comes and goes.
TwoTables == {Source(IntCol, Absent), Source(BigNullable, Absent),
              Source(Absent, IntCol), Source(IntCol, IntCol)}

\* The items table changes, the players table is created.
NewTable == {Source(IntCol, Absent), Source(BigNullable, Absent), Source(IntCol, IntCol)}

SeparateTables == [c \in Columns |-> IF c = c1 THEN items ELSE players]

ReadsFirst == {{}, {c1}}

Requests == Permutations(Known) \union Permutations(Acceptances)
=============================================================================
