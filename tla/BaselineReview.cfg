\* Two columns, two types, nullable or not, with and without a default.
SPECIFICATION Spec
CONSTANTS
  Columns = {c1, c2}
  Types <- MCTypes
  Defaults = {none, zero}
  Ordinals = {1}
  Absent = Absent
INVARIANTS
  TypeOK
  EveryOpenChangeApplies
  FullReviewAligns
PROPERTIES
  AcceptanceSettlesItsColumn
