\* Every sequence of three of 20 types: 14 built-in scalars, 4 user-defined and 2 arrays.
SPECIFICATION Spec
CONSTANTS
  Columns = {c1}
  Types <- MCTypes
  Defaults = {none}
  Ordinals = {1}
  Absent = Absent
  RawTypes <- AllRows
  Limit = 7
INVARIANTS
  WideningKeepsValues
  WideningComposes
  RevertingAWideningBreaks
  OnlyNamesakesAreConfused
