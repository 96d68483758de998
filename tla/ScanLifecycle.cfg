\* Three scans of the source and one of an unknown one, two operators and one
\* catalog run; the columns are in two tables.
SPECIFICATION Spec
CONSTANTS
  c1 = c1
  c2 = c2
  items = items
  players = players
  Columns = {c1, c2}
  Types <- MCTypes
  Defaults = {"none"}
  Ordinals = {1}
  Absent = Absent
  Scans = {s0, s1, s2, s3}
  Known = {s1, s2, s3}
  Acceptances = {a1, a2}
  Syncs = {y1}
  Channels = {slack}
  Datasets = {items, players}
  DatasetOf <- SeparateTables
  Snapshots <- TwoTables
  Lineages <- ReadsFirst
  Nobody = Nobody
SYMMETRY Requests
INVARIANTS
  TypeOK
  Inductive
  ScanReadsStayCurrent
  OpenChangesDistinct
  VersionCountsAcceptances
  AcceptsWhatWasDisplayed
  OutboxMatchesScans
  NotEverybodyWaits
PROPERTIES
  AcceptedIsFinal
  OpenChangesAreTheDrift
  ImplementsContract
