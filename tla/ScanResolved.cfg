\* An acceptance races the scan that resolves its change.
SPECIFICATION Spec
CONSTANTS
  c1 = c1
  c2 = c2
  items = items
  players = players
  Columns = {c1, c2}
  Types <- MCTypes
  Defaults = {"none"}
  Ordinals = {1}
  Absent = Absent
  Scans = {s1, s2, s3}
  Known = {s1, s2, s3}
  Acceptances = {a1}
  Syncs = {}
  Channels = {slack}
  Datasets = {items, players}
  DatasetOf <- SeparateTables
  Snapshots <- TwoTables
  Lineages <- ReadsFirst
  Nobody = Nobody
SYMMETRY Requests
PROPERTIES
  ResolvedIsFinal
