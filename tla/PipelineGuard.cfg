\* One DAG run with its two retries, two catalog commands, scans and one acceptance.
SPECIFICATION FairSpec
CONSTANTS
  raw = raw
  clean = clean
  mart = mart
  load = load
  revenue = revenue
  d1 = d1
  Columns = {raw, clean, mart}
  Types <- MCTypes
  Defaults = {"none"}
  Ordinals = {1}
  Absent = Absent
  Pipelines = {load, revenue}
  KeyOrder <- ByName
  Commands = {y1, y2}
  Files <- CatalogFiles
  Nobody = Nobody
  Snapshots <- Sources
  Runs = {d1}
  PipelineOf <- Revenue
  MaxAttempts = 3
  MaxVersion = 2
INVARIANTS
  TypeOK
  CatalogsDoNotMix
  StandingChangeStops
PROPERTIES
  OnlyBlockedRunsConflict
  CommandsEnd
  RunsEnd
