\* All 4096 graphs without loops over three columns and two pipelines.
SPECIFICATION FairSpec
CONSTANTS
  Columns <- MCColumns
  Pipelines <- MCPipelines
  Rank <- MCRank
  Graphs <- AllGraphs
  Inputs <- UpToTwoColumns
INVARIANTS
  TypeOK
  FindsWhatIsReachable
  PathsExplain
  PathsAreShortest
  SearchInvariant
PROPERTIES
  SearchEnds
