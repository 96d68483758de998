\* A retry of one delivery meets the dispatch of two.
SPECIFICATION CrashFreeSpec
CONSTANTS
  slack = slack
  email = email
  Scans = {1}
  Retries = {r1}
  Channels = {slack, email}
  Configured <- AllConfigured
  Rank <- MCRank
  Delays <- MCDelays
  LastTick = 1
  Nothing = Nothing
PROPERTIES
  SuccessIsRecorded
