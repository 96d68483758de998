\* Two failed scans and what becomes of their alerts.
SPECIFICATION FairCrashFreeSpec
CONSTANTS
  slack = slack
  email = email
  Scans = {1, 2}
  Retries = {r1}
  Channels = {slack}
  Configured <- AllConfigured
  Rank <- MCRank
  Delays <- MCDelays
  LastTick = 0
  Nothing = Nothing
PROPERTIES
  FailureIsReported
