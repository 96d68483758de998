\* Two scans, which may both fail, and a retry request, under fairness.
SPECIFICATION FairSpec
CONSTANTS
  slack = slack
  email = email
  Scans = {1, 2}
  Retries = {r1}
  Channels = {slack, email}
  Configured <- AllConfigured
  Rank <- MCRank
  Delays <- MCDelays
  LastTick = 0
  Nothing = Nothing
INVARIANTS
  WaitsFollowTheOrder
PROPERTIES
  WorkersFinish
