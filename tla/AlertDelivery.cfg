\* One scan with two deliveries, and more retry requests than attempts, from a
\* process without an e-mail notifier.
SPECIFICATION Spec
CONSTANTS
  slack = slack
  email = email
  Scans = {1}
  Retries = {r1, r2, r3}
  Channels = {slack, email}
  Configured <- RetriesWithoutEmail
  Rank <- MCRank
  Delays <- MCDelays
  LastTick = 3
  Nothing = Nothing
SYMMETRY Requests
INVARIANTS
  TypeOK
  RetryTimeMeansRetryable
  RecordsHappened
PROPERTIES
  AttemptsAddUp
  BackoffKept
