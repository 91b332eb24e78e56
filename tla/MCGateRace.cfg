\* A check and a trap of one IP at the same time, and one more check.
CONSTANTS
  IPs = {a}
  Workers = {w1, w2}
  Scores = {0}
  Threshold = 50
  CheckTTL = 2
  TrapTTL = 2
  CacheMaxSize = 1
  MaxRetries = 1
  CoolDown = 1
  OpenOnError = TRUE
  FailOpen = FALSE
  AutoReport = TRUE
  SourceEnabled = TRUE
  Kinds = {"check", "trap"}
  MaxTime = 1
  MaxRequests = 3
  MaxFaults = 0
  MaxCrashes = 0
SPECIFICATION PromiseSpec
PROPERTY TrapHolds
