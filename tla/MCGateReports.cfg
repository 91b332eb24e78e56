CONSTANTS
  IPs = {a}
  Workers = {w1, w2}
  Scores = {0, 60}
  Threshold = 50
  CheckTTL = 1
  TrapTTL = 2
  CacheMaxSize = 1
  MaxRetries = 1
  CoolDown = 1
  OpenOnError = TRUE
  FailOpen = FALSE
  AutoReport = TRUE
  SourceEnabled = TRUE
  Kinds = {"report"}
  MaxTime = 0
  MaxRequests = 2
  MaxFaults = 0
  MaxCrashes = 0
SPECIFICATION Spec
INVARIANT AtMostOneReport
