CONSTANTS
  IPs = {a}
  Workers = {w1, w2}
  Scores = {60}
  Threshold = 50
  CheckTTL = 1
  TrapTTL = 2
  CacheMaxSize = 1
  MaxRetries = 1
  CoolDown = 1
  OpenOnError = TRUE
  FailOpen = FALSE
  AutoReport = TRUE
  SourceEnabled = TRUE
  Kinds = {"check", "trap"}
  MaxTime = 2
  MaxRequests = 2
  MaxFaults = 1
  MaxCrashes = 1
SPECIFICATION FairSpec
PROPERTIES RequestsAnswered ReportsSettle ExpiredRowsGo
