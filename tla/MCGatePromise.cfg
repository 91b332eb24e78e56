\* Two requests at a time on one IP that AbuseIPDB calls clean, one more to
\* follow, one failure, one crash.
CONSTANTS
  IPs = {a}
  Workers = {w1, w2}
  Scores = {0}
  Threshold = 50
  CheckTTL = 1
  TrapTTL = 2
  CacheMaxSize = 1
  MaxRetries = 1
  CoolDown = 1
  OpenOnError = TRUE
  FailOpen = FALSE
  AutoReport = TRUE
  SourceEnabled = TRUE
  Kinds = {"check", "trap"}
  MaxTime = 2
  MaxRequests = 3
  MaxFaults = 1
  MaxCrashes = 1
SPECIFICATION PromiseSpec
INVARIANT UndisturbedBlockKept
PROPERTY UndisturbedTrapHolds
SYMMETRY Symmetry
