\* Two requests of one IP with their reports, one fault, one crash, and one read
\* for the gauges that fails.
CONSTANTS
  IPs = {a}
  Workers = {w1, w2}
  Scores = {0, 60}
  Threshold = 50
  CheckTTL = 0
  TrapTTL = 1
  CacheMaxSize = 1
  MaxRetries = 1
  CoolDown = 1
  OpenOnError = TRUE
  FailOpen = FALSE
  AutoReport = TRUE
  SourceEnabled = TRUE
  Kinds = {"check", "trap"}
  MaxTime = 1
  MaxRequests = 2
  MaxFaults = 1
  MaxCrashes = 1
  MaxMisses = 1
SPECIFICATION ViewsSpec
INVARIANT GaugesExact
SYMMETRY Symmetry
