\* Two requests at a time, of one IP or of two, over a cache of one entry.
CONSTANTS
  IPs = {a, b}
  Workers = {w1, w2}
  Scores = {0, 50}
  Threshold = 50
  CheckTTL = 1
  TrapTTL = 2
  CacheMaxSize = 1
  MaxRetries = 1
  CoolDown = 1
  OpenOnError = TRUE
  FailOpen = FALSE
  AutoReport = TRUE
  SourceEnabled = TRUE
  Kinds = {"check", "trap", "report"}
  MaxTime = 2
  MaxRequests = 2
  MaxFaults = 1
  MaxCrashes = 1
SPECIFICATION EvidenceSpec
INVARIANTS GateTypeOK ReportedWasSent VerdictHasEvidence CachedWasWritten
SYMMETRY Symmetry
