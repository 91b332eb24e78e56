\* Two checks at a time, of one IP or of two, and two failures; a breaker
\* that bears no failure, one, or two.
CONSTANTS
  IPs = {a, b}
  Checks = {c1, c2}
  Tolerances = {0, 1, 2}
  CoolDown = 2
  MaxFaults = 2
SPECIFICATION FairSpec
INVARIANTS ClientTypeOK NobodyFailsForAnother
PROPERTIES ImplementsBreaker ChecksEnd BreakerRecovers
