\* Four IPs over a cache of three: an eviction has three entries to choose from.
CONSTANTS
  IPs = {a, b, c, d}
  Records <- MCRecords
  Times <- MCTimes
  MaxSize = 3
SPECIFICATION UseSpec
INVARIANTS CacheTypeOK LruListsCache ThreatCountExact CacheBounded
PROPERTIES ImplementsLRUCache EvictsLeastRecentlyUsed
