\* Overlapping changes and refreshes, Redis and PostgreSQL failing.
SPECIFICATION FairSpec
CONSTANTS
  Items = {i1}
  Severities = {"P0", "P1"}
  Writers = {w1, w2}
  Readers = {r1, r2}
  MaxInFlight = 2
  MaxSignals = 2
  Faults = {"redis", "postgres", "crash"}
  Null = Null
CHECK_DEADLOCK FALSE
INVARIANT StaleHasReason
PROPERTY CacheConverges
