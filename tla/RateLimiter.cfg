\* Two calls of one client, a burst of two tokens, two ticks to refill one.
SPECIFICATION FairSpec
CONSTANTS
  Keys = {k1}
  Slots = {s1, s2}
  Objects = {o1, o2}
  Capacity = 2
  Cost = 2
  StaleAfter = 12
  Null = Null
INVARIANTS
  TypeOK
  RateBounded
PROPERTIES
  RefusalJustified
  IdleBucketDeleted
  EveryCallReturns
