\* Two signals of one item, two workers and a channel for one signal.
SPECIFICATION FairSpec
CONSTANTS
  item = item
  Signals = {s1, s2}
  ItemOf <- MCOneItem
  Workers = {w1, w2}
  Capacity = 1
  Attempts = 2
  Null = Null
CHECK_DEADLOCK FALSE
INVARIANTS
  TypeOK
  EachSignalOnce
  ProcessedIsPersisted
  CountsBounded
PROPERTIES
  ShutdownEnds
  ImplementsSignalLog
