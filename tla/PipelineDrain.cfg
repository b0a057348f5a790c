\* What is left in the channel when main ends.
SPECIFICATION Spec
CONSTANTS
  item = item
  Signals = {s1, s2}
  ItemOf <- MCOneItem
  Workers = {w1, w2}
  Capacity = 1
  Attempts = 2
  Null = Null
CHECK_DEADLOCK FALSE
INVARIANT QueueDrainedAtExit
