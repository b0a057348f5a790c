\* Two replicas whose passes overlap.
SPECIFICATION FairSpec
CONSTANTS
  Items = {i1}
  Replicas = {p1, p2}
  MaxTime = 3
  Null = Null
CHECK_DEADLOCK FALSE
PROPERTIES
  EscalationEarned
  EventuallyP0
