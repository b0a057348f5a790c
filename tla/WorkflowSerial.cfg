\* Requests that take turns: one at a time, on two work items.
SPECIFICATION Spec
CONSTANTS
  Items = {i1, i2}
  Reqs = {r1}
  Null = Null
  Times <- MCTimes
PROPERTIES
  ImplementsSerialLifecycle
