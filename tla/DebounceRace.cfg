\* Two signals of one component at the same time, no fault at all.
SPECIFICATION Spec
CONSTANTS
  db = db
  cache = cache
  Components = {db}
  Replicas = {p1}
  Reqs = {r1, r2}
  TypeOf <- MCTypeOf
  Payloads <- MCStorm
  MaxInFlight = 2
  Faults = {}
  Attempts = 2
  Null = Null
CHECK_DEADLOCK FALSE
INVARIANT OneItemPerComponent
