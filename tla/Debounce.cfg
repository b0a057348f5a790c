\* Two requests on two replicas, with every fault.
SPECIFICATION FairSpec
CONSTANTS
  db = db
  cache = cache
  Components = {db, cache}
  Replicas = {p1, p2}
  Reqs = {r1, r2}
  TypeOf <- MCTypeOf
  Payloads <- MCPayloads
  MaxInFlight = 2
  Faults = {"postgres", "redis", "expire", "crash"}
  Attempts = 2
  Null = Null
CHECK_DEADLOCK FALSE
INVARIANTS
  TypeOK
  WindowBacked
  AcceptedIsLinked
  AlertsBacked
PROPERTY NewItemAlerted
