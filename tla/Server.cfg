\* One worker, one request, two attempts, two strikes.
SPECIFICATION FairSpec
CONSTANTS
  Workers = {w1}
  Requests = {r1}
  Loops = {"escalator"}
  MaxDown = 1
  Attempts = 2
  Threshold = 2
INVARIANTS
  TypeOK
  StoresOutliveWorkers
  ServingIsReady
PROPERTIES
  ShutdownEnds
  ComesUp
