\* Two concurrent requests on one work item.
SPECIFICATION FairSpec
CONSTANTS
  Items = {i1}
  Reqs = {r1, r2}
  Null = Null
  Times <- MCTimes
INVARIANTS
  TypeOK
  ClosedIsDocumented
  StoredRcaValid
  AcknowledgedRcaStored
PROPERTIES
  RcaIsFinal
  RcaFiledWhileActive
  SettledIsTerminal
  ImplementsLifecycle
  EveryRequestAnswered
