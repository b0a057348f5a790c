\* A page that reconnects, the shortest channels.
SPECIFICATION FairSpec
CONSTANTS
  Pages = {p1}
  Conns = {c1, c2}
  RegisterCap = 1
  UnregisterCap = 1
  BroadcastCap = 1
  MaxLeaving = 1
  Null = Null
CHECK_DEADLOCK FALSE
INVARIANTS
  DroppedIsClosed
  NoOrphanSocket
PROPERTIES
  ConnectedIsRegistered
  GoneIsForgotten
