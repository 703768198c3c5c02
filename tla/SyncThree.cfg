SPECIFICATION Spec
CONSTANTS
  A = A  B = B  C = C
  e1 = e1  e2 = e2  e3 = e3  e4 = e4
  Peer = {A, B, C}
  Event = {e1, e2}
  Parents <- Pair
  InitLogs <- Spread
  ChunkSize = 1
  Throwing = {}
  Own <- NoneOwn
  MaxDrops = 0
  MaxRestarts = 0
INVARIANTS
  SyncStateConsistent
PROPERTIES
  ReleasedOnlyWhenHandled
CHECK_DEADLOCK FALSE
