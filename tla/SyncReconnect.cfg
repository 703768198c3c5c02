SPECIFICATION FairSpec
CONSTANTS
  A = A  B = B  C = C
  e1 = e1  e2 = e2  e3 = e3  e4 = e4
  Peer = {A, B}
  Event = {e1, e2}
  Parents <- Pair
  InitLogs <- Behind
  ChunkSize = 1
  Throwing = {}
  Own <- NoneOwn
  MaxDrops = 1
  MaxRestarts = 0
PROPERTIES
  ReconnectedCatchesUp
CHECK_DEADLOCK FALSE
