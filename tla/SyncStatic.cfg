SPECIFICATION FairSpec
CONSTANTS
  A = A  B = B  C = C
  e1 = e1  e2 = e2  e3 = e3  e4 = e4
  Peer = {A, B}
  Event = {e1, e2, e3, e4}
  Parents <- Diamond
  InitLogs <- AllLogs
  ChunkSize = 1
  Throwing = {}
  Own <- NoneOwn
  MaxDrops = 0
  MaxRestarts = 0
INVARIANTS
  OutstandingChunkAppendable
PROPERTIES
  ReleasedOnlyWhenHandled
  Settles
  Converges
CHECK_DEADLOCK FALSE
