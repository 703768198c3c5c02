SPECIFICATION Spec
CONSTANTS
  A = A  B = B  C = C
  e1 = e1  e2 = e2  e3 = e3  e4 = e4
  Peer = {A, B}
  Event = {e1, e2, e3, e4}
  Parents <- Diamond
  InitLogs <- Behind
  ChunkSize = 1
  Throwing = {}
  Own <- BothOwn
  MaxDrops = 1
  MaxRestarts = 0
INVARIANTS
  MessagesTrue
  OutstandingChunkAppendable
PROPERTIES
  ReleasedOnlyWhenStored
  ImplementsCausalGossip
CHECK_DEADLOCK FALSE
