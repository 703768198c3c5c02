SPECIFICATION FairSpec
CONSTANTS
  A = A  B = B  C = C
  e1 = e1  e2 = e2  e3 = e3  e4 = e4
  Peer = {A, B}
  Event = {e1, e2, e3}
  Parents <- Fork
  InitLogs <- Ends
  ChunkSize = 1
  Throwing = {B}
  Own <- NoneOwn
  MaxDrops = 1
  MaxRestarts = 1
INVARIANTS
  TypeOK
  OutstandingChunkAppendable
  SyncStateConsistent
  SettledSyncedOrStuck
PROPERTIES
  ReleasedOnlyWhenStored
CHECK_DEADLOCK FALSE
