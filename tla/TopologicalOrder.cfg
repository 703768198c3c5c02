SPECIFICATION Spec
CONSTANTS
  e1 = e1  e2 = e2  e3 = e3  e4 = e4  e5 = e5
  Event = {e1, e2, e3, e4, e5}
  Parents <- Branches
  ChunkSize = 2
INVARIANTS
  OrderedParentsFirst
  NothingUnresolvable
  SlicesAreChunking
PROPERTIES
  Terminates
CHECK_DEADLOCK FALSE
