SPECIFICATION FairSpec
CONSTANTS
  M = M  A = A  B = B
  ma = ma  mb = mb  s1 = s1  s2 = s2  h = h
  None = None
  Peer = {M, A, B}
  Attempt = {ma, mb, s1, s2, h}
  ByHand = {h}
  Established <- Star
  Carriers <- BackToM
  Leavers = {A}
  MaxLeaves = 1
  Session = {s1, s2}
  By <- BothAsk
  Via <- ViaM
  Exclude <- ExcludeNobody
  MayFail = {s1}
INVARIANTS
  TypeOK
  OpenPeersAreLinked
  ConnectedIsLinked
  AtMostOneConnection
  BufferedIsAwaited
PROPERTIES
  ImplementsIntroduction
  RequestsSettle
CHECK_DEADLOCK FALSE
