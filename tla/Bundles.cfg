SPECIFICATION Spec
CONSTANTS
  P = P  Q = Q
  f = f  g = g  h = h
  index = index  odd = odd  coded = coded  empty = empty
  c1 = c1  c2 = c2  c3 = c3  c4 = c4
  Peer = {P, Q}
  Content = {f, g, h}
  Call = {c1, c2, c3, c4}
  By <- TwoAuthors
  Domain <- TwoApps
  Files <- Versions
  Crashing = {c2}
  Name = {index, odd, coded, empty}
  PathOf <- Paths
  Encoded <- Percent
  Index = index
  Empty = empty
INVARIANTS
  TypeOK
  VisibleIsComplete
  OverAllKnown
  ServedUntilReplaced
  NeverPicksSilently
  HistoryHasNoGaps
CHECK_DEADLOCK FALSE
