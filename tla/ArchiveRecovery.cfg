SPECIFICATION Spec
CONSTANTS
  n1 = n1  n2 = n2  d1 = d1  d2 = d2  p1 = p1  p2 = p2  p3 = p3  a1 = a1
  Node = {n1, n2}
  Domain = {d1}
  Push = {p1, p2}
  Lost = {d1}
  Address = {a1}
  AddressOf <- OneAddress
  MaxDomains = 1
  WritesPerMinute = 2
  Minute = 2
  FutureSkew = 1
  MaxTime = 1
  MaxCrashes = 1
SYMMETRY Symmetry
INVARIANTS
  TypeOK
  RecoversWhatWasAcked
CHECK_DEADLOCK FALSE
