CONSTANTS
  Capacity = 7
  READ_BUF = 5
  Client = {c1}
  Tagged = {c1}
  ServerAddr = ServerAddr
  ForeignAddr = ForeignAddr
  Stream <- OneStream
  Shapes <- MixedShapes
  Bare = TRUE
  Pipelining = TRUE
  MaxSent = 2
  MaxFaults = 1
SPECIFICATION Spec
INVARIANTS
  FramedRight
  ReadBufSuffices
PROPERTY BlockedForGood
CHECK_DEADLOCK FALSE
