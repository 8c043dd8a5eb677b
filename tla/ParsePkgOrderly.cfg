CONSTANTS
  Capacity = 5
  READ_BUF = 5
  Client = {c1, c2}
  Tagged = {c1}
  ServerAddr = ServerAddr
  ForeignAddr = ForeignAddr
  Stream <- ThreeStreams
  Shapes <- PlainShapes
  Bare = FALSE
  Pipelining = FALSE
  MaxSent = 2
  MaxFaults = 0
SPECIFICATION Spec
INVARIANTS
  PrintedWhenComplete
  NothingRefused
CHECK_DEADLOCK FALSE
