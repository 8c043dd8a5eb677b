CONSTANTS
  MAX_BUF_SIZE = 5
  MaxPacket = 4
  Byte = {0, 1}
  Nul = 0
  Packets <- MCPackets
  ReadSizes <- MCReadSizes
SPECIFICATION Spec
INVARIANTS
  TypeOK
  NeverFull
PROPERTY ImplementsByteQueue
