CONSTANTS
  Base = 3
  Pub = 2
  Ack = 1
  NoPacket = NoPacket
  NoPublication = NoPublication
  Freed = Freed
  Requests <- Mixed
  Room = 14
  MaxTransfer = 11
  MaxSent = 3
SPECIFICATION FairSpec
INVARIANTS
  TypeOK
  InStep
  DeserializeAgrees
  HandedOverIntact
PROPERTIES
  CleanArrives
