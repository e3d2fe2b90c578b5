SPECIFICATION CoreSpec
CONSTANTS
  NumSources = 2
  PrioWidth = 2
  CoreReqs <- MCReqs
  Words = {0, 1, 2, 4, 8}
  RamWords = {4}
  BeyondBus = {8}
  Failing = {2}
  FifoDepth = 2
  ResetEdges = 4
  MaxResets = 1
  Transfers <- MCTransfers
  NoTransfer = NoTransfer
  AhbFailing = {1}
  Accesses <- MCAccesses
  NoAccess = NoAccess
INVARIANTS PathIsQueue AccessExact
PROPERTIES GatewayKept AdaptersExact CoreServed
