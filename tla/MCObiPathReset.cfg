SPECIFICATION Spec
CONSTANTS
  CoreReqs <- MCDeviceReads
  Words = {0, 1, 2, 4, 8}
  RamWords = {4}
  BeyondBus = {8}
  Failing = {2}
  FifoDepth = 2
  ResetEdges = 4
  MaxResets = 1
INVARIANT NoStaleResponse
