SPECIFICATION ResetsSpec
CONSTANTS
  MaxReqs = 2
  MaxResets = 2
  ByteMod = 4
  AddrBytes = 2
  LenBytes = 2
  Image <- MCImage
  LoadAddrs = {3, 4}
  ChunkSize = 2
  Memory = {4, 5, 6, 7}
  MaxLost = 2
  MaxTries = 2
INVARIANTS FabricUndisturbed CoreSeesItsOwn NothingOutlivesIsolation LoadTruthful
PROPERTIES ResetEnds NobodyStuck
CHECK_DEADLOCK FALSE
