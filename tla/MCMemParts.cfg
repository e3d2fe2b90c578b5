\* The bridge is a shallow one, as on the iDMA and CVA6 legs: the response FIFO
\* may fill up and hold the memory off.
SPECIFICATION PartsSpec
CONSTANTS
  NumPorts32 = 1
  NumPorts64 = 0
  NumBanks = 1
  WordsPerBank = 1
  BaseAddr = 2
  AddrSpace = 6
  Vals = {0}
  Metas = {m1, m2}
  InDepth = 2
  OutDepth = 3
  ReadLat = 2
  IngressDepth = 1
  EgressDepth = 3
  Engines = {"rd", "wr"}
  Ids = {i1, i2}
  AxiAddrs = {a1, a2}
  OutOfRange = {a2}
  MaxOutstanding = 2
  ReqDepth = 1
  RspDepth = 1
  CopyRoom = 1
INVARIANTS ClaimsCovered NoDroppedResult RingConsistent BeatIsOldest InStep
PROPERTY Progress
