SPECIFICATION Spec
CONSTANTS
  NumPorts32 = 1
  NumPorts64 = 1
  NumBanks = 2
  WordsPerBank = 1
  BaseAddr = 2
  AddrSpace = 8
  Vals = {0, 1}
  Metas <- MCMetas
  ReqsOf <- MCReqs
  Attentive = {0, 1}
  InDepth = 1
  OutDepth = 1
  ReadLat = 1
  IngressDepth = 1
  EgressDepth = 2
INVARIANTS LockedStillRequest TagsUnique
PROPERTY ImplementsFlatMemory
CHECK_DEADLOCK FALSE
