SPECIFICATION FairSpec
CONSTANTS
  NumPorts32 = 3
  NumPorts64 = 0
  NumBanks = 2
  WordsPerBank = 1
  BaseAddr = 2
  AddrSpace = 8
  Vals = {0}
  Metas <- MCMetas
  ReqsOf <- MCReqsRead
  Attentive = {0, 2}
  InDepth = 1
  OutDepth = 1
  ReadLat = 1
  IngressDepth = 1
  EgressDepth = 1
PROPERTY Served
CHECK_DEADLOCK FALSE
