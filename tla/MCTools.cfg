SPECIFICATION ToolsSpec
CONSTANTS
  NumBanks = 8
  Spelling <- MCSpelling
  MakeTargets = {"fpga-bit", "fpga-pgm"}
  NewCores = {"n1", "n2"}
  NewBoards = {"nb"}
  Versions = {"v1", "v2"}
  CoreEdits <- MCCoreEdits
  BoardEdits <- MCBoardEdits
  Deletable <- MCDeletable
  Firmwares <- MCFirmwares
  MaxRuns = 2
  MaxEdits = 1
  Upstreams = {"u1", "u2"}
  Revs = {"r1", "r2", "r3"}
  Serves <- MCServes
  NoRev = "none"
  Attempts = 4
  MaxPins = 2
  MaxCuts = 2
  a = a
  b = b
  Names = {a, b}
  NoName = NoName
  Decls <- MCDecls
  Maps <- MCMaps
  AddrTop = 8
  Texts <- MCTexts
  Items = {"a", "b"}
  ListKey = "list"
  Paths <- MCPaths
  MaxUpdates = 1
INVARIANTS ScaffoldChecks VersionsInStep MatrixTruthful CheckedBuildable LinkedIsPinned
INVARIANTS VerdictExact FixpointReached
PROPERTIES Harmless ReadBack ToolsEnd
CHECK_DEADLOCK FALSE
