SPECIFICATION BridgesFairSpec
CONSTANTS
  Axs <- MCAxs
  WBeats <- MCWBeats
  None = None
INVARIANTS AccessesExact ResponseRight
PROPERTIES ApbPhases NobodyStarves
