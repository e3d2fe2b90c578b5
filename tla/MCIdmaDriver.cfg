SPECIFICATION FairSpec
CONSTANTS
  t1 = t1
  t2 = t2
  Isr = Isr
  Threads <- MCThreads
  Stoppers <- MCOneStopperEach
  NumChannels = 2
  Configs <- MCConfigs
  QueueDepth = 2
  IdMod = 8
  IdBase = 6
  MaxCopies = 3
INVARIANTS CallbacksTruthful StatusExact LaunchedIsBusy
PROPERTIES StopSilences EveryTransferEnds
CHECK_DEADLOCK FALSE
