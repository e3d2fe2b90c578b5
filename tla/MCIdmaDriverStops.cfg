SPECIFICATION Spec
CONSTANTS
  t1 = t1
  t2 = t2
  Isr = Isr
  Threads <- MCThreads
  Stoppers <- MCTwoStoppers
  NumChannels = 1
  Configs <- MCConfigs
  QueueDepth = 2
  IdMod = 10
  IdBase = 7
  MaxCopies = 4
INVARIANT LaunchedIsBusy
CHECK_DEADLOCK FALSE
