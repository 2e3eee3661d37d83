SPECIFICATION MCSpec
CONSTANTS
  RQMax = 2
  BurstLens = {1, 3}
  Devices = {FALSE}
  NoCallbacks = FALSE
  CbAsync = TRUE
  MaxReads = 2
  MaxUpdates = 2
  Sizes = {0, 1, 2, 3}
  Lens = {0, 1, 2, 3, 7}
  MaxAddr = 40
INVARIANTS
  NotFull FlushIsNewest NextInOrder EngineInOrder BurstBytes
CHECK_DEADLOCK FALSE
