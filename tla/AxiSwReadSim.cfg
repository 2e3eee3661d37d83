SPECIFICATION FlushSpec
CONSTANTS
  RQMax = 2
  BurstLens = {1}
  Devices = {FALSE}
  NoCallbacks = TRUE
  CbAsync = FALSE
  MaxReads = 2
  MaxUpdates = 2
PROPERTY FlushServesSim
