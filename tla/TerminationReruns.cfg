SPECIFICATION TSpec
CONSTANTS
  Clks = {axi}
  AxiClk = axi
  FastB = 1
  AxiRatio = 2
  NumReruns = 1
  CallFinish = TRUE
  Unconditional = FALSE
  DutResets = TRUE
  DutEnds = FALSE
  MaxErrors = 1
  CvmDone = 5
  QuiesceTimeout = 7
  ShutdownTimeout = 8
  MaxRuns = 3
INVARIANTS RunsBound
