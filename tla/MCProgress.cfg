SPECIFICATION MCSpec
CONSTANTS
  Clks = {axi, ref}
  AxiClk = axi
  Ids = {0, 1}
INVARIANTS NoStaleTerminate RunsChecked
PROPERTIES ReadsServed RequestsAnswered MaskLifted EndReached
CHECK_DEADLOCK FALSE
