SPECIFICATION MCSpec
CONSTANTS
  Ids = {i0, i1}
  QMax = 1
  PtrMax = 2
  Greedy = FALSE
  EarlyReqs = FALSE
  Attrs <- TolerantOnly
  MaxBeats = 1
  MaxReqs = 3
  MaxParts = 2
  Bus = 4
  Container = 8
  MaxAddr = 16
  Cap = 2
INVARIANTS
  CreditsAndIds WriteOrder OwnResponse AccessBytes
SYMMETRY IdSymmetry
CHECK_DEADLOCK FALSE
