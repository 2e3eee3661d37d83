CONSTANTS
  Atomics = {1}
  Ops = {"sc_pass", "sc_fail", "amo", "cas_pass", "cas_fail"}
  Emulate = TRUE
  MaxOrder = 0
  PatchKept = 2
  BackToBack = FALSE
  Ncio = {}
  Cached = {}
  BranchTags = {0}
  MaxFetches = 0
SPECIFICATION McmiSpec
INVARIANT ScSent
CHECK_DEADLOCK FALSE
