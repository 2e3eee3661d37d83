SPECIFICATION MCSpec
CONSTANTS
  D = 4
  Data = {a, b}
  Zero = a
  Clks = {axi, ref}
  FastB = 2
  MaxOwed = 2
  Ncio = {n1, n2}
  Cached = {c1}
  Atomics = {1, 2, 3}
  Ops = {"sc_pass", "sc_fail", "amo", "cas_pass", "cas_fail"}
  Emulate = TRUE
  MaxOrder = 9
  PatchKept = 2
  BackToBack = FALSE
  BranchTags = {0, 1}
  MaxFetches = 2
  MaxRecords = 4
  MaxUops = 2
  Debugrom = FALSE
  NumHarts = 2
  HartCount = 3
  HartLists <- ThreeLists
  Cosim = TRUE
INVARIANTS HeadVisible ResetTaken DelayedInOrder AtomicWrites RemapRight
  OneTagOwnWrites CallsApart
PROPERTIES ImplementsQueue SnapshotRight
CHECK_DEADLOCK FALSE
