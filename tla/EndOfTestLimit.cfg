SPECIFICATION Spec
CONSTANTS
  Harts = {0, 1}
  OtherId = 9
  FLAGS_max_instr = 2
  NRET = 2
  Plain = {l1}
  Secure = {l2}
  MaxStores = 2
INVARIANT PassNeedsTohost
CHECK_DEADLOCK FALSE
