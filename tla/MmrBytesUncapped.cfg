CONSTANTS
  Bus = 4
  Container = 8
  MaxAddr = 16
  Cap = 0
SPECIFICATION Spec
INVARIANT AddressedBytes
CHECK_DEADLOCK FALSE
