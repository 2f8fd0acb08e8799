SPECIFICATION Spec
CONSTANTS
  Modes = {"nothing", "inclusion", "finalization"}
  ScanDepth = 4
  MaxBlocks = 2
  MaxLosses = 1
INVARIANTS NotLost

CHECK_DEADLOCK FALSE
