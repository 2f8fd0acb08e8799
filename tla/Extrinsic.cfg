SPECIFICATION FairSpec
CONSTANTS
  Modes = {"nothing", "inclusion", "finalization"}
  ScanDepth = 2
  MaxBlocks = 4
  MaxLosses = 2
INVARIANTS TypeOK ReceiptTrue PassedByDepthOnly
PROPERTIES Settles
CHECK_DEADLOCK FALSE
