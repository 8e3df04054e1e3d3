SPECIFICATION Spec
CONSTANTS
  Specs <- ValidSpecs
  MaxBlocks = 1
  MaxFaults = 0
INVARIANT CancelIsRecorded
CHECK_DEADLOCK FALSE
