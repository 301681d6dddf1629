SPECIFICATION Spec
CONSTANTS
  Nodes = {0, 1, 2}
  Opcodes = {1, 2}
  EpochCap = 2
  Rows = 1
  RowBytes = 2
  Calls <- PartialCalls
  Images <- MCImages
  MaxCalls = 5
INVARIANTS NoCrossRound
CHECK_DEADLOCK FALSE
