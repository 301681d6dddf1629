SPECIFICATION FairSpec
CONSTANTS
  Nodes = {0, 1, 2}
  Opcodes = {1, 2}
  EpochCap = 2
  Rows = 2
  RowBytes = 2
  Calls <- UniformCalls
  Images <- MCImages
  MaxCalls = 4
INVARIANTS SoundCallCloses NoCrossRound NotPaperedOver OnlyAbortsLeak EpochsAgree
PROPERTY SoundCallReturns
CHECK_DEADLOCK FALSE
