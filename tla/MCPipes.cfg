CONSTANTS
  a = a
  b = b
  c = c
  Cores = {a, b, c}
  Group <- MCGroup
  WidthBits = 2
  Sends = 2
  MaxRounds = 2
SPECIFICATION FairSpec
INVARIANTS NothingLeftBehind ProducedBeforeSent
PROPERTY EveryRoundEnds
