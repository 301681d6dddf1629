SPECIFICATION StaleSpec
CONSTANTS
  e1 = e1
  e2 = e2
  a = a
  b = b
  c = c
  Keys = {e1, e2}
  Ids = {a, b, c}
  RowBytes = 2
  Segments <- MCSegments
  Commands <- MCCommands
  NoCommand = NoCommand
  MaxPending = 3
PROPERTIES RetiredComplete
