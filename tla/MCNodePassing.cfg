SPECIFICATION Spec
CONSTANTS
  NodeCount = 5
  Register = 4
  ByteDigits = 1
  LandDigits = 1
  FlagDigits = 1
  ExpDigits = 1
  OpcodeCount = 4
  SeenCapacity = 2
  Tables <- MCTables
  Images <- MCImages
  Placed = {1, 4}
  Sources = {0, 2}
  RowBytes = 1
  Addr <- MCAddr
  Dst = 1
  Capacity = 2
  Stride = 4
  TagCapacity = 2
  First <- MCFirst
  MaxSeq <- MCMaxSeq
INVARIANT MirrorsLedger
CHECK_DEADLOCK FALSE
