CONSTANTS
  MeshRows = 1
  MeshCols = 3
  RowCounts = {2}
  RowBytes = {2}
  RowStrides = {2, 4, 5, 6}
  NoGeometry = NoGeometry
  Everyone = Everyone
SPECIFICATION Spec
INVARIANTS Closes ArenaFilled GeneratedAccepted
CHECK_DEADLOCK FALSE
