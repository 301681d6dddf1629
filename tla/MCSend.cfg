SPECIFICATION FairSend
CONSTANTS
  MeshRows = 2
  MeshCols = 3
  TagBits = 8
  LinkWidth = 6
  Plans <- MCPlans
  NoPlan = NoPlan
INVARIANTS CleanIsAcyclic ReachesComponent AcceptedIsClean OneCopy FiguresAreCarried RowsAndDepth
PROPERTIES Ends StepsAreHops Delivers
CHECK_DEADLOCK FALSE
