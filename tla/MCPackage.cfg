CONSTANTS
  Identities = {"gate", "up", "down"}
  RouteKey <- MCRouteKey
  Opcode <- MCOpcode
  MaxKeys = 3
  NodeCount = 4
  EmittableCounts = {4}
  LineCells = 4
  Versions = {1, 2}
  Manifests <- MCManifests
  ShardSizes = {0, 2047, 2048}
  Concurrent <- MCConcurrent
  Free = Free
  NoSite = NoSite
SPECIFICATION PackageSpec
INVARIANTS OneToOne SiteReadsItsRow SavedIsLoaded RefillsAccounted RowsAreSafe OneAlgorithm NoSharedDomain
CHECK_DEADLOCK FALSE
