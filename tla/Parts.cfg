\* The smaller parts.
CONSTANTS
  s1 = s1
  s2 = s2
  s3 = s3
  p1 = p1
  p2 = p2
  Id <- MCId
  Regions <- MCRegions
  PageSize = 2
  MaxPages = 2
  MaxMoves = 2
  Slugs <- MCSlugs
  Threads <- MCThreads
  Exceptions = {"HttpError", "TimeoutError"}
  Origins <- MCOrigins
  Optional = {"loki_volume", "label_inventory", "synthetic_inventory"}
  NonBlocking = {"label_inventory"}
  Population <- MCPopulation
  Shares <- MCShares
  Stacks = {"a", "b"}
  MaxClock = 2
  Windows <- MCWindows
  Least <- MCLeast
  Target <- MCTarget
  Most <- MCMost
  Now = 5
  MaxScans = 3
  MaxChanges = 1
  Revisions = {"r1", "r2"}
  MaxFaults = 3
  Alerts = {"stale", "fast"}
  Renamed = {"stale"}
  Receivers = {"oncall"}
  MaxCommands = 2
  Commands = {"c1", "c2"}
  Names <- MCNames
  Build <- MCBuild
  MaxFailures = 1
  MaxEdits = 1
SPECIFICATION Spec
SYMMETRY Symmetry
INVARIANTS
  FleetIsCovered
  BaselinesAreHonest
  UpgradeIsRecoverable
  AlertsStayRouted
  DashboardsAreIntact
  ListingsAreTrue
PROPERTIES
  GapAgesAreTrue
  OperatorsDecide
CHECK_DEADLOCK FALSE
