SPECIFICATION FairSpec
CONSTANTS
  N = 3
  Stations = {1, 2, 3}
  Catch <- UnevenCatch
  Capacity = 2
  TourLengths <- LineTours
  Eps = 1
  InitialRoutes <- Zero3
  EnableFallback = FALSE
  MaxIterations = 0
  GlobalTimeLimit = 2
  TimeLimit = 1
  L1Limit = 1
  L2Limit = 2
  MaxSolveTime = 0
  Overhead = 1
  DebugMode = TRUE
  AllocMayFail = TRUE
  DockAt <- Docks3
  StationAt <- Line3
  Slack = 1
INVARIANTS
  TypeOK
  QuietMeansExhausted
  FeasibilityKept
  OverrunBounded
  TotalsAddUp
  SolvesMatchAttempts
  ReportFaithful
PROPERTIES
  Termination
CHECK_DEADLOCK FALSE
