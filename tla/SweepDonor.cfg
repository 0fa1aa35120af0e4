SPECIFICATION FairSpec
CONSTANTS
  N = 5
  Stations = {1, 2, 3, 4, 5, 6}
  Catch <- UnevenCatch
  Capacity = 3
  TourLengths <- LineTours
  Eps = 1
  InitialRoutes <- Zero5
  EnableFallback = TRUE
  MaxIterations = 1
  GlobalTimeLimit = 0
  TimeLimit = 0
  L1Limit = 0
  L2Limit = 0
  MaxSolveTime = 0
  Overhead = 0
  DebugMode = FALSE
  AllocMayFail = FALSE
  DockAt <- Docks5
  StationAt <- Line6
  Slack = 0
INVARIANTS
  NoStationTwice
  LoadIsCatch
  GainsExplainTrajectory
PROPERTIES
  ChangeReactivates
  ImplementsSearch
CHECK_DEADLOCK FALSE
