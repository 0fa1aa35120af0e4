SPECIFICATION FairSpec
CONSTANTS
  NumStations = 4
  NumPorts = 2
  Locations <- MCLocations
  Instances <- MCInstances
  MaxSegments = 5
  Amounts <- Uneven
  Boats <- TwoBoats
INVARIANTS
  SegmentsAddUp
  OnlyGiantsOverload
  VisitedOnce
  GreedyCloses
PROPERTIES
  InsertsCheapest
  Ends
CHECK_DEADLOCK FALSE
