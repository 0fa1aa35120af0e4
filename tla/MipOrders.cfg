SPECIFICATION FairSpec
CONSTANTS
  Locations <- MCLocations
  Instances <- MCInstances
  Far = 1000
INVARIANTS
  SearchIsExact
  OrderAsPaid
  SegmentsFit
PROPERTIES
  Terminates
CHECK_DEADLOCK FALSE
