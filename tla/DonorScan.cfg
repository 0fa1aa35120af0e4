SPECIFICATION Spec
CONSTANTS
  N = 6
  Stations = {1, 2, 3, 4, 5, 6, 7, 8}
  Catch <- CatchSums
  Capacity = 3
  Start <- LineStart
  End <- LineEnd
  Locations <- Places
  Dock <- LineDock
  Miles <- LineMiles
  Orders <- SixOrders
  From <- Froms
  To <- Tos
  Ports <- Ports6
INVARIANTS
  ChoiceIsNearest
  CopiesSound
  NearestAsDocumented
CHECK_DEADLOCK FALSE
