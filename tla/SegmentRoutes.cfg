SPECIFICATION Spec
CONSTANTS
  Stations = {1, 2, 3, 4}
  Ports = {p1, p2}
  Home = home
  Amounts <- Uneven
  Capacities = {3, 5}
  MaxEmpty = 0
  Catch <- CatchSums
  Inputs <- AllInputs
INVARIANTS
  EveryStationReported
  FlagHonest
  NoPortWasted
  SolvedDockToDock
CHECK_DEADLOCK FALSE
