SPECIFICATION Spec
CONSTANTS
  Stations = {1, 2, 3}
  Ports = {p1, p2}
  Home = home
  Amounts <- Uneven
  Capacities = {3, 5}
  MaxEmpty = 1
  Catch <- CatchSums
  Inputs <- AllInputs
INVARIANTS
  EveryStationReported
CHECK_DEADLOCK FALSE
