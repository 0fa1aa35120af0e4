SPECIFICATION Spec
CONSTANTS
  Stations = {1, 2, 3, 4}
  Ports = {p1, p2}
  Home = home
  Amounts <- WithZero
  Capacities = {3, 5}
  MaxEmpty = 1
  Catch <- CatchSums
  Inputs <- AllInputs
INVARIANTS
  OrderKept
  CatchesMatch
  OversizeAlone
CHECK_DEADLOCK FALSE
