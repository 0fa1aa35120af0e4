SPECIFICATION Spec
CONSTANTS
  Methods <- MCMethods
  Refined <- MCMethods
  Variants = {60}
  Defaults = {60}
  Goals <- MCGoals
  Passes = {1}
  MaxCalls = 2
  MaxMishaps = 1
  MaxExports = 1
INVARIANTS
  UpToDateIsRight
  LineageClosed
PROPERTIES
  NothingRemade
  AllAtOnce
  FailsOnlyOnClash
CHECK_DEADLOCK FALSE
