SPECIFICATION Spec
CONSTANTS
  N = 5
  EnableFallback = TRUE
  MaxAttempts = 2
INVARIANTS
  NoMisuse
  NothingLeaks
CHECK_DEADLOCK FALSE
