SPECIFICATION Spec
CONSTANTS
  N = 1
  EnableFallback = TRUE
  MaxAttempts = 1
PROPERTIES
  OneSegmentUnchanged
CHECK_DEADLOCK FALSE
