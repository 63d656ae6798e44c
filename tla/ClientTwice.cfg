SPECIFICATION Spec
CONSTANTS
  MaxCalls = 1
INVARIANT ExecutesOnce
CHECK_DEADLOCK FALSE
