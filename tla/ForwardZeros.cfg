SPECIFICATION Spec
CONSTANTS
  Greeting = 2
  ReadBufferLength = 2
  MaxBytes = 2
INVARIANT ForwardsOnlyData
