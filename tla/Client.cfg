SPECIFICATION FairSpec
CONSTANTS
  MaxCalls = 1
INVARIANT TypeOK
INVARIANT PhasesInOrder
INVARIANT OnePerPhase
INVARIANT LeavesHandlers
INVARIANT NeverStarves
PROPERTY Returns
CHECK_DEADLOCK FALSE
