SPECIFICATION Spec
CONSTANTS
  c1 = c1
  c2 = c2
  c3 = c3
  Conns <- ThreeConns
  Threads = 2
  GreetsFirst <- FirstTwo
  Faults <- AllFaults
SYMMETRY Symmetry
INVARIANT TypeOK
INVARIANT PoolSound
INVARIANT TunnelBeforeUse
INVARIANT WaitsForFirstWord
PROPERTY TakenInTurn
PROPERTY ExhaustedForGood
PROPERTY Progress
CHECK_DEADLOCK FALSE
