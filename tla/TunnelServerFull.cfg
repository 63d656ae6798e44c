SPECIFICATION FairSpec
CONSTANTS
  c1 = c1
  c2 = c2
  c3 = c3
  Conns <- TwoConns
  Threads = 2
  GreetsFirst <- FirstTwo
  Faults <- NoFaults
PROPERTY Answered
CHECK_DEADLOCK FALSE
