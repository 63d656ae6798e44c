SPECIFICATION FairSpec
CONSTANTS
  c1 = c1
  c2 = c2
  c3 = c3
  Conns <- TwoConns
  Threads = 3
  GreetsFirst <- FirstTwo
  Faults <- OwnFaults
INVARIANT OthersUnharmed
PROPERTY Answered
CHECK_DEADLOCK FALSE
