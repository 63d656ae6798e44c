SPECIFICATION FairSpec
CONSTANTS
  Sources = {s1, s2, s3}
  HardwareThreads = {0, 2}
  MaxDeaths = 2
INVARIANT TypeOK
INVARIANT OneSourcePerDeath
PROPERTY TakenInTurn
PROPERTY AcceptsAll
