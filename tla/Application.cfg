SPECIFICATION FairSpec
CONSTANTS
  Texts = {"", "127.0.0.1", "10.0.0.1", "0.0.0.0", "SERVER", "USER", "PASS"}
  IPv4 = {"127.0.0.1", "10.0.0.1", "0.0.0.0"}
  Garbage = {0, 32767}
  Directories <- SomeDirectories
  HardwareThreads = {0, 1, 2}
  Programs <- AllPrograms
  MaxNotifies = 2
INVARIANT TypeOK
INVARIANT SettingsFirst
INVARIANT StartsOnce
INVARIANT OptionsReach
PROPERTY JoinsForGood
PROPERTY ListensOrEnds
CHECK_DEADLOCK FALSE
