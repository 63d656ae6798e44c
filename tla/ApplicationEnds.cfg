SPECIFICATION FairSpec
CONSTANTS
  Texts = {"", "127.0.0.1", "10.0.0.1", "0.0.0.0", "SERVER", "USER", "PASS"}
  IPv4 = {"127.0.0.1", "10.0.0.1", "0.0.0.0"}
  Garbage = {0, 32767}
  Directories <- OneLibrary
  HardwareThreads = {2}
  Programs <- Examples
  MaxNotifies = 1
PROPERTY Ends
CHECK_DEADLOCK FALSE
