\* Demonstrations of two acts, two requests and one navigation.
SPECIFICATION RecordSpec
CONSTANTS
  Labels = {"pin", "pay"}
  Controls <- SmallControls
  Asks <- SmallAsks
  Urls = {"u"}
  Sends <- SmallSends
  Actuations = 2
  Writes = 2
  Navs = 1
  Happenings = 2
  Faults = {"drain", "meta", "verdict"}
INVARIANTS
  EveryWriteGated
  NothingLost
  CredentialsFromSlots
CHECK_DEADLOCK FALSE
