SPECIFICATION Spec
CONSTANTS
  None = None
  MinBlockSize = 2
  MaxBlockSize = 5
  MaxU8 = 3
  MaxU16 = 7
  MaxU64 = 9
  DefaultBlockSize = 4
  DefaultTimeout = 2
  DefaultWindowSize = 1
  FileSize = 6
  Values = {0, 1, 3, 5, 8}
  BlockCaps = {1, 3, 7}
  Timeouts = {1, 2}
  MaxPairs = 2
  Configs <- MCConfigs
  ClientOptions <- MCClientOptions
  OtherFrames <- MCOtherFrames
INVARIANTS
  ConfiguredTimeoutInForce
CHECK_DEADLOCK FALSE
