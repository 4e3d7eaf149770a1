SPECIFICATION Spec
CONSTANTS
  None = None
  MinBlockSize = 2
  MaxBlockSize = 3
  MaxU8 = 2
  MaxU16 = 4
  MaxU64 = 5
  DefaultBlockSize = 3
  DefaultTimeout = 2
  DefaultWindowSize = 1
  FileSize = 5
  Values = {0, 1, 2, 3, 4, 5, 6}
  BlockCaps = {1, 2, 4}
  Timeouts = {2}
  MaxPairs = 2
  Configs <- MCConfigs
  ClientOptions <- MCClientOptions
  OtherFrames <- MCOtherFrames
INVARIANTS
  TypeOK
  Agree
  OackAnswersRequest
  TouchesOnlyWhatItServes
  Confined
CHECK_DEADLOCK FALSE
