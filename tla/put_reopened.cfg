SPECIFICATION Spec
CONSTANTS
  Modulus = 8
  None = None
  MinBlockSize = 1
  MaxBlockSize = 7
  MaxU8 = 3
  MaxU16 = 7
  MaxU64 = 9
  DefaultBlockSize = 2
  DefaultTimeout = 2
  DefaultWindowSize = 1
  Blksizes = {None}
  Windowsize = None
  Retries = 1
  Overwrite = {TRUE}
  FileLen = 3
  MaxTasks = 4
  MaxFaults = 2
  ClientOptions <- MCOptions
  Configs <- MCConfigs
INVARIANTS
  OkMeansIntact
