SPECIFICATION FairSpec
CONSTANTS
  Modulus = 8
  None = None
  MinBlockSize = 1
  MaxBlockSize = 7
  MaxU8 = 3
  MaxU16 = 7
  MaxU64 = 9
  DefaultBlockSize = 2
  DefaultTimeout = 2
  DefaultWindowSize = 1
  Blksizes = {None, 3}
  Windowsizes = {2}
  Retries = {1, 2}
  ServerRetries = 2
  FileLen = 4
  MaxTasks = 4
  MaxFaults = 2
  ClientOptions <- MCOptions
  Configs <- MCConfigs
INVARIANTS
  TypeOK
  SameParameters
  SuccessMeansWhole
  FirstComesFirst
  RobustOnceBegun
  NothingElseAwaited
PROPERTIES
  KeepsPromise
  AllReturn
