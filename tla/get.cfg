SPECIFICATION Spec
CONSTANTS
  Modulus = 4
  NumBlocks = 5
  BlkSize = 2
  LastLen = 0
  SWindow = 2
  RWindow = 2
  SRetries = 1
  RRetries = 1
  Server = "S"
  MaxAge = 1
  MaxFaults = 2
  IoErrors = TRUE
INVARIANTS
  IInv
PROPERTIES
  KeepsPromise
