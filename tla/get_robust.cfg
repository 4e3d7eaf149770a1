SPECIFICATION FairSpec
CONSTANTS
  Modulus = 5
  NumBlocks = 5
  BlkSize = 2
  LastLen = 1
  SWindow = 2
  RWindow = 2
  SRetries = 2
  RRetries = 2
  Server = "S"
  MaxAge = 2
  MaxFaults = 2
  IoErrors = FALSE
INVARIANTS
  Robust
  RobustInv
PROPERTIES
  Delivered
