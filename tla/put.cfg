SPECIFICATION FairSpec
CONSTANTS
  Modulus = 4
  NumBlocks = 5
  BlkSize = 2
  LastLen = 1
  SWindow = 1
  RWindow = 2
  SRetries = 1
  RRetries = 1
  Server = "R"
  MaxAge = 2
  MaxFaults = 2
  IoErrors = TRUE
INVARIANTS
  WrittenInOrder
  NeverForgetsUnwritten
  SuccessMeansWritten
PROPERTIES
  BothEnd
