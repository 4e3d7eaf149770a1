SPECIFICATION Spec
CONSTANTS
  CR = CR
  LF = LF
  NUL = NUL
  Byte = {CR, LF, NUL, Other}
  MaxLen = 5
  BlkSizes = {2, 3}
  Files <- MCFiles
INVARIANTS
  CutInv
  BlocksAreCut
  RoundTrip
  DecodingIgnoresCuts
PROPERTIES
  EveryFileEnds
CHECK_DEADLOCK FALSE
