SPECIFICATION FairSpec
CONSTANTS
  rrq = rrq
  wrq = wrq
  junk = junk
  Requests = {rrq, wrq, junk}
  Malformed = {junk}
  LivesOn = {TRUE, FALSE}
  IoErrors = {TRUE, FALSE}
INVARIANTS
  TypeOK
PROPERTIES
  EveryPacketRead
  DetachedFinish
