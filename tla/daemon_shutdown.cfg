SPECIFICATION FairSpec
CONSTANTS
  rrq = rrq
  wrq = wrq
  junk = junk
  Requests = {rrq, wrq, junk}
  Malformed = {junk}
  LivesOn = {FALSE}
  IoErrors = {FALSE}
PROPERTIES
  InFlightFinish
