\* Two clients that wait for their answers connect at once.
CONSTANTS
  c1 = c1
  c2 = c2
  Clients <- MCClients
  NumSocks = 3
  MaxListen = 2
  MaxTries <- MCTries
  Patient = TRUE
  Failures = {}
SPECIFICATION FairSpec
PROPERTIES RecvEnds
CHECK_DEADLOCK FALSE
