\* Clients come and go as they like; every call of the server may fail.
CONSTANTS
  c1 = c1
  c2 = c2
  Clients <- MCClients
  NumSocks = 3
  MaxListen = 2
  MaxTries <- MCTries
  Patient = FALSE
  Failures <- MCAllFail
SPECIFICATION FairSpec
INVARIANTS TypeOK OneClientPerSession SessionAgreement ConnectionsAccounted WaitsForItsClient
PROPERTIES EveryoneAnswered RecvEnds
CHECK_DEADLOCK FALSE
