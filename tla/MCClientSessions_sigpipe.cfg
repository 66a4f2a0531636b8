\* A client leaves in the handshake; no call of the server fails otherwise.
CONSTANTS
  c1 = c1
  c2 = c2
  Clients <- MCClients
  NumSocks = 3
  MaxListen = 2
  MaxTries <- MCTries
  Patient = FALSE
  Failures = {}
SPECIFICATION Spec
INVARIANTS ServerSurvives
CHECK_DEADLOCK FALSE
