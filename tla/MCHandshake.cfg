CONSTANT
  Cases <- AllCases
SPECIFICATION Spec
\* a start or a handshake ends
CHECK_DEADLOCK FALSE
INVARIANTS
  AcceptedRuns
  ServerAuthenticated
  AgreedBeforePayload
PROPERTY
  HandshakeEnds
