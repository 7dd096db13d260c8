CONSTANTS
  Clients = {1}
  Conns = {1}
  Configs <- OneService
  Known = {1}
  MaxSessions = 1
  MaxFaults = 1
SPECIFICATION Spec
\* nothing has to happen while the client is ready
CHECK_DEADLOCK FALSE
INVARIANT
  OnlyCompletedServed
