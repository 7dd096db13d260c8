CONSTANTS
  Services = {1, 2}
  Peers = {p1, p2}
  MaxFlows = 1
  IdLimit = 2
  IdleTimeout = 1
  Keys <- MCKeys
  Data <- MCData
  Sizes = {1}
  ClientMaxFlows = 2
  QueueSlots = 1
  QueueBytes = 1
  WorkerIds = {1, 2}
SPECIFICATION TunnelSpec
\* a session that ended stays ended
CHECK_DEADLOCK FALSE
INVARIANTS
  SourceIsolation
