CONSTANTS
  Services = {1, 2}
  Peers = {p1, p2}
  MaxFlows = 2
  IdLimit = 4
  IdleTimeout = 2
  Keys = {k1, k2, k3}
  Data = {d1}
  Sizes = {0, 2}
  ClientMaxFlows = 2
  QueueSlots = 2
  QueueBytes = 4
  WorkerIds = {1, 2, 3}
SPECIFICATION FlowsSpec
\* a session that ended stays ended
CHECK_DEADLOCK FALSE
INVARIANTS
  TablesInverse
  FlowLimit
  OneWorkerPerKey
  PermitsConserved
PROPERTIES
  IdForOneSource
  IdleFlowsLeave
  PermitsReturn
  KeyServedAgain
