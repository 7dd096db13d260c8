CONSTANTS
  Clients = {1, 2}
  Conns = {1, 2, 3}
  Configs <- ConfigCases
  Known = {1, 2, 3}
  MaxSessions = 2
  MaxFaults = 2
SPECIFICATION FairSpec
\* nothing has to happen while every client is ready
CHECK_DEADLOCK FALSE
INVARIANTS
  PermitsConserved
  AllOrNothing
  EndsAgree
PROPERTIES
  SomeoneServes
  ReconnectsInTheEnd
