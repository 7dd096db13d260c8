CONSTANTS
  MaxBytes = 2
  BufLen = 2
  Window = 1
  MaxFaults = 1
SPECIFICATION FairSpec
\* both tasks may have ended
CHECK_DEADLOCK FALSE
PROPERTIES
  ImplementsPipe
  HalfCloseDelivers
  BridgeEnds
