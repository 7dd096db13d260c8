CONSTANTS
  Good = {A, B}
  Conflicting = {C}
  Broken = {X}
  Absent = absent
  EditPoints = {"boot"}
  MaxEdits = 1
  MaxFaults = 0
SPECIFICATION FairSpec
\* the process may end
CHECK_DEADLOCK FALSE
PROPERTY
  EveryValidEditApplied
