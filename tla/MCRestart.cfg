CONSTANTS
  Good = {A, B}
  Conflicting = {C, D}
  Broken = {X}
  Absent = absent
  EditPoints = {"boot", "reread", "starting", "steady"}
  MaxEdits = 3
  MaxFaults = 1
  Intervals = {0, 1, 3, 15, 30, 31, 86400}
  SETUP = 10
  DRAIN = 2
  Stable = 60
  SetupTimes = {0, 10}
  DrainTimes = {0, 2}
  Lifetimes = {0, 1, 28, 29, 58, 60, 61, 86400}
  Jitters = {0, 500, 1000}
  MaxRetries = 8
SPECIFICATION RestartSpec
\* the process may end, and the bound on the retries is reached
CHECK_DEADLOCK FALSE
INVARIANTS
  OneValidTask
  GrowsToCap
PROPERTIES
  StopsWhenTold
  ValidEditApplied
  OnlyToldToExit
  ResetOnlyWhenReady
