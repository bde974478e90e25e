\* An upgrade is rolled back and the old master is told to stop.
CONSTANTS
  N = 1
  HasCache = FALSE
  KillDelay = 100
  Operator = {"USR2", "WINCH", "HUP", "QUIT"}
  MaxSent = 4
  MaxCrashes = 0
  MaxFatal = 0
  MaxFaults = 0
  MaxExecFail = 0
  MaxPids = 4
SPECIFICATION Spec
INVARIANT ExitLeavesNoChild
CHECK_DEADLOCK FALSE
