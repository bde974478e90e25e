\* An attempt to start a new binary fails; then the configuration is reloaded.
CONSTANTS
  N = 1
  HasCache = FALSE
  KillDelay = 100
  Operator = {"USR2", "HUP"}
  MaxSent = 2
  MaxCrashes = 0
  MaxFatal = 0
  MaxFaults = 0
  MaxExecFail = 1
  MaxPids = 4
SPECIFICATION Spec
PROPERTY ReloadKeepsCount
CHECK_DEADLOCK FALSE
