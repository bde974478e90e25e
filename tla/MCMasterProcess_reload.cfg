\* Two workers, two reloads or a reload and a graceful stop, and a crash; every
\* fork() succeeds.
CONSTANTS
  N = 2
  HasCache = FALSE
  KillDelay = 100
  Operator = {"HUP", "QUIT"}
  MaxSent = 2
  MaxCrashes = 1
  MaxFatal = 0
  MaxFaults = 0
  MaxExecFail = 0
  MaxPids = 7
SPECIFICATION LiveSpec
INVARIANT WorkersBounded
PROPERTIES
  ReloadCompletes
  QuitEnds
CHECK_DEADLOCK FALSE
