\* A worker, the cache manager and the cache loader: a reload and a reopen in
\* either order, and a crash.
CONSTANTS
  N = 1
  HasCache = TRUE
  KillDelay = 100
  Operator = {"HUP", "USR1"}
  MaxSent = 2
  MaxCrashes = 1
  MaxFatal = 0
  MaxFaults = 0
  MaxExecFail = 0
  MaxPids = 7
SPECIFICATION Spec
INVARIANT JustSpawnIsBrief
CHECK_DEADLOCK FALSE
