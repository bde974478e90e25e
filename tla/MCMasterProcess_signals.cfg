\* One worker, any two signals, a crash, a fatal exit, a failing fork() and a
\* failing upgrade; the children may hang.
CONSTANTS
  N = 1
  HasCache = FALSE
  KillDelay = 100
  Operator = {"HUP", "QUIT", "TERM", "USR1", "USR2", "WINCH"}
  MaxSent = 2
  MaxCrashes = 1
  MaxFatal = 1
  MaxFaults = 1
  MaxExecFail = 1
  MaxPids = 5
SPECIFICATION HangSpec
INVARIANT ChildrenTracked
PROPERTY TermEnds
CHECK_DEADLOCK FALSE
