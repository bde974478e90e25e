\* Three workers with a semaphore, one spin attempt, up to two deaths or failing calls.
CONSTANTS
  w1 = w1
  w2 = w2
  w3 = w3
  Workers <- ThreeWorkers
  Master = master
  NoPid = nopid
  Semaphore = TRUE
  SpinTries = 1
  MaxFaults = 2
SPECIFICATION LiveSpec
INVARIANTS
  NoLostWakeup
PROPERTIES
  ImplementsMutex
  LockProgress
  DeadOwnerReleased
