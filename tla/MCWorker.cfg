CONSTANTS
  \* ThreadPool: three tasks, two threads, a queue limit of one, the eventfd read
  \* every second event, one failing call
  k1 = k1
  k2 = k2
  k3 = k3
  t1 = t1
  t2 = t2
  ExitTask = exit
  NoTask = notask
  Threads <- TwoThreads
  Tasks <- ThreeTasks
  MaxQueue = 1
  MaxIndex = 2
  MaxFaults = 1
  \* Timers: times of four bits that wrap once
  TimerEvents = {e1, e2}
  Range2 = 16
  Delays = {0, 1, 4}
  LazyDelay = 2
  MaxLate = 1
  MaxClock = 18
  \* EventLoop: two places, three incarnations, two batches
  Places = {l1, l2}
  MaxOpens = 3
  MaxBatches = 2
  \* Limits: two workers, two keys with room for one node, one fault
  ka = ka
  kb = kb
  LimWorkers = {w1, w2}
  LimKeys = {ka, kb}
  NoKey = NoKey
  LimAsks <- ThreeAsks
  LrBurst <- OneOverAndNone
  LrRate <- TwoRates
  LrUnit = 2
  LrSkew = 1
  LrOld = 1
  LrCap = 1
  LcMax <- OneAndTwo
  MaxLimClock = 2
  MaxLimFaults = 1
SPECIFICATION WorkerSpec
INVARIANTS
  WaitingAccounted
  ActiveTaskOwned
  CompletionNotified
  EventsReachTheirOwn
  LimitsKept
PROPERTIES
  TimersInTime
  CompletionDelivered
  DestroyEnds
