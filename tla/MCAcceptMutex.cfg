\* Two workers and two listening sockets, with a descriptor shortage, a failing
\* event call, a crash and a graceful exit.
CONSTANTS
  w1 = w1
  w2 = w2
  s1 = s1
  s2 = s2
  Workers <- TwoWorkers
  NoPid = NoPid
  Sockets <- TwoSockets
  Connections = 1
  Eighth = 1
  MultiAccept = TRUE
  MaxArrivals = 2
  MaxEmfile = 1
  MaxFaults = 1
  MaxCrashes = 1
  MaxQuits = 1
SPECIFICATION LiveSpec
INVARIANT TurnSound
PROPERTIES
  UsesMutexAsSpecified
  BacklogServed
