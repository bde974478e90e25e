\* Two children exit together; the first is started again.
CONSTANTS
  SlotCount = 3
  MaxStarts = 3
  MaxPids = 4
  MaxQuits = 1
  MaxFaults = 0
  Buffer = 4
SPECIFICATION ChSpec
INVARIANT Agreement
CHECK_DEADLOCK FALSE
