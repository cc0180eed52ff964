CONSTANTS
  Threads = {t1, t2}
  Keys = {k1, k2}
  Stamps = {1, 2}
  MemCap = 2
  DiskCap = 2
  Faults = {}
  MaxSubmits = 2
  MaxRestarts = 0
SPECIFICATION EndSpec
INVARIANT MemoryEndsStored
CHECK_DEADLOCK FALSE
