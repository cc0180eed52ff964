CONSTANTS
  Threads = {t1, t2}
  Keys = {k1, k2}
  Stamps = {1, 2}
  MemCap = 1
  DiskCap = 1
  Faults = {"save", "raise"}
  MaxSubmits = 3
  MaxRestarts = 1
SPECIFICATION EndSpec
INVARIANTS EndTypeOK NoStrandedOp
PROPERTIES EndNeverGoesBack QueueDrains
CHECK_DEADLOCK FALSE
