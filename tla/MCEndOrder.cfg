CONSTANTS
  Threads = {t1, t2, t3}
  Keys = {k1, k2}
  Stamps = {1, 2}
  MemCap = 2
  DiskCap = 2
  Faults = {}
  MaxSubmits = 4
  MaxRestarts = 0
SPECIFICATION EndSpec
SYMMETRY Symmetry
INVARIANT DiskFollowsDecisions
CHECK_DEADLOCK FALSE
