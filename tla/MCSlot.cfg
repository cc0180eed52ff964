CONSTANTS
  s1 = s1
  s2 = s2
  Sessions = {s1}
  Jobs = {j1, j2}
  SessionOf <- JobsRead
  SessionCap = 2
  DailyCap = 2
  Criteria = 1
  Faults = {}
  Edited = {}
  MaxRuns = 1
  MaxRestarts = 0
SPECIFICATION Spec
CHECK_DEADLOCK FALSE
INVARIANT OneReadingPerSession
