CONSTANTS
  s1 = s1
  s2 = s2
  Sessions = {s1, s2}
  Jobs = {j1}
  SessionOf <- JobsRead
  SessionCap = 1
  DailyCap = 1
  Criteria = 1
  Faults = {"spawn", "store", "withheld", "full"}
  Edited = {s1}
  MaxRuns = 3
  MaxRestarts = 1
SPECIFICATION FairSpec
CHECK_DEADLOCK FALSE
INVARIANTS OneUnasked SlotShared SpendBounded
PROPERTY LaneFrees
