CONSTANTS
  Checks <- MCChecks
  Covers <- MCCovers
  Inside <- MCInside
  Unsettled = 0
  Menu <- MCMenu
  ChildMenu <- MCChildMenu
  Readers = {r1}
  MaxEntries = 2
  Budget = 2
  ReplaySteps = 1
  MaxRecords = 3
  MaxChild = 1
  MaxTime = 2
  MaxBehind = 1
  MaxStale = 1
  Removed = {"src/"}
SPECIFICATION Spec
INVARIANT LevelIsOfTheDisk
CHECK_DEADLOCK FALSE
