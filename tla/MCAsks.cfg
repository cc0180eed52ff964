CONSTANTS
  Asks = {a1, a2}
  Clickers = {c1, c2}
  Options = {0}
  Indices = {0, 1}
  Limit = 1
  Deadline = 1
  Retention = 1
  MaxTime = 3
SPECIFICATION FairSpec
CHECK_DEADLOCK FALSE
INVARIANTS TypeOK NoOrphan SettledKept
PROPERTY Promise
