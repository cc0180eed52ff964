CONSTANTS
  Jobs = {j1}
  Sessions = {"s"}
  SessionOf <- MCSessionOf
  Faults = {"marker", "store", "doubt"}
  MaxDeaths = 2
SPECIFICATION FairSpec
CHECK_DEADLOCK FALSE
PROPERTY CancelEndsJob
