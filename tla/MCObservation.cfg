CONSTANTS
  Harnesses = {"claude"}
  Getters = {g1}
  Streams = TRUE
  Memo = 1
  Coalesce = 1
  Period = 1
  Reconcile = 2
  MaxEvents = 1
  MaxAsks = 1
  MaxChanges = 1
  MaxClears = 1
SPECIFICATION FairSpec
INVARIANT TypeOK
PROPERTIES RetiredWhenRead EventRetired AllShown
CHECK_DEADLOCK FALSE
