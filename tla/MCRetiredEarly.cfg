CONSTANTS
  Harnesses = {"claude"}
  Getters = {g1}
  Streams = FALSE
  Memo = 1
  Coalesce = 1
  Period = 2
  Reconcile = 3
  MaxEvents = 1
  MaxAsks = 0
  MaxChanges = 0
  MaxClears = 0
SPECIFICATION Spec
INVARIANT NotRetiredEarly
CHECK_DEADLOCK FALSE
