CONSTANTS
  Sessions = {"a"}
  Clicks = {"here"}
  Here = {"here"}
  DiskFaults = {"unreadable", "unwritable"}
  Notices = {"n"}
  Hooked = {"a"}
  Shown = {}
  Cooldown = 2
  Floor = 1
  Working = 2
  MaxEvents = 3
  None = None
SPECIFICATION Spec
CHECK_DEADLOCK FALSE
INVARIANT MarkHoldsThisRun
