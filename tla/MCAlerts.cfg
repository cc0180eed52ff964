CONSTANTS
  Sessions = {"a", "b"}
  Clicks = {"here", "there"}
  Here = {"here"}
  DiskFaults = {"unreadable", "unwritable"}
  Notices = {"n"}
  Hooked = {"a"}
  Shown = {"b"}
  Cooldown = 2
  Floor = 1
  Working = 2
  MaxEvents = 3
  None = None
SPECIFICATION FairSpec
CHECK_DEADLOCK FALSE
INVARIANTS EndedStaysSilent BoardAgrees
PROPERTY DelayedNotLost
