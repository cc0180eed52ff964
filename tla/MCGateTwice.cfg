CONSTANTS
  Sessions = {"a", "b"}
  Clicks = {"here", "there"}
  Here = {"here"}
  DiskFaults = {"unreadable", "unwritable"}
  Notices = {"n"}
  Hooked = {"a"}
  Shown = {"b"}
  Cooldown = 2
  Floor = 1
  Working = 3
  MaxEvents = 3
  None = None
SPECIFICATION Spec
CHECK_DEADLOCK FALSE
INVARIANT OneGateOnePopup
