CONSTANTS
  d1 = d1
  d2 = d2
  p1 = p1
  p2 = p2
  j1 = j1
  j2 = j2
  Dashboards = {d1, d2}
  Pages = {p1, p2}
  PageOn <- Served
  Words = {w1, w2}
  w1 = w1
  w2 = w2
  Jobs = {j1, j2}
  JobOn <- Started
  LaneOn = {d1}
  Moments = {1, 2}
  Faults = {"store", "withdraw", "evict", "forget", "spoil"}
  Collecting = {d1}
  MaxEvents = 4
SYMMETRY Texts
SPECIFICATION Spec
CHECK_DEADLOCK FALSE
INVARIANTS NoSilentOverwrite NumbersNameOneText CopyKeepsSave MarkOnShown WithdrawnStayGone NeverNeither
PROPERTY NothingForgotten
