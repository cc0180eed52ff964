CONSTANTS
  Asks = {a1}
  Clickers = {c1}
  Options = {0}
  Indices = {0}
  Limit = 1
  Deadline = 1
  Retention = 1
  MaxTime = 3
SPECIFICATION Spec
CHECK_DEADLOCK FALSE
INVARIANT AnswerSurvives
