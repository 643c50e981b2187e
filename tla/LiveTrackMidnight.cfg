CONSTANTS
  Second = 1
  Apart = 1
  Day = 8
  MaxAge = 4
  Delay = 1
  Start = 6
  End = 15
  Polls = {p1}
  Pending = 1
  Ordered = TRUE
  Steady = TRUE
SPECIFICATION Spec
CHECK_DEADLOCK FALSE
PROPERTY AnswersComplete
