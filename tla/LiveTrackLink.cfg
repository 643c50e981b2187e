CONSTANTS
  Second = 2
  Apart = 3
  Day = 20
  MaxAge = 10
  Delay = 1
  Start = 2
  End = 16
  Polls = {p1}
  Pending = 1
  Ordered = TRUE
  Steady = TRUE
SPECIFICATION Spec
CHECK_DEADLOCK FALSE
PROPERTY LinkIsLatest
