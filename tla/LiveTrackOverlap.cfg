CONSTANTS
  Second = 1
  Apart = 1
  Day = 20
  MaxAge = 4
  Delay = 1
  Start = 2
  End = 9
  Polls = {p1, p2}
  Pending = 2
  Ordered = TRUE
  Steady = TRUE
SPECIFICATION Spec
CHECK_DEADLOCK FALSE
INVARIANT TrackIncreasing
