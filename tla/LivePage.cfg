CONSTANTS
  Second = 2
  Apart = 3
  Day = 20
  MaxAge = 10
  Delay = 1
  Start = 2
  End = 16
  Polls = {p1}
  Pending = 1
  Ordered = TRUE
  Steady = TRUE
  a = a
  b = b
  c = c
  PageFlights = {a, b, c}
  FirstFlight = a
  NoFlight = NoFlight
  TrackTimes <- MCTimes
  NearLimit = 1
  MaxTimeouts = 2
SPECIFICATION MCSpec
CHECK_DEADLOCK FALSE
INVARIANT TrackIncreasing
INVARIANT TrackFaithful
PROPERTY AnswersComplete
INVARIANT PageConsistent
INVARIANT PinnedLoaded
PROPERTY PlaybackEnds
