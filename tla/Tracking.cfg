CONSTANTS
  Day = 10
  Late = 3
  Early = 2
  Evening = 6
  Pilots = {1, 2}
  d1 = d1
  d2 = d2
  Devices = {d1, d2}
  Skew <- MCSkew
  Follows <- MCFollows
  Club <- MCClub
  NoClub = NoClub
  Highs = {1}
  Recent = 5
  Limit = 32
  Start = 8
  End = 12
  MaxKeys = 2
  MaxFixes = 2
  MaxSessions = 2
  MaxLost = 1
  Tracks <- MCTracks
  Gap = 3
  Far = 99
SPECIFICATION MCSpec
CHECK_DEADLOCK FALSE
INVARIANT TimesKept
INVARIANT OwnFixesOnly
INVARIANT LeftOpen
INVARIANT FilesSplit
INVARIANT StatsMatchFiles
PROPERTY TrafficForward
