CONSTANTS
  Flights = {1, 2, 3}
  Near <- MCNear
  Runs = {1, 2, 3, 4}
  Workers = 2
  Deletable = {1}
  u1 = u1
  u2 = u2
  Missing = Missing
  Empty = Empty
  Mixed = Mixed
SPECIFICATION TransactionsSpec
CHECK_DEADLOCK FALSE
INVARIANT SerialOneRunPerPair
INVARIANT MeetingsFound
PROPERTY EveryRunEnds
PROPERTY EveryRequestEnds
