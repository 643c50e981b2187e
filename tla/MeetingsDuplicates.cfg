CONSTANTS
  Flights = {1, 2, 3}
  Near <- MCNear
  Runs = {1, 2, 3, 4}
  Workers = 2
  Deletable = {}
SPECIFICATION MCSpec
CHECK_DEADLOCK FALSE
INVARIANT OneRunPerPair
