\* Two uploads served by two threads: what the result page says may not hold.
CONSTANTS
  u1 = u1
  u2 = u2
  u3 = u3
  d1 = d1
  d2 = d2
  Uploads = {u1, u2}
  Deletes = {}
  Data <- MCData
  Verdict <- MCVerdict
  Names = {0, 1, 2, 3}
  Batches <- RacingBatches
  Threads = 2
  Faulty = {}
  Missing = Missing
  Empty = Empty
  Mixed = Mixed
SPECIFICATION Spec
CHECK_DEADLOCK FALSE
INVARIANT SavedMeansStored
