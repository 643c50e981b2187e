\* Uploads and a delete request, one after the other or in parallel; one upload and the deletion may die.
CONSTANTS
  u1 = u1
  u2 = u2
  u3 = u3
  d1 = d1
  d2 = d2
  Uploads = {u1, u2}
  Deletes = {d1}
  Data <- MCData
  Verdict <- MCVerdict
  Names = {0, 1, 2, 3}
  Batches <- SerialBatches
  Threads = 3
  Faulty = {u1, d1}
  Missing = Missing
  Empty = Empty
  Mixed = Mixed
SPECIFICATION MCSpec
CHECK_DEADLOCK FALSE
INVARIANT OrphansOfFailuresOnly
INVARIANT TasksForPublished
INVARIANT SerialFilesIntact
INVARIANT SerialGoodFlightsStored
INVARIANT SerialRepeatsNeverFail
PROPERTY ImplementsStore
