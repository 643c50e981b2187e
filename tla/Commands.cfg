CONSTANTS
  de = de
  at = at
  x = x
  y = y
  Flights = {1, 2, 3, 4, 5}
  Verdict <- MCVerdict
  Runs = {r1, r2}
  Chunk = 2
  Deletable = {1}
  NumPoints = 4
  Lengths <- MCLengths
  Previous <- MCPrevious
  MaxAirports = 5
  MaxImports = 3
  AirportLists <- MCAirportLists
  Near = 2
  Reach = 4
  Batch = 3
  NoAirport = NoAirport
  Countries = {de, at}
  AirspaceFiles <- MCFiles
  MaxLines = 3
  Blacklist <- MCBlacklist
  TypeClasses <- MCTypes
  Unreadable = Unreadable
  NoClass = NoClass
  Commands = {k1, k2}
  FileNames = {t1, t2}
  Importers = {c1, c2}
  BelowFlight = {t1, t2}
  Viewers = {v1, v2}
  MaxTileRuns = 3
  MaxModified = 1
  Timeout = 2
  FlightTimes <- MCFlightTimes
  NoTime = NoTime
SPECIFICATION MCSpec
CHECK_DEADLOCK FALSE
INVARIANT OneResult
INVARIANT MissedBounded
PROPERTY VisitedOnce
PROPERTY AnalysisEnds
INVARIANT ChunksOfPath
INVARIANT AirportsImported
PROPERTY AirportsStay
INVARIANT AirspaceOfLastFile
INVARIANT ScoringGliding
PROPERTY ElevationsShown
