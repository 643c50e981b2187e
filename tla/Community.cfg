CONSTANTS
  u1 = u1
  u2 = u2
  u3 = u3
  r1 = r1
  r2 = r2
  Users = {u1, u2, u3}
  Managers = {u1}
  NoPassword = {u2}
  FirstUsers = {u1, u2}
  Clubs = {c1, c2}
  FirstClubs = {c1}
  Flights = {f1}
  NoUser = NoUser
  NoClub = NoClub
  Requests = {r1, r2}
  MaxEvents = 3
  m1 = m1
  m2 = m2
  L1 = L1
  R1 = R1
  C1 = C1
  Logged = {1, 2}
  Uploaders = {u1, u2}
  Staff = {u2}
  Headers <- MCHeaders
  PhoneLoggers = {L1}
  ModelNames = {m1, m2}
  Similar <- MCSimilar
  Entries <- MCEntries
  IndexFiles <- MCFiles
  Forms = {1, 2}
  MaxListed = 2
  NoData = NoData
  Empty = Empty
  Blank = Blank
  TooLong = TooLong
  People = {1, 2}
  a1 = a1
  Addresses = {a1, a2}
  Admins = {1}
  Handlers = {1, 2}
  MaxKeys = 2
SPECIFICATION MCSpec
CHECK_DEADLOCK FALSE
INVARIANT TypeOK
INVARIANT FollowersAnnounced
INVARIANT ClubsOfFlights
INVARIANT NewsOfOthers
PROPERTY MergesKeepPilots
PROPERTY FormsPublish
INVARIANT KeysMailed
INVARIANT LinksFresh
