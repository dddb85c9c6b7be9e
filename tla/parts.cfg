SPECIFICATION PartsSpec
CONSTANTS
  Tasks = {t1, t2, t3}
  MaxVersions = 2
  MaxOps = 5
  Nothing = Nothing
  Users = {u1, u2}
  MaxPolls = 3
  MaxOperations = 3
  Changes = {d1}
  Requests = {r1, r2}
  TTL = 1
  MaxTime = 1
  Readers = {r1}
  MaxContents = 3
  Pages = {p1, p2}
  Proxies = {r1}
  MaxAttempts = 2
  Concurrency = 1
  Updates = {u1, u2}
  MaxPage = 1
  MaxRequests = 2
  MaxDay = 1
  ActivityDays = 1
  Callers = {u1}
  Scales = {2}
  Models = {m1, m2}
  MaxLoaded = 1
  MaxEdits = 3
  None = None
  Browsers = {b1}
  Series = {s1}
  MaxPending = 1
  LoginTTL = 1
  SessionTTL = 1
  MaxClock = 1
  MaxAsked = 3
  MaxMade = 2
  Uploads = {1, 2, 3, 4}
  Number <- ComixNumber
  Votes <- ComixVotes
  Limit = 1
  MaxMoves = 1
  Calls = {c1, c2}
  Toggles = {g1}
  MaxWarms = 1
INVARIANTS
  AnswersAreTheSites
  AccessIsEarned
  ReadingIsCounted
  UpscaledByCurrentModel
  PartsTypeOK
  PagesAreTheirOwn
  StaleAnswersOverlapped
PROPERTIES
  ImplementsAtomicArchive
  OperationsAreApart
CHECK_DEADLOCK FALSE
