SPECIFICATION AllSpec
CONSTANTS
  c1 = c1
  c2 = c2
  Workers = {w1, w2}
  Cnpjs <- TwoCompanies
  Lists <- LongLists
  Threshold = 2
  Recovery = 2
  MaxClock = 3
  MaxTasks = 2
  PageLimit = 2
  MaxRetries = 2
  DayLength = 2
  MaxJobs = 2
  Readers = {r1, r2}
  IndexPages <- SmallIndex
  Served <- SmallLibrary
  DocRetries = 1
  MaxRuns = 2
  Answers <- SmallAnswers
  KeyLists <- TownLists
  Uvicorns = {v1, v2}
  Hosts = {h1, h2}
  Bearers = {b1}
  RatePerMin = 2
  Minute = 2
  Cooldown = 1
  MaxRequests = 3
  LastTick = 2
  a1 = a1
  Replicas = {p1, p2}
  Accounts = {a1}
  TenantOf <- OneTenant
  Lifetime = 2
  LastHour = 3
  MaxKeys = 2
  MaxTokens = 1
INVARIANTS LimitHolds CountersSound AccessSound
INVARIANTS CircuitSound ReportsSound DocumentsSound
PROPERTY FailingSourceLeftAlone
CHECK_DEADLOCK FALSE
