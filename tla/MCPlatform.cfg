SPECIFICATION PlatformSpec
CONSTANTS
  Ledgers = {L1}
  Requests = {r1, r2}
  Clients = {c1}
  MaxEntries = 6
  Processes = {p1, p2}
  Callers = {k1, k2}
  Titulares = {uid}
  Tenants = {tA, tB}
  MaxKeyDraws = 2
  MaxErasures = 1
  MaxRestarts = 1
  Runners = {m1, m2}
  Files = 2
  MaxEdits = 1
  MaxRuns = 2
  Cases <- SmallCases
  Sections = 3
  Handoff = 2
  Filings <- SmallFilings
  Settings <- SmallSettings
  Lawsuits = {"p1", "p2"}
  Companies = {"c1", "c2"}
  GraphWorkers = {n1, n2}
  Batches <- SmallBatches
  MaxBatches = 4
  Towns = {1, 2, 3}
  HomeUf <- SmallUfs
  PageSize = 1
  Employers = {e1}
  Agencies = {o1}
  SnisRows <- SmallSnis
  Counts <- SmallCounts
  Limit = 500
  LastYear = 2
  Gateways = {g1}
  Matters = {x1}
  Calibrators = {w1, w2}
  MaxRetries = 1
  MaxData = 2
  Shares = {0, 39, 40, 60, 100}
  Amounts = {0, 3, 10}
  Volumes = {0, 2, 3, 9, 40}
  Longest = 4
  Debts = {0, 400}
  Capitals = {20}
  Suits = {0, 500}
  DigitSum = 63
  Segments <- SmallSegments
  Sizes <- SmallSizes
  CaseIds = {d1}
  Months = {"2024-01", "2024-02"}
  Csvs <- SmallCsvs
  Aggregators = {a1, a2}
  MaxChanges = 3
  MaxFailures = 1
INVARIANTS LedgerSound ErasedIsUnreadable ReadableUntilErased RowsAreWhatRan AppliedInOrder
INVARIANTS DefensorSound CountedOnce PagesMissNoTown AlertsAreExact AnswersSound
INVARIANTS ReportsOneSided CurrentMeansCovered
PROPERTIES ModelsFollowTheirCause CrateFailureIsHidden
CHECK_DEADLOCK FALSE
