SPECIFICATION AllSpec
CONSTANTS
  Jobs = {j1}
  Sheets <- SmallSheets
  ChunkSize = 2
  Loaders = {w1, w2}
  RateTables <- SmallRates
  TipiFiles <- SmallTipi
  MigrationFiles <- SmallMigrations
  HandMade <- ByHand
  Seeded <- SmallSeed
  Requests <- SmallRequests
  Suggestions <- Hits
  LastDay = 2
  MaxLoads = 2
PROPERTY ScrapedRateTakesOver
CHECK_DEADLOCK FALSE
