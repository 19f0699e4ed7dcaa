SPECIFICATION LimiterSpec
CONSTANTS
  Uvicorns = {v1}
  Hosts = {h1}
  Bearers = {b1, b2}
  RatePerMin = 2
  Minute = 2
  Cooldown = 1
  MaxRequests = 3
  LastTick = 1
INVARIANT TenantsApart
CHECK_DEADLOCK FALSE
