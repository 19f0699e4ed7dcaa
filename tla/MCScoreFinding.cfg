SPECIFICATION ScoreSpec
CONSTANTS
  Gateways = {g1}
  ScoreTenants = {t1, t2}
  Keys = {k1}
  NoKey = NoKey
  MaxCalls = 2
  MaxSource = 1
INVARIANT NoSecondEntry
SYMMETRY Interchangeable
CHECK_DEADLOCK FALSE
