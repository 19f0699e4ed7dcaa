SPECIFICATION KeysSpec
CONSTANTS
  Processes = {p1, p2}
  Callers = {k1}
  Titulares = {uid}
  Tenants = {tA, tB}
  MaxKeyDraws = 2
  MaxErasures = 1
  MaxRestarts = 1
INVARIANT ErasureReachesToken
CHECK_DEADLOCK FALSE
