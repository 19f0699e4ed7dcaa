SPECIFICATION RecordingSpec
CONSTANTS
  t1 = t1  t2 = t2  k1 = k1  k2 = k2
  Tenants = {t1, t2}
  Requests = {r1, r2, r3}
  Writers = {w1, w2}
  Clients = {c1}
  LockKeys = {k1, k2}
  LockKeyOf <- OwnKeys
  AnchorInterval = 2
  NoWriter = NoWriter
  Gateways = {g1, g2}
  ScoreTenants = {u1, u2}
  Keys = {q1}
  NoKey = NoKey
  MaxCalls = 3
  MaxSource = 1
SYMMETRY Interchangeable
INVARIANTS TypeOK IndexesContiguous NoFork AnchorsAgree RequestRecordedOnce ProofExact
INVARIANTS NothingUnrecorded DuplicatesBounded
PROPERTY ImplementsDecisionLedger
CHECK_DEADLOCK FALSE
