SPECIFICATION LivenessSpec
CONSTANTS
  t1 = t1  t2 = t2  t3 = t3  k1 = k1  k2 = k2
  Tenants = {t1, t2, t3}
  Requests = {r1, r2}
  Writers = {w1, w2}
  Clients = {}
  LockKeys = {k1, k2}
  LockKeyOf <- SharedAndOwn
  AnchorInterval = 2
  NoWriter = NoWriter
  Jobs = {j1}
  Items = {i1, i2, i3}
  ProgressEvery = 2
  BatchTtl = 3
INVARIANT TrackerSound
PROPERTIES EveryAddEntryEnds NeverGoesBack EveryEntryExpires StartedJobSettles
CHECK_DEADLOCK FALSE
