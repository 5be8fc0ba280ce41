SPECIFICATION MCSpec
CONSTANTS
  Workers = {w1, w2}
  Owners = {o1, o2, o3}
  NoOwner = NoOwner
  TTL = 2
  MaxTime = 5
  Tokens = {t1, t2}
  None = None
  Checks = {k1, k2}
INVARIANTS
  LockInv
  NoOverlapWithinLease
PROPERTIES
  OrphanRecovered
  PausedEventSettles
  DeadIsReported
CHECK_DEADLOCK FALSE
