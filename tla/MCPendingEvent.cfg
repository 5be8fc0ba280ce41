SPECIFICATION Spec
CONSTANTS
  Keys = {k1}
  Rows = {1, 2}
  Workers = {w1, w2}
  Intakes = {i1, i2}
  Tokens = {t1, t2, t3}
  None = None
  MaxAttempts = 2
  RetryBase = 1
  RetryCap = 2
  ClaimTTL = 1
  Pause = 1
  Limit = 2
  StoreTries = 2
  MayRaise = TRUE
  PauseResolves = TRUE
  MaxEvents = 2
  MaxCrashes = 1
SYMMETRY Symmetry
INVARIANTS
  PendingInv
  ActivatedOnce
PROPERTIES
  SettledForGood
  ClaimFenced
