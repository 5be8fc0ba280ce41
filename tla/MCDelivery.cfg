SPECIFICATION MCSpec
CONSTANTS
  Targets = {t1, t2}
  Workers = {w1}
  Delay = 1
  RetryBase = 1
  RetryMax = 2
  MaxAttempts = 3
  MaxCycles = 2
  MaxAborts = 1
  Users = {u1, u2}
  Requests = {q1}
  Senders = {s1, s2}
  MaxRows = 1
  MaxResolutions = 3
  MaxFaults = 2
  MaxStalls = 1
INVARIANTS RecoveryInv DeliveryInv
PROPERTIES NoStaleRecovery RecoveryKept RecoverySettles KeepsPromise ResolvedFenced ResolvedSettles
CHECK_DEADLOCK FALSE
