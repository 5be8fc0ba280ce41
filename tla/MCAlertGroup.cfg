SPECIFICATION MCSpec
CONSTANTS
  Keys = {k1, k2}
  Intakes = {i1}
  Queue = queue
  Reminder = reminder
  Payloads = {"firing", "resolved"}
  Operations = {"acknowledge", "resolve"}
  Reopen = FALSE
  MaySilence = TRUE
  Failures = {}
  AloneActs = FALSE
  MaxInFlight = 1
  MaxEvents = 4
  Requests = {i1, i2}
  MaxPayloads = 3
INVARIANTS
  AlertInv
  NoDuplicatesInOverlap
PROPERTIES
  ResolvedFinal
  FirstPage
  QueueDrainsInOverlap
CHECK_DEADLOCK FALSE
