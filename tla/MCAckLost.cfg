SPECIFICATION FairSpec
CONSTANTS
  Keys = {k1}
  Intakes = {i1}
  Queue = queue
  Reminder = reminder
  Payloads = {"firing"}
  Operations = {"acknowledge"}
  Reopen = FALSE
  MaySilence = FALSE
  Failures = {}
  AloneActs = FALSE
  MaxInFlight = 2
  MaxEvents = 1
PROPERTIES WorkerKeepsAck
CHECK_DEADLOCK FALSE
