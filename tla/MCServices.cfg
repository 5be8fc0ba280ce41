SPECIFICATION Spec
CONSTANTS
  Silences = {s1, s2}
  Alerts = {a1}
  Requests = {r1}
  Intake = intake
  Job = job
  MaxCalls = 1
  MaxDeaths = 1
  Slots = {q1, q2}
  Clients = {c1, c2}
  MaxAnswers = 4
  Day = 4
  Week = 2
  Horizon = 14
  Shift = 6
  Change = 2
  Anyday = Anyday
  Users = {"alice", "bob"}
  Layers <- SampleLayers
INVARIANTS SilenceInv CalendarAgrees
PROPERTIES SilencedReleased AnswerStands
CHECK_DEADLOCK FALSE
