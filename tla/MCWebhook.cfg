SPECIFICATION FairSpec
CONSTANTS
  MaxRows = 2
  Workers = {w1, w2}
  NoToken = NoToken
  MaxAttempts = 2
  Concurrency = 1
  MaxFaults = 2
INVARIANTS WebhookInv
PROPERTIES FinalStays WebhookSettles
CHECK_DEADLOCK FALSE
