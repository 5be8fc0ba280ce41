SPECIFICATION MCSpec
CONSTANTS
  Groups = {g1}
  Requests = {p1, p2}
  Nobody = Nobody
  MaxIncidents = 2
  MaxLinks = 2
SYMMETRY Symmetry
INVARIANTS IncidentInv DeadlockNeedsLateLink
PROPERTIES StatusGraph ResumesIncident
CHECK_DEADLOCK FALSE
