SPECIFICATION Spec
CONSTANTS
  Services = {1, 2, 3, 4}
  Businesses = {"b1", "b2"}
  Groups = {"g1"}
  Requests = {q1}
  Component <- Components
  OnService <- GroupService
  Severity <- GroupSeverity
  Catalogs <- SmallCatalogs
  MaxDepth = 2
  MinScore = 60
  Removable = {1}
  MaxEvents = 3
  MaxTime = 3
INVARIANTS ImpactEnds
CHECK_DEADLOCK FALSE
