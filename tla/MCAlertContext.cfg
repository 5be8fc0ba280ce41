SPECIFICATION Spec
CONSTANTS
  Services = {1, 2, 3, 4}
  Businesses = {"b1", "b2"}
  Groups = {"g1", "g2"}
  Requests = {q1, q2}
  Component <- Components
  OnService <- GroupService
  Severity <- GroupSeverity
  Catalogs <- SmallCatalogs
  MaxDepth = 2
  MinScore = 60
  Removable = {1}
  MaxEvents = 3
  MaxTime = 3
SYMMETRY Symmetry
INVARIANTS ContextInv
PROPERTIES WorseNeverHelps
CHECK_DEADLOCK FALSE
