SPECIFICATION Spec
CONSTANTS
  Threads = {t1, t2}
  NoThread = NoThread
  Ontologies = {"folio", "canon", "other"}
  Default = "folio"
  Partner = "canon"
  Ceiling = 1
  MaxRequests = 2
  MaxReloads = 1
INVARIANTS
  CeilingHolds
  RulerNotStale
PROPERTIES
  RequestsEnd
CHECK_DEADLOCK FALSE
