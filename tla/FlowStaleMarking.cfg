CONSTANTS
  NoPostJob = NoPostJob
  ReviewDefault = TRUE
  PushDefault = TRUE
  MaxOverrides = 2
  MaxRetries = 1
  MaxCrashes = 1
  MaxSaveFailures = 2
  StaleMarking = TRUE
SPECIFICATION Spec
INVARIANTS
  OneCallOut
CHECK_DEADLOCK FALSE
