CONSTANTS
  NoPostJob = NoPostJob
  ReviewDefault = FALSE
  PushDefault = FALSE
  MaxOverrides = 0
  MaxRetries = 0
  MaxCrashes = 0
  MaxSaveFailures = 0
  StaleMarking = TRUE
SPECIFICATION Spec
PROPERTIES
  PushOnlyForCompletedJob
CHECK_DEADLOCK FALSE
