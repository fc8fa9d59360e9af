CONSTANTS
  NoPostJob = NoPostJob
  ReviewDefault = FALSE
  PushDefault = FALSE
  MaxOverrides = 1
  MaxRetries = 0
  MaxCrashes = 0
  MaxSaveFailures = 0
  StaleMarking = FALSE
SPECIFICATION Spec
INVARIANTS
  PushWaitsForReview
CHECK_DEADLOCK FALSE
