SPECIFICATION MCSpec
CONSTANTS
  NoPostJob = NoPostJob
  ReviewDefault = TRUE
  PushDefault = TRUE
  MaxOverrides = 2
  MaxRetries = 1
  MaxCrashes = 1
  MaxSaveFailures = 1
  StaleMarking = FALSE
  Callers = {c1, c2}
  Required = {"small", "large"}
  MaxLooks = 1
  MaxCalls = 3
INVARIANTS
  TypeOK
  PushesAccounted
  ChoiceStands
PROPERTIES
  RevisionNeverRollsBack
  KeepsLedger
  NothingHangs
  DuePushIsReported
  StopEndsOurs
  CallsEnd
CHECK_DEADLOCK FALSE
