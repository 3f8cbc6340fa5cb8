CONSTANTS
  QueueLen = 3
  MaxSessions = 1
  CreateMayFail = FALSE
  PhaseEvents = TRUE
  ErrorEvents = TRUE
  DestroyAfterStop = FALSE
SPECIFICATION Spec
INVARIANTS
  TypeOK
PROPERTY
  SessionEndSignalled
CHECK_DEADLOCK FALSE
