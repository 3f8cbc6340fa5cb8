CONSTANTS
  QueueLen = 3
  MaxSessions = 1
  CreateMayFail = FALSE
  PhaseEvents = TRUE
  ErrorEvents = TRUE
  DestroyAfterStop = TRUE
SPECIFICATION Spec
INVARIANT NoUseAfterFree
CHECK_DEADLOCK FALSE
