CONSTANTS
  Cores <- MC_Cores
  ClientType <- MC_ClientType
  LightSleepEn = FALSE
  BootTime = 1
  MaxTime = 3
  MaxLockCalls = 6
  NoDump = NoDump
SPECIFICATION Spec
INVARIANT DumpNonNegative
