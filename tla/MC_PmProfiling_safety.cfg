\* One core: the client task and the rtos path (idle hook, ISR hook) of the
\* core take their locks with timestamps read before the critical section.
CONSTANTS
  Cores <- MC_SingleCore
  ClientType <- MC_ClientTypeSingle
  LightSleepEn = FALSE
  BootTime = 1
  MaxTime = 4
  MaxLockCalls = 8
  NoDump = NoDump
SPECIFICATION Spec
INVARIANTS
  TypeOK
  
