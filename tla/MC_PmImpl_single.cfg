\* One core (portNUM_PROCESSORS == 1, as on the ESP32-S2), two client
\* handles used from it: the lock guarantee and timer rescaling.
CONSTANTS
  Cores <- MC_SingleCore
  ClientType <- MC_ClientType
  ClientCore <- MC_ClientCoreSingle
  MaxNest = 2
  XtalMHz = 40
  DefaultFreq = "160M"
  ConfigFreqs <- MC_ConfigFreqs
  Tickless = FALSE

SPECIFICATION Spec

INVARIANTS
  ModeCoversLocks
  TimerResynced
