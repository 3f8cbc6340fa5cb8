\* Two cores: ModeCoversLocks checked alone.
CONSTANTS
  Cores <- MC_DualCore
  ClientType <- MC_ClientType
  ClientCore <- MC_ClientCoreDual
  MaxNest = 1
  XtalMHz = 40
  DefaultFreq = "160M"
  ConfigFreqs <- MC_ConfigFreqs
  Tickless = FALSE

SPECIFICATION Spec

INVARIANT
  ModeCoversLocks
