\* Two cores, an APB_MAX client on core 0 and a NO_LIGHT_SLEEP client on
\* core 1, reconfiguration among XTAL, 80 and 240 MHz: safety.
CONSTANTS
  Cores <- MC_DualCore
  ClientType <- MC_ClientType
  ClientCore <- MC_ClientCoreDual
  MaxNest = 1
  XtalMHz = 40
  DefaultFreq = "160M"
  ConfigFreqs <- MC_ConfigFreqs
  Tickless = FALSE

SPECIFICATION Spec

INVARIANTS
  TypeOK
  RegistryConsistent
  SwitchExclusive
  ScaleFactorsValid
  ClockConsistent
