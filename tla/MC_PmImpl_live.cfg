\* Two cores, reconfiguration between XTAL and 240 MHz: every operation ends,
\* and PmImpl implements PmAbstract.
CONSTANTS
  Cores <- MC_DualCore
  ClientType <- MC_ClientType
  ClientCore <- MC_ClientCoreDual
  MaxNest = 1
  XtalMHz = 40
  DefaultFreq = "160M"
  ConfigFreqs <- MC_LiveConfigFreqs
  Tickless = FALSE

SPECIFICATION Spec

PROPERTIES
  SwitchCompletes
  AbstractSpec
