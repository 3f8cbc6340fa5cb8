CONSTANTS
  Width = 30
  XT_TICK_PER_SEC = 100
  TicksPerUs <- MC_TicksPerUs
SPECIFICATION Spec
PROPERTY RescaleMatchesReference
