\* WiFi and BT enable and disable the PHY across resets, deep-sleep wakes,
\* OTA updates to a newer calibration format, flash damage, failed NVS
\* writes and application erases.
CONSTANTS
  Clients <- MC_Clients
  Versions <- MC_Versions
  AllowRollback = FALSE
  NoValue = NoValue
  OwnMac = OwnMac
  OtherMac = OtherMac
  InitDataInPartition = TRUE
  ReducePhyTxPower = TRUE

SPECIFICATION Spec

INVARIANTS
  TypeOK
  PhyPowerConsistent
  LoadedCalCurrent
  NvsHoldsCalibration
  PhyRegistersRestored
  InitBuffersFreed
