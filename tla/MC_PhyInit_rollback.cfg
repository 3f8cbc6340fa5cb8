\* As MC_PhyInit_safety.cfg, and a reset may boot the previous image
\* (OTA rollback): the loader must still reject data of the newer format.
CONSTANTS
  Clients <- MC_Clients
  Versions <- MC_Versions
  AllowRollback = TRUE
  NoValue = NoValue
  OwnMac = OwnMac
  OtherMac = OtherMac
  InitDataInPartition = TRUE
  ReducePhyTxPower = TRUE

SPECIFICATION Spec

INVARIANT LoadedCalCurrent
