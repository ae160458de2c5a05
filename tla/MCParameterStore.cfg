SPECIFICATION Spec
CONSTANTS
  MaxHistory = 2
  MaxNodeId = 2
  MaxLogged = 3
  Firmware <- MCFirmware
  LocalWrites <- MCLocalWrites
  SdoWrites <- MCSdoWrites
  Errors <- MCErrors
INVARIANTS TypeOK RestoreNotLost
PROPERTIES RestoreHonoured SavedComesBack  HistoryKept
