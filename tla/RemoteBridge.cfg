SPECIFICATION FairSpec
CONSTANTS
  Fronts = {"gui", "cli"}
  PreviousStates = {"BOOT", "EMERGENCY_STOP"}
  MaxConnections = 2
  MaxSessions = 2
  MaxSeq = 2
  MaxResends = 1
  MaxBacklog = 1
INVARIANTS TypeOK DriveIsHeld StreamIsConsented
CHECK_DEADLOCK FALSE
PROPERTIES StopReaches
