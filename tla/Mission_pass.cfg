SPECIFICATION FairSpec
CONSTANTS
  Last = 3
  MaxRoute = 2
  MaxHolds = 1
  MaxFailures = 1
  ReplyLength = 2
INVARIANTS
  TypeOK
  MissionMatchesCar
PROPERTIES
  InOrder
  MissionEnds
\* Both threads may have ended.
CHECK_DEADLOCK FALSE
