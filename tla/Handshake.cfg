SPECIFICATION FairSpec
CONSTANTS
  MaxConnections = 2
  HoldRetries = 2
  QueueLength = 1
  MaxHellos = 1
  MaxDrops = 1
  MaxStops = 1
INVARIANTS TypeOK SessionsAgree
PROPERTY Synchronises
