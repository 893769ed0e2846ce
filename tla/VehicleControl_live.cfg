SPECIFICATION FairSpec
CONSTANTS
  S = S
  Old = Old
  NoSession = NoSession
  Sessions = {S, Old}
  BootId = BootId
  AckBoots = {BootId}
  Inputs <- LiveInputs
  QueueLength = 1
  BatchSize = 1
  DirectTimeout = 2
  GoWithoutPose = FALSE
  Prompt = TRUE
PROPERTIES
  DrivingEnds
  StopLocks
