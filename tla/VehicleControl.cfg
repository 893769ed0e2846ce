SPECIFICATION UseSpec
CONSTANTS
  S = S
  Old = Old
  NoSession = NoSession
  Sessions = {S, Old}
  BootId = BootId
  AckBoots = {BootId}
  Inputs <- AllInputs
  QueueLength = 1
  BatchSize = 1
  DirectTimeout = 2
  GoWithoutPose = TRUE
  Prompt = TRUE
INVARIANTS TypeOK MotorSafe RouteSafe DeadmanBound
PROPERTIES LockLeftOnlyByReset SequenceNeverRewinds ImplementsGate
