SPECIFICATION EnvSpec
CONSTANTS
  Rows = {A, B}
  Columns = 2
  NodeTravelTime = 2
  SafetyMargin = 1
  WaitTime = 2
  ArrivalTimes = {3}
  ParkDurations = {2, 14}
  InitialOccupancyMax = 1
  MaxConsecutiveWaits = 3
SYMMETRY RowSymmetry
INVARIANTS
  EnvTypeOK
  ShieldHolds
  BooksMatchLot
  MaskNeverEmpty
