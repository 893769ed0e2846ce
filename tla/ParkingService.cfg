SPECIFICATION Spec
CONSTANTS
  Databases = {"sqlite", "postgresql"}
  Workers = {w1, w2}
  w1 = w1
  w2 = w2
  A = A
  B = B
  Plates = {A, B}
  VehicleTypes <- MCVehicleTypes
  SpotTypes <- MCSpotTypes
  Preferences <- MCPreferences
  MaxRecords = 3
  MaxHands = 1
SYMMETRY Symmetry
INVARIANTS TypeOK VisitsMatch RouteIsOwn
CHECK_DEADLOCK FALSE
