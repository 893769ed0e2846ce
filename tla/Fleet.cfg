SPECIFICATION Spec
CONSTANTS
  Cars = {c1, c2}
  Slots = {A1, A2}
  MaxTracks = 3
  MaxSyncs = 3
  MaxFailures = 1
SYMMETRY Symmetry
INVARIANTS TypeOK BindingsAgree SlotGivenOnce
CHECK_DEADLOCK FALSE
