SPECIFICATION FairSpec
CONSTANTS
  Last = 2
  Schedulers = {s1, s2}
  ManualLoops = {m1, m2}
  MaxFailures = 1
  Orderly = TRUE
INVARIANTS
  TypeOK
  
PROPERTIES
  ManualKeepsMission
  KeyReleased
  CarComesToRest
