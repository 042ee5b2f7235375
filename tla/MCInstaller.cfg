\* Two keys, two runs that fail, power cuts; the code's five boots.
SPECIFICATION Spec
CONSTANTS
  Keys = {k1, k2}
  TRIES_MAX = 5
  MaxFailures = 2
  PowerCuts = TRUE
INVARIANTS
  TypeOK
  BackupIsTwrp
  EarlierRootKept
  DoneIsHealthy
  KeyIsTheUnits
PROPERTIES
  RescueIsSpent
