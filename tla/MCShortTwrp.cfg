SPECIFICATION Spec
CONSTANTS
  Builds = {v1}
  BadWrites = FALSE
  PowerCuts = FALSE
  Impatient = FALSE
PROPERTIES
  TwrpInRecovery
