SPECIFICATION Spec
CONSTANTS
  Builds = {v1, v2}
  BadWrites = FALSE
  PowerCuts = FALSE
  Impatient = TRUE
PROPERTIES
  ReplacedOnceHealthy
