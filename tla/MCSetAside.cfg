\* One key, one run that fails, no power cut.
SPECIFICATION Spec
CONSTANTS
  Keys = {k1}
  TRIES_MAX = 5
  MaxFailures = 1
  PowerCuts = FALSE
INVARIANT
  SetAside
