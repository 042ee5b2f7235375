SPECIFICATION Spec
CONSTANTS
  TRIES = 2
  TRIES_MAX = 5
  Commands = {}
  UpdateOnTrial = FALSE
  PowerCuts = TRUE
INVARIANT AdoptionLasts
