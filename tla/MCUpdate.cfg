\* Updates, power cuts, no user commands: what a unit left alone can rely on.
SPECIFICATION Spec
CONSTANTS
  TRIES = 2
  TRIES_MAX = 5
  Commands = {}
  UpdateOnTrial = FALSE
  PowerCuts = TRUE
INVARIANTS
  NeverStranded
PROPERTIES
  KeepsBoundedBoot
  BootLoopEnds
