\* Every slotctl command, beside the updater's install and boot.sh's commit.
SPECIFICATION Spec
CONSTANTS
  TRIES = 1
  TRIES_MAX = 2
  Commands = {"next", "install", "commit", "switch", "rollback", "rescue"}
  UpdateOnTrial = TRUE
  PowerCuts = TRUE
INVARIANTS
  TypeOK
  GoodIsProven
  TrialBounded
  StrikesBounded
  RunningRootKept
PROPERTIES
  KeepsBoundedBoot
