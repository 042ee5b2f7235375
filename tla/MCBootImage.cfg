\* Two builds, every failure, a user who waits.
SPECIFICATION Spec
CONSTANTS
  Builds = {v1, v2}
  BadWrites = TRUE
  PowerCuts = TRUE
  Impatient = FALSE
INVARIANTS
  TypeOK
  LinuxImgKept
PROPERTIES
  ReplacedOnceHealthy
  RebootsIntoImage
