\* Bluetooth over wmtup: one failing call, two ends of the bridge.
SPECIFICATION Spec
CONSTANTS
  FileCounts = {0, 3}
  MaxPatches = 2
  MaxFaults = 1
  MaxEnds = 2
INVARIANTS
  TypeOK
  OneBus
PROPERTIES
  AnswerIsTrue
  SearchAnswered
  LastAdapterRight
CHECK_DEADLOCK FALSE
