SPECIFICATION Spec
CONSTANTS
  Nets = {"n1", "n2"}
  FireOs = "fire"
  MaxEvents = 2
  Ports = {"p1"}
INVARIANTS
  TypeOK
  ChoiceKept
PROPERTIES
  JoinedIsChosen
  LateLeaseGetsSsh
CHECK_DEADLOCK FALSE
