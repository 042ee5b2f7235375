SPECIFICATION UnitSpec
CONSTANTS
  Nets = {"n1", "n2"}
  FireOs = "fire"
  MaxEvents = 1
INVARIANT
  ForgetGoesBack
CHECK_DEADLOCK FALSE
