CONSTANTS
  p1 = p1
  p2 = p2
  p3 = p3
  None = None
  Procs = {p1, p2, p3}
  Statements = 2
  SchemaVersion = 5
  OtherVersion = 4
  MaxRetries = 2
SPECIFICATION Spec
INVARIANTS ReadyMeansWhole
PROPERTIES RefusedForCause
CHECK_DEADLOCK FALSE
