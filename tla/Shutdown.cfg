SPECIFICATION Spec
CONSTANTS
  w1 = w1
  w2 = w2
  j1 = j1
  Null = Null
  Workers = {w1}
  Jobs = {j1}
  Once = {}
  Faults = 2
  Crashes = 1
PROPERTIES StopEnds
CHECK_DEADLOCK FALSE
