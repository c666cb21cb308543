SPECIFICATION Spec
CONSTANTS
  a = a
  b = b
  Ids = {1, 2, 3}
  Hosts = {a, b}
  States = {0}
  Queries <- AllQueries
  Limit = 2
  Offsets = {0}
  MaxSelection = 2
  MaxWrites = 1
  MaxClicks = 3
INVARIANTS TypeOK SelectionIsWhole
PROPERTIES SelectionSurvives
CHECK_DEADLOCK FALSE
