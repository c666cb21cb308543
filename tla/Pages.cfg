SPECIFICATION Spec
CONSTANTS
  a = a
  b = b
  Ids = {1, 2, 3}
  Hosts = {a, b}
  States = {0, 1}
  Queries <- MCQueries
  Limit = 2
  Offsets = {0, 1, 3, 4}
  MaxSelection = 2
  MaxWrites = 1
  MaxClicks = 0
INVARIANTS PageAddsUp ButtonsLead
CHECK_DEADLOCK FALSE
