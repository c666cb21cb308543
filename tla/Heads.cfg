CONSTANTS
  main = main
  side = side
  x = x
  y = y
  Refs = {main, side}
  Main = main
  Oids = {x, y}
  None = None
  MaxChanges = 2
  MaxFailures = 1
SPECIFICATION Spec
INVARIANTS CurrentIsTrue CompleteFetchResolves
PROPERTIES EventuallyMirrored
