CONSTANTS
  p1 = p1
  p2 = p2
  a = a
  b = b
  link = link
  None = None
  Procs = {p1, p2}
  Names = {a, b, link}
  Resolve <- MCResolve
  Writable <- MCWritable
  MaxCalls = 2
SPECIFICATION Spec
INVARIANTS NoLostUpdate
PROPERTIES RefusedStays
CHECK_DEADLOCK FALSE
