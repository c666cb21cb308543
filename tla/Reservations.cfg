CONSTANTS
  p1 = p1
  p2 = p2
  None = None
  Mirror = 0
  Procs = {p1, p2}
  Paths <- MCPaths
  ContainerDepth = 2
  MaxCalls = 2
SPECIFICATION Spec

INVARIANTS StopsAtBoundaries
PROPERTIES ImplementsContainers RootPasses
CHECK_DEADLOCK FALSE
