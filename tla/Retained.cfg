SPECIFICATION Spec
CONSTANTS
  Procs = {p1, p2}
  Generations = {g1, g2}
  None = None
  Operations <- AllOperations
  Suppliable = FALSE
  MaxVersion = 2
SYMMETRY Symmetry
INVARIANTS LeftoversCleanable
