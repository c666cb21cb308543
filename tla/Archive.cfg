SPECIFICATION Spec
CONSTANTS
  Procs = {p1, p2}
  Generations = {g1, g2, g3}
  None = None
  Operations <- AllOperations
  Suppliable = TRUE
  MaxVersion = 2
SYMMETRY Symmetry
INVARIANTS CompleteMeansWhole SourceBound
PROPERTIES HeldNeverLost
VIEW DirectoryView
