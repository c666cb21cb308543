SPECIFICATION FairSpec
CONSTANTS
  Sections = {"running", "history"}
  Size = 1
  MaxJobs = 2
  MaxMoves = 3
INVARIANTS TypeOK ShownIsOnePage
PROPERTIES NextIsNext ShownCatchesUp
CHECK_DEADLOCK FALSE
