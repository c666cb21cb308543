SPECIFICATION Spec
CONSTANTS
  p1 = p1
  p2 = p2
  p3 = p3
  r1 = r1
  r2 = r2
  k = k
  lower = lower
  upper = upper
  None = None
  Procs = {p1, p2, p3}
  Roots = {r1, r2}
  Keys = {k}
  Sources = {lower, upper}
  Urls <- MCUrls
  Commands <- AllCommands
  Supplies <- MCSupplies
  Faults = 1
INVARIANTS ReportsAreTrue PreviewIsHonest
PROPERTIES SourceFollowsArchive
CHECK_DEADLOCK FALSE
