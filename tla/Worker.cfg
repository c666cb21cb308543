INIT Init
NEXT Next
CONSTANTS
  w1 = w1
  w2 = w2
  j1 = j1
  Null = Null
  Workers = {w1, w2}
  Jobs = {j1}
  Once <- NoOne
  Faults = 1
  Crashes = 1
SYMMETRY Swap
INVARIANTS OneGitPerRepository StopStartsNothing ClaimIsGivenBack RowIsTruthful
CHECK_DEADLOCK FALSE
