CONSTANTS
  None = None
  Diagnostics <- MCDiagnostics
  Summary <- MCSummary
  Limit <- MCLimit
  MaxChanges = 4
  MaxStops = 2
SPECIFICATION Spec
INVARIANTS TypeOK OneSource ErrorTellsAll
PROPERTIES StartsEmpty FailsForCause MirrorKept EitherSuffices
