CONSTANTS
  None = None
  Diagnostics <- MCDiagnostics
  Summary <- MCSummary
  Limit <- MCLimit
  MaxChanges = 2
  MaxStops = 0
SPECIFICATION Spec
INVARIANTS KeepsToOneTransport
