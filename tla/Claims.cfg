SPECIFICATION Spec
CONSTANTS
  Repos = {r1, r2}
  Procs = {p1, p2}
  MaxJobs = 2
  MaxClaims = 3
  MaxNow = 3
  LEASE_SECONDS = 2
  RETRIES <- OneDelay
  DEFER = 1
  RETENTION = 1
  Requests = {"fetch"}
  Commands = {"check"}
  Intervals = {}
  Outcomes = {"none", "transport"}
  Statuses = {"unknown"}
  PageSize = 1
SYMMETRY Symmetry
INVARIANTS TypeOK OneOpenAttempt RetryBudget RunnableIsClaimedNext
PROPERTIES FencedInventory EvictionOnlyAfterLease HistoryIsFinal LastSuccessKept ImplementsLease ErrorsNeedEvidence
