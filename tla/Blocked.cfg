SPECIFICATION Spec
CONSTANTS
  Repos = {r1}
  Procs = {p1}
  MaxJobs = 3
  MaxClaims = 4
  MaxNow = 2
  LEASE_SECONDS = 1
  RETRIES <- OneDelay
  DEFER = 1
  RETENTION = 5
  Requests = {}
  Commands = {"check"}
  Intervals = {1}
  Outcomes = {"none", "structural", "transport"}
  Statuses = {"updates_available"}
  PageSize = 1
SYMMETRY Symmetry
PROPERTIES BlockedUntilCorrected StartingWorkResolvesNothing
