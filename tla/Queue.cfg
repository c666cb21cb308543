SPECIFICATION Spec
CONSTANTS
  Repos = {r1}
  Procs = {p1, p2}
  MaxJobs = 3
  MaxClaims = 2
  MaxNow = 2
  LEASE_SECONDS = 1
  RETRIES <- OneDelay
  DEFER = 1
  RETENTION = 5
  Requests = {"check", "fetch", "convert"}
  Commands = {"check"}
  Intervals = {1}
  Outcomes = {"none", "structural"}
  Statuses = {"updates_available"}
  PageSize = 1
SYMMETRY Symmetry
INVARIANTS BlockersLead SnapshotCurrent ConversionBarrier NoOrphanedWork OneAutomaticJob
PROPERTIES ManualRequestKept
