SPECIFICATION FairSpec
CONSTANTS
  Repos = {r1}
  Procs = {p1, p2}
  MaxJobs = 2
  MaxClaims = 3
  MaxNow = 3
  LEASE_SECONDS = 1
  RETRIES <- OneDelay
  DEFER = 1
  RETENTION = 9
  Requests = {"fetch", "convert"}
  Commands = {"check"}
  Intervals = {}
  Outcomes = {"none", "busy", "transport"}
  Statuses = {}
  PageSize = 1
PROPERTIES ExpiredClaimsRecovered DueJobsAttempted FailureStaysVisible
