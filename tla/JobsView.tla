------------------------------ MODULE JobsView ------------------------------
(***************************************************************************)
(* What the job inspection shows of the queue: the views of "cache22 jobs" *)
(* and of the queue page (manager_service.jobs_snapshot), their order and  *)
(* pages, and a repository's attempts (manager_service.detail).  A         *)
(* snapshot is one read transaction, so every definition is about the      *)
(* tables of one state of module Scheduler.                                *)
(***************************************************************************)
EXTENDS Scheduler

CONSTANT PageSize

ASSUME JobsViewAssumption == PageSize \in Nat \ {0}

Views == {"all", "pending", "failed", "running", "runnable", "deferred", "history"}
Sections == {"running", "runnable", "deferred", "history"}

\* The repository to which the inspection is limited, or Null.
Scopes == Repos \cup {Null}

\* blocking_job_id: min(prior.id), or NULL.
BlockingJob(j) ==
  IF Blocking(jobs, j) = {} THEN Null
  ELSE CHOOSE i \in Blocking(jobs, j) : \A k \in Blocking(jobs, j) : i <= k

\* The row of job_errors for job j; at most one.
Diagnostics(j) == {a \in Tokens : JobError(jobs, attempts, a) /\ attempts[a].job = j}
Diagnostic(j) == CHOOSE a \in Diagnostics(j) : TRUE

\* Mutant of Shows: a job that is due but blocked is not deferred.
ShowsUnblocked(view, j) ==
  LET job == jobs[j]
      waits == job.due > now
  IN  \/ view = "all"
      \/ view = "pending" /\ job.state = "pending"
      \/ view = "failed" /\ Diagnostics(j) # {}
      \/ view = "running" /\ job.state = "running"
      \/ view = "runnable" /\ job.state = "pending" /\ ~waits /\ Blocking(jobs, j) = {}
      \/ view = "deferred" /\ job.state = "pending" /\ waits
      \/ view = "history" /\ job.state \in Terminal

\* Mutant of Shows: the last attempt decides, although it is still open.
ShowsLastAttempt(view, j) ==
  LET job == jobs[j]
      waits == job.due > now \/ BlockingJob(j) # Null
  IN  \/ view = "all"
      \/ view = "pending" /\ job.state = "pending"
      \/ view = "failed" /\ Diagnostics(j) # {} /\ job.state # "running"
      \/ view = "running" /\ job.state = "running"
      \/ view = "runnable" /\ job.state = "pending" /\ ~waits
      \/ view = "deferred" /\ job.state = "pending" /\ waits
      \/ view = "history" /\ job.state \in Terminal

\* The predicates of the views.
Shows(view, j) ==
  LET job == jobs[j]
      waits == job.due > now \/ BlockingJob(j) # Null
  IN  \/ view = "all"
      \/ view = "pending" /\ job.state = "pending"
      \/ view = "failed" /\ Diagnostics(j) # {}
      \/ view = "running" /\ job.state = "running"
      \/ view = "runnable" /\ job.state = "pending" /\ ~waits
      \/ view = "deferred" /\ job.state = "pending" /\ waits
      \/ view = "history" /\ job.state \in Terminal

\* Mutant of Above: a retry keeps the place of its job, whatever its due time.
AboveById(view, i, j) ==
  CASE view = "history" -> \/ jobs[i].finished > jobs[j].finished
                           \/ jobs[i].finished = jobs[j].finished /\ i > j
    [] view = "failed" -> Later(attempts, Diagnostic(i), Diagnostic(j))
    [] view = "all" -> i > j
    [] OTHER -> i < j

\* The orders of the views.
Above(view, i, j) ==
  LET manual(n) == jobs[n].origin = "manual"
  IN  CASE view = "all" -> i > j
        [] view = "history" -> \/ jobs[i].finished > jobs[j].finished
                               \/ jobs[i].finished = jobs[j].finished /\ i > j
        [] view = "failed" -> Later(attempts, Diagnostic(i), Diagnostic(j))
        [] OTHER -> \/ manual(i) /\ ~manual(j)
                    \/ /\ manual(i) = manual(j)
                       /\ \/ jobs[i].due < jobs[j].due
                          \/ jobs[i].due = jobs[j].due /\ i < j

\* ORDER BY: the n-th row is the one with n - 1 rows above it.
Ordered(S, Over(_, _)) ==
  [n \in 1 .. Cardinality(S) |->
     CHOOSE x \in S : Cardinality({y \in S : Over(y, x)}) = n - 1]

Selected(view, r) == {j \in Exists(jobs) : Shows(view, j) /\ r \in {Null, jobs[j].repo}}
Rows(view, r) == Ordered(Selected(view, r), LAMBDA i, j : Above(view, i, j))
Count(view, r) == Cardinality(Selected(view, r))

\* The attempts of the detail page, newest first.
Attempted(r) ==
  Ordered({a \in Tokens : attempts[a].job # Null /\ jobs[attempts[a].job].repo = r},
          LAMBDA a, b : a > b)

\* LIMIT limit OFFSET offset
Fetched(rows, limit, offset) ==
  SubSeq(rows, offset + 1, IF Len(rows) < offset + limit THEN Len(rows) ELSE offset + limit)

\* Mutant of Page: the row that tells of a next page is not asked for.
PageExactly(rows, offset) ==
  LET fetched == Fetched(rows, PageSize, offset)
  IN  [rows |-> fetched,
       next |-> IF Len(fetched) > PageSize THEN {offset + PageSize} ELSE {}]

\* One row more than a page is fetched; next_offset is {} or a single offset.
Page(rows, offset) ==
  LET fetched == Fetched(rows, PageSize + 1, offset)
  IN  [rows |-> Fetched(fetched, PageSize, 0),
       next |-> IF Len(fetched) > PageSize THEN {offset + PageSize} ELSE {}]

\* Everything a reader sees who follows next_offset from the first page.
Read(rows) ==
  LET from[n \in 0 .. Len(rows)] ==
        LET page == Page(rows, n)
        IN  IF page.next = {} THEN page.rows
            ELSE page.rows \o from[CHOOSE m \in page.next : TRUE]
  IN  from[0]

---------------------------------------------------------------------------
(* Properties *)

\* The sections of the queue page divide the jobs of a repository: none is hidden
\* from them and none is counted twice, while jobs wait for their due time, for an
\* earlier job, or behind a synchronous command that overtook them.
SectionsDivideJobs ==
  \A r \in Repos : \A j \in {i \in Exists(jobs) : jobs[i].repo = r} :
    Cardinality({s \in Sections : j \in Selected(s, r)}) = 1

\* The first runnable job is the one a worker claims next; with none, it claims
\* nothing.  (A claim that has expired is put back first.)
RunnableIsClaimedNext ==
  ExpiredJobs = {} =>
    LET rows == Rows("runnable", Null)
    IN  /\ rows = <<>> <=> Claimable(jobs, now) = {}
        /\ \A j \in Claimable(jobs, now) : rows[1] # j => Precedes(jobs, rows[1], j)

\* The job that blocking_job_id names for a job that waits, and where a reader is who
\* has followed it n times.
Waits(j) == jobs[j].state = "pending" /\ BlockingJob(j) # Null
Lead == [j \in JobIds |-> IF Waits(j) THEN BlockingJob(j) ELSE j]
Led[n \in 0 .. MaxJobs] ==
  IF n = 0 THEN [j \in JobIds |-> j] ELSE [j \in JobIds |-> Lead[Led[n - 1][j]]]

\* Whoever asks why a job waits and follows blocking_job_id comes to a job that is
\* running, or that waits for nothing but its due time: the chain has no circle,
\* although a synchronous command may block jobs that are older than its own.
BlockersLead ==
  \A j \in Exists(jobs) :
    LET last == Led[MaxJobs][j]
    IN  Lead[last] = last /\ jobs[last].repo = jobs[j].repo

\* A reader of all pages sees each job of the view, and each attempt of the
\* repository, exactly once; as many as the view's count says.
PagesShowEverything ==
  /\ \A view \in Views, r \in Scopes :
       LET read == Read(Rows(view, r))
       IN  Len(read) = Count(view, r) /\ {read[n] : n \in DOMAIN read} = Selected(view, r)
  /\ \A r \in Repos : Read(Attempted(r)) = Attempted(r)

\* docs/use.md: "Success or cancellation removes a job from the failed view; a
\* different successful job does not hide an older failure", and the diagnostic
\* stays visible while a retry runs.
FailureStaysVisible ==
  [][\A j \in Selected("failed", Null) \ Selected("failed", Null)' :
       jobs'[j].state \in {"succeeded", "cancelled", "absent"}]_vars
=============================================================================
