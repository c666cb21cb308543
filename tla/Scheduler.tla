----------------------------- MODULE Scheduler -----------------------------
(***************************************************************************)
(* The job queue at work: every transaction of scheduler.Scheduler and of  *)
(* job_queue.Queue, taken by processes that claim jobs (worker loops and   *)
(* the command line's immediate check and fetch) and execute them          *)
(* (repo_service.execute_job under job_operation.running_job).             *)
(*                                                                         *)
(* A transaction is BEGIN IMMEDIATE ... COMMIT, so one action each.  What  *)
(* a process remembers between two transactions is the claim it got: a     *)
(* snapshot of the job's row (own[p]).  It may be stalled for any time, so *)
(* its lease may expire and another process may own the job when it comes  *)
(* back; it may crash, and it may be asked to stop.                        *)
(***************************************************************************)
EXTENDS JobTable

CONSTANTS
  Procs,      \* the processes that claim and execute jobs
  MaxNow,     \* bound on the clock
  Requests,   \* the kinds of work users queue
  Commands,   \* the kinds of work users run at once
  Intervals,  \* the intervals a schedule may be given
  Outcomes,   \* the categories an execution may end with
  Statuses    \* what a repository's observation may conclude

ASSUME SchedulerAssumption ==
  /\ MaxNow \in Nat
  /\ Requests \subseteq Kinds
  /\ Commands \subseteq {"check", "fetch"}
  /\ Intervals \subseteq Nat \ {0}
  /\ Outcomes \subseteq Categories \ {"interrupted"}
  /\ Statuses \subseteq {"unknown", "not_fetched", "current", "updates_available"}

VARIABLES
  now,        \* the clock, in whole seconds
  jobs,       \* table jobs
  attempts,   \* table job_attempts
  claims,     \* how many claim tokens were ever drawn
  sched,      \* table schedules
  inventory,  \* of table repositories: the reconciliation flag, and what the
              \* stored snapshots compare to
  own         \* the claim each process believes to hold

tables == <<jobs, attempts, claims>>
vars == <<now, jobs, attempts, claims, sched, inventory, own>>

Schedule == [state: {"none", "disabled", "enabled"}, blocked: BOOLEAN,
             interval: Nat, next: Nat]

Observation == [reconcile: BOOLEAN,
                compare: {"unknown", "not_fetched", "current", "updates_available"}]

Claims == [token: Tokens \cup {Null}, job: JobIds \cup {Null},
           repo: Repos \cup {Null}, kind: Kinds, origin: Origins, retry: Nat]

NoClaim == [token |-> Null, job |-> Null, repo |-> Null, kind |-> "check",
            origin |-> "manual", retry |-> 0]

TypeOK ==
  /\ now \in Nat
  /\ jobs \in [JobIds -> Job]
  /\ attempts \in [Tokens -> Attempt]
  /\ claims \in Tokens \cup {0}
  /\ sched \in [Repos -> Schedule]
  /\ inventory \in [Repos -> Observation]
  /\ own \in [Procs -> Claims]

Init ==
  /\ now = 1
  /\ jobs = [i \in JobIds |-> NoJob]
  /\ attempts = [a \in Tokens |-> NoAttempt]
  /\ claims = 0
  /\ sched = [r \in Repos |-> [state |-> "none", blocked |-> FALSE,
                               interval |-> 0, next |-> 0]]
  /\ inventory = [r \in Repos |-> [reconcile |-> FALSE, compare |-> "unknown"]]
  /\ own = [p \in Procs |-> NoClaim]

Idle(p) == own[p].token = Null
Owns(p) == ~Idle(p) /\ Valid(jobs, own[p], now)

\* The column remote_status of the view inventory.
RemoteStatus(r) ==
  IF inventory[r].reconcile THEN "unknown" ELSE inventory[r].compare

---------------------------------------------------------------------------
(* Requests of users *)

Enqueue(r, kind) ==
  /\ Enqueued(jobs, jobs', r, kind, "manual", now)
  /\ UNCHANGED <<now, attempts, claims, sched, inventory, own>>

Unqueue(r) ==
  /\ jobs' = Cancelled(jobs, r, Origins, Kinds, now)
  /\ jobs' # jobs
  /\ UNCHANGED <<now, attempts, claims, sched, inventory, own>>

\* Scheduler.schedule with an interval: enabling, re-enabling and unblocking.
EnableSchedule(r, interval) ==
  /\ sched' = [sched EXCEPT ![r] = [state |-> "enabled", blocked |-> FALSE,
                                    interval |-> interval, next |-> now]]
  /\ UNCHANGED <<now, tables, inventory, own>>

\* Scheduler.schedule without one.
DisableSchedule(r) ==
  /\ sched' = [sched EXCEPT ![r].state = IF @ = "none" THEN "none" ELSE "disabled"]
  /\ jobs' = Cancelled(jobs, r, {"scheduled"}, Kinds, now)
  /\ UNCHANGED <<now, attempts, claims, inventory, own>>

---------------------------------------------------------------------------
(* The worker loop: tick, then claim *)

\* Mutant of DueSchedules: work in flight does not hold the schedule back.
DueSchedulesAlways ==
  {r \in Repos : sched[r].state = "enabled" /\ ~sched[r].blocked /\ sched[r].next <= now}

DueSchedules ==
  {r \in Repos : /\ sched[r].state = "enabled" /\ ~sched[r].blocked
                 /\ sched[r].next <= now /\ InFlight(jobs, r) = {}}

\* The schedules' checks get the next ids, in any order.
Ticked(ids) ==
  [i \in JobIds |->
     IF \E r \in DOMAIN ids : ids[r] = i
     THEN LET r == CHOOSE s \in DOMAIN ids : ids[s] = i
          IN  Inserted(jobs, i, r, "check", "scheduled", now)[i]
     ELSE jobs[i]]

Tick(p) ==
  /\ Idle(p)
  /\ \E ids \in [DueSchedules -> JobIds] :
       /\ \A r, s \in DueSchedules : ids[r] = ids[s] => r = s
       /\ NextIds(jobs, {ids[r] : r \in DueSchedules})
       /\ LET gone == Prunable(Ticked(ids), attempts, now - RETENTION)
          IN  /\ DueSchedules # {} \/ gone # {}
              /\ jobs' = WithoutJobs(Ticked(ids), gone)
              /\ attempts' = WithoutAttemptsOf(attempts, gone)
  /\ UNCHANGED <<now, claims, sched, inventory, own>>

\* Mutant of Orphaned: the schedule is not looked at.
OrphanedNever(origin, r) == FALSE

\* An interrupted automatic job is dropped when its schedule was disabled.
Orphaned(origin, r) == origin = "scheduled" /\ sched[r].state # "enabled"

\* Mutant of ExpiredJobs: the comparison is the wrong way round.
LiveJobs == {i \in JobIds : jobs[i].state = "running" /\ jobs[i].lease > now}

ExpiredJobs == {i \in JobIds : Expired(jobs, i, now)}

\* Scheduler._recover
RecoveredJobs ==
  Interrupted(jobs, ExpiredJobs,
              {i \in ExpiredJobs : Orphaned(jobs[i].origin, jobs[i].repo)}, now)

\* Mutant of RecoveredAttempts: the attempts stay open.
AttemptsAsTheyWere == attempts

RecoveredAttempts ==
  Closed(attempts, ExpiredJobs, "interrupted", "interrupted", now)

RecoveredInventory ==
  [r \in Repos |-> IF \E i \in ExpiredJobs : jobs[i].repo = r
                   THEN [inventory[r] EXCEPT !.reconcile = TRUE]
                   ELSE inventory[r]]

\* Process p claims job j of table J (whose attempts are A).
Take(p, J, A, j) ==
  /\ claims < MaxClaims
  /\ claims' = claims + 1
  /\ jobs' = Claimed(J, j, claims + 1, now)
  /\ attempts' = Opened(A, claims + 1, j, J[j].kind)
  /\ own' = [own EXCEPT ![p] = [token |-> claims + 1, job |-> j,
                                repo |-> J[j].repo, kind |-> J[j].kind,
                                origin |-> J[j].origin, retry |-> J[j].retry]]

\* Scheduler.claim when some job is due.
Claim(p) ==
  /\ Idle(p)
  /\ \E j \in Claimable(RecoveredJobs, now) :
       /\ \A k \in Claimable(RecoveredJobs, now) \ {j} : Precedes(RecoveredJobs, j, k)
       /\ Take(p, RecoveredJobs, RecoveredAttempts, j)
  /\ inventory' = RecoveredInventory
  /\ UNCHANGED <<now, sched>>

\* Scheduler.claim when none is: the recovery is committed all the same.
RecoverOnly(p) ==
  /\ Idle(p)
  /\ ExpiredJobs # {}
  /\ Claimable(RecoveredJobs, now) = {}
  /\ jobs' = RecoveredJobs
  /\ attempts' = RecoveredAttempts
  /\ inventory' = RecoveredInventory
  /\ UNCHANGED <<now, claims, sched, own>>

\* Mutant of Busy: a pending conversion is overtaken.
BusyIfRunning(J, r) == \E i \in InFlight(J, r) : J[i].state = "running"

\* What makes Scheduler.immediate report busy (and roll its recovery back).
Busy(J, r) ==
  \E i \in InFlight(J, r) : J[i].state = "running" \/ J[i].kind = "convert"

\* Scheduler.immediate: a synchronous check or fetch jumps the queue.
Immediate(p, r, kind) ==
  LET kept == Cancelled(RecoveredJobs, r, Origins,
                        IF kind = "fetch" THEN Kinds ELSE {kind}, now)
  IN  /\ Idle(p)
      /\ ~Busy(RecoveredJobs, r)
      /\ \E i \in JobIds :
           /\ NextIds(kept, {i})
           /\ Take(p, Inserted(kept, i, r, kind, "manual", now), RecoveredAttempts, i)
      /\ inventory' = RecoveredInventory
      /\ UNCHANGED <<now, sched>>

---------------------------------------------------------------------------
(* Executing a claimed job *)

\* Queue.heartbeat, from the thread of running_job.
Heartbeat(p) ==
  /\ Owns(p)
  /\ jobs' = [jobs EXCEPT ![own[p].job].lease = now + LEASE_SECONDS]
  /\ jobs' # jobs
  /\ UNCHANGED <<now, attempts, claims, sched, inventory, own>>

\* index.update(reconciliation_required=True), before archive data is changed.
MarkUncertain(p) ==
  /\ Owns(p)
  /\ inventory' = [inventory EXCEPT ![own[p].repo].reconcile = TRUE]
  /\ inventory' # inventory
  /\ UNCHANGED <<now, tables, sched, own>>

\* publish_local: the observation of the archive replaces the stored one.
PublishLocal(p, status) ==
  /\ Owns(p)
  /\ inventory' = [inventory EXCEPT ![own[p].repo] =
                     [reconcile |-> FALSE, compare |-> status]]
  /\ inventory' # inventory
  /\ UNCHANGED <<now, tables, sched, own>>

\* publish_remote: the remote's refs are stored; the flag is left alone.
PublishRemote(p, status) ==
  /\ Owns(p) /\ own[p].kind # "convert"
  /\ inventory' = [inventory EXCEPT ![own[p].repo].compare = status]
  /\ inventory' # inventory
  /\ UNCHANGED <<now, tables, sched, own>>

\* Scheduler.finish.  Category "none" is success.
Finish(p, category) ==
  LET c == own[p]
      s == sched[c.repo]
      deferred == category \in {"busy", "unavailable"}
      retried == category = "transport" /\ c.retry < Len(RETRIES)
      state == IF deferred \/ retried
               THEN IF Orphaned(c.origin, c.repo) THEN "cancelled" ELSE "pending"
               ELSE IF category = "none" THEN "succeeded" ELSE "failed"
      due == now + (IF deferred THEN DEFER
                    ELSE IF retried THEN RETRIES[c.retry + 1] ELSE 0)
      finished == Finished(jobs, c.job, state, due,
                           IF retried THEN c.retry + 1 ELSE c.retry, now)
      renewed == s.state = "enabled" /\ state # "pending"
      follow == /\ renewed
                /\ category = "none" /\ c.kind = "check" /\ c.origin = "scheduled"
                /\ RemoteStatus(c.repo) \in {"updates_available", "not_fetched"}
  IN  /\ Owns(p)
      /\ IF follow THEN Enqueued(finished, jobs', c.repo, "fetch", "scheduled", now)
                   ELSE jobs' = finished
      /\ attempts' = Closed(attempts, {c.job},
                            IF category = "none" THEN "succeeded" ELSE "failed",
                            category, now)
      /\ sched' = IF c.kind = "convert" THEN sched
                  ELSE [sched EXCEPT ![c.repo] =
                    [s EXCEPT !.blocked = IF s.state = "none" THEN @
                                          ELSE IF category = "structural" THEN TRUE
                                          ELSE IF category = "none" THEN FALSE ELSE @,
                              !.next = IF renewed THEN now + s.interval ELSE @]]
      /\ own' = [own EXCEPT ![p] = NoClaim]
      /\ UNCHANGED <<now, claims, inventory>>

\* Scheduler.interrupt: the worker is stopping, or the command line was interrupted.
Interrupt(p) ==
  LET c == own[p]
  IN  /\ Owns(p)
      /\ jobs' = Interrupted(jobs, {c.job},
                             IF Orphaned(c.origin, c.repo) THEN {c.job} ELSE {}, now)
      /\ attempts' = Closed(attempts, {c.job}, "interrupted", "interrupted", now)
      /\ inventory' = [inventory EXCEPT ![c.repo].reconcile = TRUE]
      /\ own' = [own EXCEPT ![p] = NoClaim]
      /\ UNCHANGED <<now, claims, sched>>

\* ClaimLostError, in a guard, in finish or in interrupt: nothing is written.
LoseClaim(p) ==
  /\ ~Idle(p) /\ ~Owns(p)
  /\ own' = [own EXCEPT ![p] = NoClaim]
  /\ UNCHANGED <<now, tables, sched, inventory>>

\* The process dies, or its heartbeat thread met a database error and the next
\* guard ends the execution as if the claim were lost.
Crash(p) ==
  /\ ~Idle(p)
  /\ own' = [own EXCEPT ![p] = NoClaim]
  /\ UNCHANGED <<now, tables, sched, inventory>>

---------------------------------------------------------------------------

ClockAdvances ==
  /\ now < MaxNow
  /\ now' = now + 1
  /\ UNCHANGED <<tables, sched, inventory, own>>

Next ==
  \/ ClockAdvances
  \/ \E r \in Repos :
       \/ \E kind \in Requests : Enqueue(r, kind)
       \/ Unqueue(r)
       \/ \E interval \in Intervals : EnableSchedule(r, interval)
       \/ DisableSchedule(r)
       \/ \E p \in Procs, kind \in Commands : Immediate(p, r, kind)
  \/ \E p \in Procs :
       \/ Tick(p) \/ Claim(p) \/ RecoverOnly(p)
       \/ Heartbeat(p) \/ MarkUncertain(p)
       \/ \E status \in Statuses : PublishLocal(p, status) \/ PublishRemote(p, status)
       \/ \E category \in Outcomes : Finish(p, category)
       \/ Interrupt(p) \/ LoseClaim(p) \/ Crash(p)

Spec == Init /\ [][Next]_vars

\* A worker loop keeps claiming while it is idle, and every execution ends: its
\* guards notice a lost claim within 0.2 s and its deadline bounds the rest.
\* No process need be idle for ever, renew its lease or stay alive.
Fairness ==
  /\ WF_vars(ClockAdvances)
  /\ \A p \in Procs : /\ WF_vars(Claim(p) \/ RecoverOnly(p))
                      /\ WF_vars(LoseClaim(p))
                      /\ WF_vars(\E category \in Outcomes : Finish(p, category))

FairSpec == Spec /\ Fairness

---------------------------------------------------------------------------
(* What must always hold *)

\* Two claims never hold the same repository: claim_in and immediate respect
\* the unique index running_repository, which would otherwise make them fail.
OneRunning ==
  \A i, k \in JobIds : /\ jobs[i].state = "running" /\ jobs[k].state = "running"
                       /\ jobs[i].repo = jobs[k].repo
                       => i = k

\* A job is running exactly while the attempt of its token is open.  No crash,
\* expiry, interruption or retry leaves an attempt open or a token behind.
OneOpenAttempt ==
  /\ \A i \in JobIds :
       IF jobs[i].state = "running"
       THEN /\ jobs[i].token # Null
            /\ Open(attempts, jobs[i].token)
            /\ attempts[jobs[i].token].job = i
            /\ attempts[jobs[i].token].kind = jobs[i].kind
       ELSE jobs[i].token = Null /\ jobs[i].lease = Null
  /\ \A a \in Tokens : Open(attempts, a) => jobs[attempts[a].job].token = a

\* finish and interrupt decide by the row as it was when the job was claimed.
\* It is still the row while the claim lasts: nothing coalesces into a running job.
SnapshotCurrent ==
  \A p \in Procs :
    ~Idle(p) /\ jobs[own[p].job].token = own[p].token =>
      /\ jobs[own[p].job].repo = own[p].repo
      /\ jobs[own[p].job].kind = own[p].kind
      /\ jobs[own[p].job].origin = own[p].origin
      /\ jobs[own[p].job].retry = own[p].retry

\* Automatic work waits only while its schedule is enabled, however disabling
\* raced with a running job's retry, interruption or recovery.
NoOrphanedWork ==
  \A i \in JobIds : jobs[i].state = "pending" /\ jobs[i].origin = "scheduled"
                    => sched[jobs[i].repo].state = "enabled"

\* A schedule keeps at most one job in flight, its check or the fetch that follows.
OneAutomaticJob ==
  \A i, k \in JobIds :
    /\ {i, k} \subseteq InFlight(jobs, jobs[i].repo)
    /\ jobs[i].origin = "scheduled" /\ jobs[k].origin = "scheduled"
    => i = k

\* A conversion runs after the earlier work of its repository, and nothing
\* submitted later, not even a synchronous command, runs before it.
ConversionBarrier ==
  \A c \in JobIds : jobs[c].kind = "convert" =>
    /\ jobs[c].state = "running" =>
         \A i \in InFlight(jobs, jobs[c].repo) : i >= c
    /\ jobs[c].state = "pending" =>
         \A i \in Running(jobs, jobs[c].repo) : i < c

\* A job's retry count is the number of its attempts that failed in transport,
\* up to the number of delays: neither an interruption, a deferral nor a
\* recovered crash consumes the retry budget, and a retry never restarts it.
RetryBudget ==
  \A i \in Exists(jobs) :
    LET failed == Cardinality({a \in Tokens : /\ attempts[a].job = i
                                              /\ attempts[a].category = "transport"})
    IN  jobs[i].retry = IF failed < Len(RETRIES) THEN failed ELSE Len(RETRIES)

---------------------------------------------------------------------------
(* What a step may never do *)

\* Terminal jobs and completed attempts never change: they only expire,
\* together, and only when terminal.
HistoryIsFinal ==
  [][/\ \A i \in JobIds : jobs[i].state \in Terminal
                          => jobs'[i] = jobs[i] \/ jobs'[i].state = "absent"
     /\ \A a \in Tokens : attempts[a].finished # Null
                          => \/ attempts'[a] = attempts[a]
                             \/ /\ attempts'[a] = NoAttempt
                                /\ jobs[attempts[a].job].state \in Terminal]_vars

\* A running job leaves the hands of its claim only by its owner's own word or
\* after the lease ran out.
EvictionOnlyAfterLease ==
  [][\A i \in JobIds :
       jobs[i].state = "running" /\ jobs'[i].token # jobs[i].token =>
         \/ jobs[i].lease <= now
         \/ \E p \in Procs : /\ own[p].token = jobs[i].token
                             /\ own'[p].token = Null]_vars

\* Fencing: a process whose claim was recovered or taken over changes neither
\* the inventory nor a job; the inventory changes by a live claim on that
\* repository, or by the recovery of an expired one.
FencedInventory ==
  [][\A r \in Repos : inventory'[r] # inventory[r] =>
       \/ \E p \in Procs : /\ own[p].token # Null /\ own[p].repo = r
                           /\ jobs[own[p].job].token = own[p].token
                           /\ jobs[own[p].job].lease > now
       \/ /\ inventory'[r] = [inventory[r] EXCEPT !.reconcile = TRUE]
          /\ \E i \in JobIds : /\ jobs[i].repo = r /\ jobs[i].state = "running"
                               /\ jobs[i].lease <= now]_vars

\* last_checked_at, last_fetched_at and last_converted_at never go back, even
\* when the jobs that prove them are older than the retention period.
LastSuccessKept ==
  [][\A r \in Repos, kind \in Kinds :
       LastSuccessAt(jobs', attempts', r, kind) >= LastSuccessAt(jobs, attempts, r, kind)]_vars

\* A request made by hand is never dropped on the side: it waits, it runs, or
\* it is cancelled by unqueue (with all of the repository's work) or by a
\* synchronous command that does the same work at once.
ManualRequestKept ==
  [][\A i \in JobIds :
       jobs[i].state = "pending" /\ jobs[i].origin = "manual" =>
         \/ /\ jobs'[i].state \in {"pending", "running"}
            /\ jobs'[i].origin = "manual"
            /\ \/ jobs'[i].kind = jobs[i].kind
               \/ jobs[i].kind = "check" /\ jobs'[i].kind = "fetch"
         \/ /\ jobs'[i].state = "cancelled"
            /\ \/ UNCHANGED <<sched, own>> /\ InFlight(jobs', jobs[i].repo) = Running(jobs, jobs[i].repo)
               \/ \E k \in Running(jobs', jobs[i].repo) :
                    jobs'[k].kind \in {"fetch", jobs[i].kind}]_vars

\* A job in flight is dropped, with the problem it carries: its schedule is
\* disabled, unqueue drops all that waits for the repository, or a synchronous
\* command does its work at once.
Dropped(j) ==
  LET r == jobs[j].repo
  IN  /\ jobs[j].state \in {"pending", "running"} /\ jobs'[j].state = "cancelled"
      /\ \/ jobs[j].origin = "scheduled" /\ sched'[r].state # "enabled"
         \/ UNCHANGED <<sched, own>> /\ InFlight(jobs', r) = Running(jobs, r)
         \/ \E k \in Running(jobs', r) : /\ claims' > claims /\ jobs'[k].token = claims'
                                         /\ jobs'[k].origin = "manual"
                                         /\ jobs'[k].kind \in {"fetch", jobs[j].kind}

\* What may take the problem that attempt a left off the inventory: a success of
\* its repository and kind, or of its own job (a check may have become a fetch);
\* a newer problem of the job; the expiry of the failed job; or the job is dropped.
Evidence(a) ==
  LET j == attempts[a].job
  IN  \/ \E b \in Tokens : /\ Succeeded(attempts', b) /\ ~Succeeded(attempts, b)
                           /\ jobs'[attempts'[b].job].repo = jobs[j].repo
                           /\ attempts'[b].kind = attempts[a].kind \/ attempts'[b].job = j
      \/ \E b \in Tokens : /\ b > a /\ attempts'[b].job = j
                           /\ Unresolved(jobs', attempts', b)
      \/ /\ jobs[j].state = "failed" /\ jobs'[j].state = "absent"
         /\ jobs[j].finished < now - RETENTION
      \/ Dropped(j)

\* A problem stays in the inventory until something resolves it (docs/guarantees.md
\* on has_error): no claim of other work, no success of another repository or kind,
\* no retry, promotion or recovery hides it.  The one way to be rid of it by
\* starting new work is named in Dropped: the synchronous command.
ErrorsNeedEvidence ==
  [][\A a \in Tokens :
       Unresolved(jobs, attempts, a) /\ ~Unresolved(jobs', attempts', a) => Evidence(a)]_vars

---------------------------------------------------------------------------
(* What must eventually happen, while the bounds of the model allow it *)

\* A claim whose owner crashed or stalled is recovered by some worker.
ExpiredClaimsRecovered ==
  \A i \in JobIds :
    Expired(jobs, i, now) ~> ~Expired(jobs, i, now) \/ claims = MaxClaims

\* A due job is attempted (or cancelled) at last: the jobs of a repository never
\* wait for one another in a circle, though a synchronous command may run before
\* older work.  Only an earlier job that is deferred, or a running one that is
\* leased, beyond the end of the modelled time holds it up.
DueJobsAttempted ==
  \A i \in JobIds :
    jobs[i].state = "pending" /\ jobs[i].due <= now ~>
      \/ jobs[i].state # "pending"
      \/ claims = MaxClaims
      \/ \E k \in InFlight(jobs, jobs[i].repo) :
           \/ jobs[k].lease > MaxNow
           \/ k <= i /\ jobs[k].due > MaxNow

---------------------------------------------------------------------------
(* The claims implement the abstract lease *)

Holder(r) ==
  IF Running(jobs, r) = {} THEN Null
  ELSE jobs[CHOOSE i \in Running(jobs, r) : TRUE].token

Lease == INSTANCE ClaimLease
           WITH holder <- [r \in Repos |-> Holder(r)],
                lapsed <- {r \in Repos : \E i \in ExpiredJobs : jobs[i].repo = r},
                issued <- claims

\* Tokens are fresh, a lapsed claim is never renewed, and no claim is taken
\* from an owner whose lease still runs.
ImplementsLease == Lease!Spec

---------------------------------------------------------------------------
(* What the documentation says and the code does not do *)

\* docs/guarantees.md: "Structural errors block a schedule until corrected by
\* a successful manual operation or re-enabled."
BlockedUntilCorrected ==
  [][\A r \in Repos : sched[r].blocked /\ ~sched'[r].blocked =>
       \/ UNCHANGED jobs
       \/ \E i \in JobIds : /\ jobs[i].repo = r /\ jobs[i].origin = "manual"
                            /\ jobs[i].state = "running"
                            /\ jobs'[i].state = "succeeded"]_vars

\* docs/guarantees.md on has_error: "Queuing or starting new work does not
\* resolve a failure."
StartingWorkResolvesNothing ==
  [][\A r \in Repos : claims' > claims /\ HasError(jobs, attempts, r)
                      => HasError(jobs', attempts', r)]_vars

=============================================================================
