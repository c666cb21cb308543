------------------------------- MODULE Worker -------------------------------
(****************************************************************************)
(* One worker process from start to exit: the loop of worker.run_continuous *)
(* with its availability heartbeat, the claimed job it executes under       *)
(* job_operation.running_job with the lease heartbeat, and the Git          *)
(* processes operation.run starts and kills.                                *)
(*                                                                          *)
(* A worker is three threads and at most one child.  The main thread goes   *)
(* through pc; an exception is a jump to the handlers of the code, in       *)
(* their order.  Which job is claimed, how an attempt is filed and what a   *)
(* lease lasts is module Scheduler's subject: here a lease may run out at   *)
(* any time, a job that failed may be tried again at any time, and a        *)
(* transaction may fail (Faults of them).  Every job is of a repository of  *)
(* its own, whose lock the main thread and the child it started hold.       *)
(*                                                                          *)
(* Not covered: the ages the snapshots compute from heartbeats, progress    *)
(* reports, and signals outside shutdown_signals.                           *)
(****************************************************************************)
EXTENDS Naturals

CONSTANTS
  Workers, Jobs, Null,
  Once,      \* the workers started with --once
  Faults,    \* bound: transactions that fail
  Crashes    \* bound: workers that are killed

ASSUME WorkerAssumption ==
  /\ Null \notin Workers \cup Jobs \cup {"no job", "job", "git"}
  /\ Once \subseteq Workers
  /\ Faults \in Nat /\ Crashes \in Nat

VARIABLES
  pc,       \* what the main thread does next
  job,      \* the job it claimed
  cause,    \* how the execution ended, or the exception that ends the loop
  stop,     \* the event stop: what the main thread did when it was set, or Null
  beat,     \* the thread of the availability heartbeat
  lease,    \* the thread of the lease heartbeat
  git,      \* the Git process the main thread started
  lock,     \* the main thread has the lock of its job's repository
  row,      \* the worker's row in table workers
  table,    \* table jobs: the claim on every job
  faults, crashes   \* how many are left

main == <<pc, job, cause>>
vars == <<main, stop, beat, lease, git, lock, row, table, faults, crashes>>

Before == {"start", "head", "ticked", "claim", "mark", "execute"}
Inside == {"command", "spawn", "poll", "kill", "reap", "unlock"}
After  == {"join", "settle", "unmark", "close", "sign off"}
Gone   == {"exited", "crashed"}
Causes == {"ok", "failed", "interrupted", "lost", "unexpected", "database"}

TypeOK ==
  /\ pc \in [Workers -> Before \cup {"lock"} \cup Inside \cup After \cup Gone]
  /\ job \in [Workers -> Jobs \cup {Null}]
  /\ cause \in [Workers -> Causes]
  /\ stop \in [Workers -> {Null, "no job", "job", "git"}]
  /\ beat \in [Workers -> {"off", "waiting", "writing", "failed", "ended"}]
  /\ lease \in [Workers -> {"off", "on", "lost"}]
  /\ git \in [Workers -> {"none", "running", "dead"}]
  /\ lock \in [Workers -> BOOLEAN]
  /\ row \in [Workers -> [state: {"absent", "present", "stopped", "pruned"},
                          current: Jobs \cup {Null}]]
  /\ table \in [Jobs -> [state: {"pending", "running", "done"},
                         owner: Workers \cup {Null}, expired: BOOLEAN]]
  /\ faults \in 0..Faults /\ crashes \in 0..Crashes

Released(state) == [state |-> state, owner |-> Null, expired |-> FALSE]

Init ==
  /\ pc = [w \in Workers |-> "start"]
  /\ job = [w \in Workers |-> Null]
  /\ cause = [w \in Workers |-> "ok"]
  /\ stop = [w \in Workers |-> Null]
  /\ beat = [w \in Workers |-> "off"]
  /\ lease = [w \in Workers |-> "off"]
  /\ git = [w \in Workers |-> "none"]
  /\ lock = [w \in Workers |-> FALSE]
  /\ row = [w \in Workers |-> [state |-> "absent", current |-> Null]]
  /\ table = [j \in Jobs |-> Released("pending")]
  /\ faults = Faults /\ crashes = Crashes

Go(w, next) == pc' = [pc EXCEPT ![w] = next]

\* An exception with this cause, handled at next.
Raise(w, why, next) == Go(w, next) /\ cause' = [cause EXCEPT ![w] = why]

Stopping(w) == stop[w] # Null

\* The event is set once; the model remembers whether work had begun by then.
Set(w) ==
  stop' = [stop EXCEPT ![w] = IF @ # Null THEN @
                              ELSE IF pc[w] \in Before THEN "no job"
                              ELSE IF pc[w] \in {"spawn", "poll", "kill", "reap"} THEN "git"
                              ELSE "job"]

\* Queue.validate
Valid(w) == LET j == job[w]
            IN  table[j].state = "running" /\ table[j].owner = w /\ ~table[j].expired

\* Mutant of Recorded: the parameters of the statement are swapped.
RecordedSwapped(w, state, j) ==
  row' = [row EXCEPT ![w] = [state |-> state, current |-> w]]

\* UPDATE workers ... WHERE id: nothing happens to a row that was deleted.
Recorded(w, state, j) ==
  row' = [row EXCEPT ![w] = IF @.state = "pruned" THEN @
                            ELSE [state |-> state, current |-> j]]

\* A transaction of the main thread fails: sqlite3.Error reaches the outer finally.
TransactionFails(w, at, handler) ==
  /\ pc[w] = at /\ faults > 0
  /\ at = "head" => ~Stopping(w)
  /\ at = "settle" => cause[w] # "lost"
  /\ faults' = faults - 1
  /\ Raise(w, "database", handler)
  /\ UNCHANGED <<job, stop, beat, lease, git, lock, row, table, crashes>>

---------------------------------------------------------------------------
(* The loop *)

Start(w) ==
  /\ pc[w] = "start"
  /\ row' = [row EXCEPT ![w] = [state |-> "present", current |-> Null]]
  /\ beat' = [beat EXCEPT ![w] = "waiting"]
  /\ Go(w, "head")
  /\ UNCHANGED <<job, cause, stop, lease, git, lock, table, faults, crashes>>

\* while not stop.is_set(), and the second look after tick.
Leave(w) ==
  /\ pc[w] \in {"head", "ticked"} /\ Stopping(w)
  /\ Go(w, "close")
  /\ UNCHANGED <<job, cause, stop, beat, lease, git, lock, row, table, faults, crashes>>

\* Scheduler.tick deletes the rows that neither ended nor beat for 30 days.
Tick(w) ==
  /\ pc[w] = "head" /\ ~Stopping(w)
  /\ \E old \in SUBSET {v \in Workers : pc[v] \in Gone} :
       row' = [v \in Workers |-> IF v \in old THEN [row[v] EXCEPT !.state = "pruned"]
                                 ELSE row[v]]
  /\ Go(w, "ticked")
  /\ UNCHANGED <<job, cause, stop, beat, lease, git, lock, table, faults, crashes>>

LookAgain(w) ==
  /\ pc[w] = "ticked" /\ ~Stopping(w)
  /\ Go(w, "claim")
  /\ UNCHANGED <<job, cause, stop, beat, lease, git, lock, row, table, faults, crashes>>

\* Scheduler.claim: expired claims are recovered first, in the same transaction.
Recovered ==
  [j \in Jobs |-> IF table[j].state = "running" /\ table[j].expired
                  THEN Released("pending") ELSE table[j]]

Claim(w) ==
  /\ pc[w] = "claim"
  /\ \E j \in Jobs :
       /\ Recovered[j].state = "pending"
       /\ table' = [Recovered EXCEPT ![j] = [state |-> "running", owner |-> w,
                                             expired |-> FALSE]]
       /\ job' = [job EXCEPT ![w] = j]
  /\ Go(w, "mark")
  /\ cause' = [cause EXCEPT ![w] = "ok"]
  /\ UNCHANGED <<stop, beat, lease, git, lock, row, faults, crashes>>

\* No job is claimable, or none is due yet.
ClaimNothing(w) ==
  /\ pc[w] = "claim"
  /\ table' = Recovered
  /\ Go(w, IF w \in Once THEN "close" ELSE "head")
  /\ UNCHANGED <<job, cause, stop, beat, lease, git, lock, row, faults, crashes>>

Mark(w) ==
  /\ pc[w] = "mark"
  /\ Recorded(w, "present", job[w])
  /\ Go(w, "execute")
  /\ UNCHANGED <<job, cause, stop, beat, lease, git, lock, table, faults, crashes>>

Unmark(w) ==
  /\ pc[w] = "unmark"
  /\ Recorded(w, "present", Null)
  /\ job' = [job EXCEPT ![w] = Null]
  /\ Go(w, IF cause[w] \in {"unexpected", "database"} THEN "close" ELSE "head")
  /\ UNCHANGED <<cause, stop, beat, lease, git, lock, table, faults, crashes>>

\* Mutant of Close: the heartbeat's thread is not joined.
CloseUnjoined(w) ==
  /\ pc[w] = "close"
  /\ Go(w, "sign off")
  /\ UNCHANGED <<job, cause, stop, beat, lease, git, lock, row, table, faults, crashes>>

Close(w) ==
  /\ pc[w] = "close"
  /\ beat[w] \in {"failed", "ended"}
  /\ Go(w, "sign off")
  /\ UNCHANGED <<job, cause, stop, beat, lease, git, lock, row, table, faults, crashes>>

SignOff(w) ==
  /\ pc[w] = "sign off"
  /\ Recorded(w, "stopped", Null)
  /\ Go(w, "exited")
  /\ UNCHANGED <<job, cause, stop, beat, lease, git, lock, table, faults, crashes>>

---------------------------------------------------------------------------
(* The job: execute_job under running_job *)

\* What guard() may conclude: the event, the lease heartbeat's verdict, the
\* claim in the table, the deadline; or its own read of the table fails.
Guard(w) ==
  IF Stopping(w) THEN {"interrupted"}
  ELSE IF lease[w] = "lost" THEN {"lost"}
  ELSE (IF Valid(w) THEN {"ok", "failed"} ELSE {"lost"})
       \cup {why \in {"unexpected"} : faults > 0}

\* The main thread runs a guard: on to next, or the exception to handler.
Guarded(w, next, handler) ==
  \E verdict \in Guard(w) :
    /\ IF verdict = "ok" THEN Go(w, next) /\ UNCHANGED cause ELSE Raise(w, verdict, handler)
    /\ faults' = IF verdict = "unexpected" THEN faults - 1 ELSE faults

\* Mutant of Execute: no guard before the work.
ExecuteUnguarded(w) ==
  /\ pc[w] = "execute"
  /\ Go(w, "lock")
  /\ lease' = [lease EXCEPT ![w] = "on"]
  /\ UNCHANGED <<job, cause, stop, beat, git, lock, row, table, faults, crashes>>

\* running_job guards before the lease heartbeat starts.
Execute(w) ==
  /\ pc[w] = "execute"
  /\ Guarded(w, "lock", "settle")
  /\ lease' = [lease EXCEPT ![w] = IF pc'[w] = "lock" THEN "on" ELSE "off"]
  /\ UNCHANGED <<job, stop, beat, git, lock, row, table, crashes>>

\* Mutant of Holders: the child does not inherit the descriptor (pass_fds).
HoldersSelf(j) == {v \in Workers : job[v] = j /\ lock[v]}

\* An inherited descriptor keeps a lock after the process that took it.
Holders(j) == {v \in Workers : job[v] = j /\ (lock[v] \/ git[v] = "running")}

Lock(w) ==
  /\ pc[w] = "lock"
  /\ IF Holders(job[w]) = {}
     THEN /\ Go(w, "command")
          /\ lock' = [lock EXCEPT ![w] = TRUE]
          /\ UNCHANGED cause
     ELSE Raise(w, "failed", "join") /\ UNCHANGED lock
  /\ UNCHANGED <<job, stop, beat, lease, git, row, table, faults, crashes>>

\* operation.run: a guard, then the process in a session of its own.
Command(w) ==
  /\ pc[w] = "command"
  /\ Guarded(w, "spawn", "unlock")
  /\ UNCHANGED <<job, stop, beat, lease, git, lock, row, table, crashes>>

Spawn(w) ==
  /\ pc[w] = "spawn"
  /\ git' = [git EXCEPT ![w] = "running"]
  /\ Go(w, "poll")
  /\ UNCHANGED <<job, cause, stop, beat, lease, lock, row, table, faults, crashes>>

GitEnds(w) ==
  /\ git[w] = "running"
  /\ git' = [git EXCEPT ![w] = IF pc[w] = "crashed" THEN "none" ELSE "dead"]
  /\ UNCHANGED <<main, stop, beat, lease, lock, row, table, faults, crashes>>

\* Mutant of Poll: communicate is called without a timeout.
PollBlocking(w) ==
  /\ pc[w] = "poll" /\ git[w] = "running"
  /\ UNCHANGED vars

\* Every 0.2 seconds, while the process runs.
Poll(w) ==
  /\ pc[w] = "poll" /\ git[w] = "running"
  /\ Guarded(w, "poll", "kill")
  /\ UNCHANGED <<job, stop, beat, lease, git, lock, row, table, crashes>>

\* The process ended and communicate reaped it; a last guard follows.
Collect(w) ==
  /\ pc[w] = "poll" /\ git[w] = "dead"
  /\ Guarded(w, "command", "kill")
  /\ git' = [git EXCEPT ![w] = "none"]
  /\ UNCHANGED <<job, stop, beat, lease, lock, row, table, crashes>>

\* Mutant of Kill: the handler does not wait for the process.
KillOnly(w) ==
  /\ pc[w] = "kill"
  /\ git' = [git EXCEPT ![w] = IF @ = "running" THEN "dead" ELSE @]
  /\ Go(w, "unlock")
  /\ UNCHANGED <<job, cause, stop, beat, lease, lock, row, table, faults, crashes>>

\* The handler of operation.run: killpg, which may find nothing, then wait.
Kill(w) ==
  /\ pc[w] = "kill"
  /\ git' = [git EXCEPT ![w] = IF @ = "running" THEN "dead" ELSE @]
  /\ Go(w, "reap")
  /\ UNCHANGED <<job, cause, stop, beat, lease, lock, row, table, faults, crashes>>

Reap(w) ==
  /\ pc[w] = "reap" /\ git[w] # "running"
  /\ git' = [git EXCEPT ![w] = "none"]
  /\ Go(w, "unlock")
  /\ UNCHANGED <<job, cause, stop, beat, lease, lock, row, table, faults, crashes>>

\* The work is done after some command, or a step between commands fails.
WorkEnds(w, why) ==
  /\ pc[w] = "command" /\ why \in {"ok", "failed", "unexpected"}
  /\ Raise(w, why, "unlock")
  /\ UNCHANGED <<job, stop, beat, lease, git, lock, row, table, faults, crashes>>

Unlock(w) ==
  /\ pc[w] = "unlock"
  /\ lock' = [lock EXCEPT ![w] = FALSE]
  /\ Go(w, "join")
  /\ UNCHANGED <<job, cause, stop, beat, lease, git, row, table, faults, crashes>>

\* The finally of running_job: the lease is not renewed any more.
Join(w) ==
  /\ pc[w] = "join"
  /\ lease' = [lease EXCEPT ![w] = "off"]
  /\ Go(w, "settle")
  /\ UNCHANGED <<job, cause, stop, beat, git, lock, row, table, faults, crashes>>

\* Mutant of Settle: an interruption is only passed on.
SettleUnlessInterrupted(w) ==
  /\ pc[w] = "settle"
  /\ IF cause[w] \in {"lost", "interrupted"} \/ ~Valid(w) THEN UNCHANGED table
     ELSE table' = [table EXCEPT ![job[w]] = Released("done")]
  /\ Go(w, "unmark")
  /\ UNCHANGED <<job, cause, stop, beat, lease, git, lock, row, faults, crashes>>

\* Scheduler.finish and interrupt validate the claim in their transaction; a
\* claim that is lost by then is left alone.
Settle(w) ==
  /\ pc[w] = "settle"
  /\ IF cause[w] = "lost" \/ ~Valid(w) THEN UNCHANGED table
     ELSE \E state \in {"done"} \cup {again \in {"pending"} :
                                      cause[w] \in {"failed", "interrupted"}} :
            table' = [table EXCEPT ![job[w]] = Released(state)]
  /\ Go(w, "unmark")
  /\ cause' = [cause EXCEPT ![w] = IF ~Valid(w) THEN "lost" ELSE @]
  /\ UNCHANGED <<job, stop, beat, lease, git, lock, row, faults, crashes>>

---------------------------------------------------------------------------
(* The heartbeats *)

\* heartbeat_stop.wait(5) runs out.
BeatDue(w) ==
  /\ beat[w] = "waiting" /\ pc[w] # "close"
  /\ beat' = [beat EXCEPT ![w] = "writing"]
  /\ UNCHANGED <<main, stop, lease, git, lock, row, table, faults, crashes>>

Beat(w) ==
  /\ beat[w] = "writing"
  /\ beat' = [beat EXCEPT ![w] = "waiting"]
  /\ UNCHANGED <<main, stop, lease, git, lock, row, table, faults, crashes>>

BeatFails(w) ==
  /\ beat[w] = "writing" /\ faults > 0
  /\ faults' = faults - 1
  /\ beat' = [beat EXCEPT ![w] = "failed"]
  /\ Set(w)
  /\ UNCHANGED <<main, lease, git, lock, row, table, crashes>>

\* heartbeat_stop is set.
BeatEnds(w) ==
  /\ beat[w] = "waiting" /\ pc[w] = "close"
  /\ beat' = [beat EXCEPT ![w] = "ended"]
  /\ UNCHANGED <<main, stop, lease, git, lock, row, table, faults, crashes>>

\* Every 20 seconds; renewing a claim that holds changes nothing here.
LeaseLost(w) ==
  /\ lease[w] = "on"
  /\ \/ ~Valid(w) /\ UNCHANGED faults
     \/ faults > 0 /\ faults' = faults - 1
  /\ lease' = [lease EXCEPT ![w] = "lost"]
  /\ UNCHANGED <<main, stop, beat, git, lock, row, table, crashes>>

---------------------------------------------------------------------------
(* The environment *)

\* SIGINT or SIGTERM under shutdown_signals.
Signal(w) ==
  /\ stop[w] = Null /\ pc[w] \notin Gone
  /\ Set(w)
  /\ UNCHANGED <<main, beat, lease, git, lock, row, table, faults, crashes>>

Expire(j) ==
  /\ table[j].state = "running" /\ ~table[j].expired
  /\ table' = [table EXCEPT ![j].expired = TRUE]
  /\ UNCHANGED <<main, stop, beat, lease, git, lock, row, faults, crashes>>

\* The process is killed; its Git process is not.
Crash(w) ==
  /\ pc[w] \notin Gone \cup {"start"} /\ crashes > 0
  /\ crashes' = crashes - 1
  /\ Go(w, "crashed")
  /\ beat' = [beat EXCEPT ![w] = "ended"]
  /\ lease' = [lease EXCEPT ![w] = "off"]
  /\ lock' = [lock EXCEPT ![w] = FALSE]
  /\ git' = [git EXCEPT ![w] = IF @ = "running" THEN @ ELSE "none"]
  /\ stop' = [stop EXCEPT ![w] = Null]
  /\ UNCHANGED <<job, cause, row, table, faults>>

Main(w) ==
  \/ Start(w) \/ Leave(w) \/ Tick(w) \/ LookAgain(w) \/ Claim(w) \/ ClaimNothing(w)
  \/ Mark(w) \/ Unmark(w) \/ Close(w) \/ SignOff(w)
  \/ Execute(w) \/ Lock(w) \/ Command(w) \/ Spawn(w) \/ Poll(w) \/ Collect(w)
  \/ Kill(w) \/ Reap(w) \/ Unlock(w) \/ Join(w) \/ Settle(w)
  \/ \E why \in Causes : WorkEnds(w, why)

Threads(w) == BeatDue(w) \/ Beat(w) \/ BeatFails(w) \/ BeatEnds(w) \/ LeaseLost(w)

MainFaults(w) ==
  \/ \E at \in {"head", "claim", "mark", "unmark"} : TransactionFails(w, at, "close")
  \/ TransactionFails(w, "settle", "unmark")
  \/ TransactionFails(w, "sign off", "exited")

Next ==
  \/ \E w \in Workers : Main(w) \/ MainFaults(w) \/ Threads(w) \/ GitEnds(w)
                        \/ Signal(w) \/ Crash(w)
  \/ \E j \in Jobs : Expire(j)

\* The scheduler of the operating system runs every thread; nothing makes a Git
\* process end by itself, or a user send a signal.
Fairness ==
  \A w \in Workers : /\ WF_vars(Main(w))
                      /\ WF_vars(Beat(w) \/ BeatEnds(w))

Spec == Init /\ [][Next]_vars /\ Fairness

---------------------------------------------------------------------------
(* Properties *)

\* Two Git processes are never at work in one repository, whoever was killed,
\* lost its claim or took it over: a lock is released after the process it
\* covers has ended, and a process left behind keeps it (operation.run).
OneGitPerRepository ==
  \A v, w \in Workers :
    v # w /\ git[v] = "running" /\ git[w] = "running" => job[v] # job[w]

\* A worker that is past an execution, or has ended in good order, has left no
\* Git process behind, running or unreaped, and no lock.
NothingLeftBehind ==
  \A w \in Workers :
    pc[w] \in After \cup {"exited"} => git[w] = "none" /\ ~lock[w]

\* A stop that arrives outside a Git command starts none: a job claimed after
\* the last look at the event is given back untouched.
StopStartsNothing ==
  \A w \in Workers :
    /\ stop[w] = "no job" => ~lock[w]
    /\ stop[w] \in {"no job", "job"} => git[w] = "none"

\* Unless a transaction failed, a worker that ended holds no claim that would
\* keep its job from the others until the lease runs out.
ClaimIsGivenBack ==
  \A w \in Workers :
    pc[w] = "exited" /\ faults = Faults =>
      \A j \in Jobs : table[j].owner = w => table[j].expired

\* The row the jobs page shows: stopped means that no thread, process or lock of
\* the worker is left and that no heartbeat follows; the current job is the one
\* whose Git process runs.
RowIsTruthful ==
  \A w \in Workers :
    /\ row[w].state = "stopped" =>
         /\ pc[w] = "exited" /\ beat[w] \in {"failed", "ended"}
         /\ lease[w] = "off" /\ row[w].current = Null
    /\ git[w] # "none" /\ row[w].state = "present" => row[w].current = job[w]

\* A worker that was asked to stop, or whose availability cannot be published,
\* ends, whatever its Git process does (operation.run, worker.heartbeat).
StopEnds ==
  \A w \in Workers : stop[w] # Null \/ beat[w] = "failed" ~> pc[w] \in Gone
=============================================================================
