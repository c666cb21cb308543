------------------------------ MODULE JobTable ------------------------------
(***************************************************************************)
(* The rows of the tables "jobs" and "job_attempts" of Cache22's SQLite    *)
(* index, and what each method of job_queue.Queue does to them.  Nothing   *)
(* here is a step: every *_in method runs inside the transaction of its    *)
(* caller, so it is an operator from the tables before to the tables       *)
(* after, and module Scheduler composes them into transactions.            *)
(*                                                                         *)
(* A table is a function on the ids it may ever use.  An id whose row does *)
(* not exist maps to NoJob (NoAttempt).  SQLite gives a new row the        *)
(* largest id in use plus one, so an id freed by pruning is used again.    *)
(* An attempt is named by the claim token it was opened with: the code     *)
(* draws a fresh token and opens one attempt in the same claim.            *)
(***************************************************************************)
EXTENDS Integers, Sequences, FiniteSets

CONSTANTS
  Repos,        \* the registered repositories
  MaxJobs,      \* bound on the job ids in use at the same time
  MaxClaims,    \* bound on the claims ever made (and so on the attempts)
  LEASE_SECONDS,
  RETRIES,      \* the delays before the retries of a transport failure
  DEFER,        \* the delay after a busy or an unavailable repository
  RETENTION     \* age at which a finished job expires

\* SQL NULL of an integer column.  Ids, tokens and times are positive.
Null == 0

ASSUME JobTableAssumption ==
  /\ Null \notin Repos
  /\ MaxJobs \in Nat
  /\ MaxClaims \in Nat
  /\ LEASE_SECONDS \in Nat \ {0}
  /\ RETRIES \in Seq(Nat)
  /\ DEFER \in Nat
  /\ RETENTION \in Nat

JobIds == 1 .. MaxJobs
Tokens == 1 .. MaxClaims
Kinds == {"check", "fetch", "convert"}
Origins == {"manual", "scheduled"}
Terminal == {"succeeded", "failed", "cancelled"}
Categories == {"none", "busy", "unavailable", "transport", "structural",
               "unexpected", "interrupted"}

Job == [state: {"absent", "pending", "running"} \cup Terminal,
        repo: Repos \cup {Null}, kind: Kinds, origin: Origins,
        due: Nat, retry: Nat, token: Tokens \cup {Null}, lease: Nat,
        finished: Nat]

Attempt == [job: JobIds \cup {Null}, kind: Kinds,
            outcome: {"open", "succeeded", "failed", "interrupted"},
            category: Categories, finished: Nat]

NoJob == [state |-> "absent", repo |-> Null, kind |-> "check",
          origin |-> "manual", due |-> 0, retry |-> 0, token |-> Null,
          lease |-> Null, finished |-> Null]

NoAttempt == [job |-> Null, kind |-> "check", outcome |-> "open",
              category |-> "none", finished |-> Null]

---------------------------------------------------------------------------
(* Reading the tables *)

Exists(J) == {i \in JobIds : J[i].state # "absent"}

InFlight(J, r) ==
  {i \in JobIds : J[i].repo = r /\ J[i].state \in {"pending", "running"}}

Running(J, r) == {i \in JobIds : J[i].repo = r /\ J[i].state = "running"}

\* ids are the next ids the table hands out.
NextIds(J, ids) ==
  \A i \in ids : /\ \A k \in Exists(J) : k < i
                 /\ i = 1 \/ (i - 1) \in Exists(J) \cup ids

\* Mutant of Valid: the token is not compared.
ValidByJobAlone(J, c, t) ==
  c.token # Null /\ J[c.job].state = "running" /\ J[c.job].lease > t

\* Mutant of Valid: a claim is good until somebody takes it.
ValidUntilTaken(J, c, t) ==
  c.token # Null /\ J[c.job].state = "running" /\ J[c.job].token = c.token

\* Queue.validate: claim c still owns the job it was made for, at time t.
Valid(J, c, t) ==
  /\ c.token # Null
  /\ J[c.job].state = "running"
  /\ J[c.job].token = c.token
  /\ J[c.job].lease > t

\* Mutant of Expired: one second too early.
ExpiredEarly(J, i, t) == J[i].state = "running" /\ J[i].lease <= t + 1

\* The row of Scheduler._recover: its owner let the lease run out.
Expired(J, i, t) == J[i].state = "running" /\ J[i].lease <= t

---------------------------------------------------------------------------
(* Submitting work *)

Inserted(J, i, r, kind, origin, t) ==
  [J EXCEPT ![i] = [NoJob EXCEPT !.state = "pending", !.repo = r,
                                 !.kind = kind, !.origin = origin, !.due = t]]

\* Mutant of Absorbs: a running job absorbs requests too.
AbsorbsRunning(J, i, r, kind) ==
  /\ i \in InFlight(J, r)
  /\ \A k \in InFlight(J, r) : k <= i
  /\ (kind = "convert") = (J[i].kind = "convert")

\* The newest job in flight absorbs a request of its own sort.
Absorbs(J, i, r, kind) ==
  /\ i \in InFlight(J, r)
  /\ \A k \in InFlight(J, r) : k <= i
  /\ J[i].state = "pending"
  /\ (kind = "convert") = (J[i].kind = "convert")

Merged(job, kind, origin, t) ==
  [job EXCEPT
     !.kind = IF kind = "convert" THEN "convert"
              ELSE IF "fetch" \in {kind, @} THEN "fetch" ELSE "check",
     !.origin = IF "manual" \in {origin, @} THEN "manual" ELSE "scheduled",
     !.due = IF t < @ THEN t ELSE @]

\* Queue.enqueue_in turns table J into J2.
Enqueued(J, J2, r, kind, origin, t) ==
  \/ \E i \in JobIds : /\ Absorbs(J, i, r, kind)
                       /\ J2 = [J EXCEPT ![i] = Merged(@, kind, origin, t)]
  \/ /\ \A i \in JobIds : ~Absorbs(J, i, r, kind)
     /\ \E i \in JobIds : /\ NextIds(J, {i})
                          /\ J2 = Inserted(J, i, r, kind, origin, t)

\* Mutant of Cancelled: the kind is not compared.
CancelledOfAnyKind(J, r, origins, kinds, t) ==
  [i \in JobIds |->
     IF J[i].repo = r /\ J[i].state = "pending" /\ J[i].origin \in origins
     THEN [J[i] EXCEPT !.state = "cancelled", !.finished = t]
     ELSE J[i]]

\* Queue.cancel_pending_in, for the pending jobs of r of these origins and kinds.
Cancelled(J, r, origins, kinds, t) ==
  [i \in JobIds |->
     IF /\ J[i].repo = r /\ J[i].state = "pending"
        /\ J[i].origin \in origins /\ J[i].kind \in kinds
     THEN [J[i] EXCEPT !.state = "cancelled", !.finished = t]
     ELSE J[i]]

---------------------------------------------------------------------------
(* Claiming work *)

\* Mutant of Blocking: only pending jobs block.
BlockingPending(J, j) ==
  {i \in JobIds : J[i].repo = J[j].repo /\ i < j /\ J[i].state = "pending"}

\* Mutant of Blocking: every other pending job blocks, earlier or later.
BlockingOthers(J, j) ==
  {i \in JobIds \ {j} : J[i].repo = J[j].repo /\ J[i].state \in {"running", "pending"}}

\* BLOCKING_JOB_SQL: the jobs of the same repository that come before job j.
Blocking(J, j) ==
  {i \in JobIds : /\ J[i].repo = J[j].repo
                  /\ \/ J[i].state = "running"
                     \/ i < j /\ J[i].state = "pending"}

Claimable(J, t) ==
  {j \in JobIds : J[j].state = "pending" /\ J[j].due <= t /\ Blocking(J, j) = {}}

\* The order in which due jobs are claimed: manual first, then by due time, then by id.
Precedes(J, j, k) ==
  \/ J[j].origin = "manual" /\ J[k].origin # "manual"
  \/ /\ J[j].origin = J[k].origin
     /\ \/ J[j].due < J[k].due
        \/ J[j].due = J[k].due /\ j < k

\* Queue.claim_in for a job already chosen, with the next unused token.
Claimed(J, j, token, t) ==
  [J EXCEPT ![j].state = "running", ![j].token = token,
            ![j].lease = t + LEASE_SECONDS]

Opened(A, token, j, kind) ==
  [A EXCEPT ![token] = [NoAttempt EXCEPT !.job = j, !.kind = kind]]

---------------------------------------------------------------------------
(* Ending an attempt *)

\* Mutant of Open: "finished_at IS NULL" is missing.
OpenEver(A, a) == A[a].job # Null

Open(A, a) == A[a].job # Null /\ A[a].finished = Null

\* The open attempts of the jobs in js are closed.
Closed(A, js, outcome, category, t) ==
  [a \in Tokens |->
     IF Open(A, a) /\ A[a].job \in js
     THEN [A[a] EXCEPT !.outcome = outcome, !.category = category, !.finished = t]
     ELSE A[a]]

\* Queue.finish_in: the scheduler decides state, due time and retry count.
Finished(J, j, state, due, retry, t) ==
  [J EXCEPT ![j].state = state, ![j].due = due, ![j].retry = retry,
            ![j].finished = IF state = "pending" THEN Null ELSE t,
            ![j].token = Null, ![j].lease = Null]

\* Mutant of Interrupted: the attempt's outcome is stored as the job's state.
InterruptedState(J, js, gone, t) ==
  [i \in JobIds |->
     IF i \in js
     THEN [J[i] EXCEPT !.state = "interrupted", !.token = Null, !.lease = Null]
     ELSE J[i]]

\* Mutant of Interrupted: the retry budget starts again.
InterruptedAnew(J, js, gone, t) ==
  [i \in JobIds |->
     IF i \in js
     THEN [J[i] EXCEPT !.state = IF i \in gone THEN "cancelled" ELSE "pending",
                       !.token = Null, !.lease = Null, !.due = t, !.retry = 0,
                       !.finished = IF i \in gone THEN t ELSE Null]
     ELSE J[i]]

\* Queue.interrupt_in: the jobs in js go back to the queue, those in gone are dropped.
Interrupted(J, js, gone, t) ==
  [i \in JobIds |->
     IF i \in js
     THEN [J[i] EXCEPT !.state = IF i \in gone THEN "cancelled" ELSE "pending",
                       !.token = Null, !.lease = Null, !.due = t,
                       !.finished = IF i \in gone THEN t ELSE Null]
     ELSE J[i]]

---------------------------------------------------------------------------
(* History *)

Succeeded(A, a) == A[a].job # Null /\ A[a].outcome = "succeeded"

\* Attempt b was completed later than attempt a: by time, then by id.
Later(A, b, a) ==
  \/ A[b].finished > A[a].finished
  \/ A[b].finished = A[a].finished /\ b > a

\* The last successful attempt of its repository and kind.
LatestSuccess(J, A, a) ==
  /\ Succeeded(A, a)
  /\ \A b \in Tokens : /\ Succeeded(A, b)
                       /\ J[A[b].job].repo = J[A[a].job].repo
                       /\ A[b].kind = A[a].kind
                       => ~Later(A, b, a)

\* Mutant of Prunable: the evidence of the last success expires too.
PrunableWithEvidence(J, A, cutoff) ==
  {i \in JobIds : J[i].state \in Terminal /\ J[i].finished < cutoff}

\* Queue.prune_history_in: the jobs that expire at this cutoff.
Prunable(J, A, cutoff) ==
  {i \in JobIds : /\ J[i].state \in Terminal
                  /\ J[i].finished < cutoff
                  /\ \A a \in Tokens : LatestSuccess(J, A, a) => A[a].job # i}

WithoutJobs(J, gone) == [i \in JobIds |-> IF i \in gone THEN NoJob ELSE J[i]]

\* ON DELETE CASCADE.
WithoutAttemptsOf(A, gone) ==
  [a \in Tokens |-> IF A[a].job \in gone THEN NoAttempt ELSE A[a]]

---------------------------------------------------------------------------
(* The views "inventory" and "job_errors" *)

\* last_checked_at, last_fetched_at and last_converted_at; 0 when there is none.
LastSuccessAt(J, A, r, kind) ==
  LET times == {A[a].finished : a \in
                  {b \in Tokens : /\ Succeeded(A, b) /\ A[b].kind = kind
                                  /\ J[A[b].job].repo = r}}
  IN  CHOOSE t \in times \cup {0} : \A u \in times : u <= t

\* Attempt a is the last completed attempt of its job, and it did not succeed.
JobError(J, A, a) ==
  /\ A[a].job # Null /\ A[a].finished # Null
  /\ \A b \in Tokens : A[b].job = A[a].job /\ A[b].finished # Null => b <= a
  /\ J[A[a].job].state \in {"pending", "running", "failed"}
  /\ A[a].outcome \in {"failed", "interrupted"}

\* Mutant of Unresolved: a success of any kind resolves the problem.
UnresolvedByItsKind(J, A, a) ==
  /\ JobError(J, A, a)
  /\ ~\E b \in Tokens : /\ Succeeded(A, b) /\ Later(A, b, a)
                        /\ J[A[b].job].repo = J[A[a].job].repo

\* The problem that attempt a left is not resolved by a later success of the same
\* repository and kind.
Unresolved(J, A, a) ==
  /\ JobError(J, A, a)
  /\ ~\E b \in Tokens : /\ Succeeded(A, b) /\ Later(A, b, a)
                        /\ J[A[b].job].repo = J[A[a].job].repo
                        /\ A[b].kind = A[a].kind

\* has_error of repository r.
HasError(J, A, r) == \E a \in Tokens : Unresolved(J, A, a) /\ J[A[a].job].repo = r

=============================================================================
