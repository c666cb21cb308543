--------------------------- MODULE SchedulerProofs ---------------------------
(***************************************************************************)
(* Theorems about module Scheduler, for every value of its constants.      *)
(*                                                                         *)
(* The inductive invariant relates the two tables (Consistent), the claims *)
(* the processes hold (OwnInv) and the schedules.  Every step is a         *)
(* composition of few changes to the tables; a lemma says of each that it  *)
(* keeps the tables consistent, so the proof of a step cites what it is    *)
(* composed of.                                                            *)
(***************************************************************************)
EXTENDS JobsView, FiniteSetTheorems, WellFoundedInduction, TLAPS

Tables(J, A) == J \in [JobIds -> Job] /\ A \in [Tokens -> Attempt]

\* A row that no claim holds.
Settled(row) ==
  /\ row \in Job
  /\ row.state \in {"pending"} \cup Terminal
  /\ row.repo # Null /\ row.token = Null /\ row.lease = Null

\* The tables J and A agree with each other; n tokens were drawn so far.
RunningRows(J, A, n) ==
  \A i \in JobIds :
    J[i].state = "running" =>
      /\ J[i].token \in Tokens /\ J[i].token <= n
      /\ A[J[i].token].job = i
      /\ A[J[i].token].kind = J[i].kind
      /\ A[J[i].token].finished = Null

QuietRows(J) ==
  \A i \in JobIds : J[i].state # "running" => J[i].token = Null /\ J[i].lease = Null

PresentRows(J) == \A i \in JobIds : J[i].state = "absent" <=> J[i].repo = Null

OneClaim(J) ==
  \A i, k \in JobIds : /\ J[i].state = "running" /\ J[k].state = "running"
                       /\ J[i].repo = J[k].repo
                       => i = k

AttemptRows(J, A, n) ==
  \A a \in Tokens :
    /\ n < a => A[a].job = Null
    /\ A[a].job # Null => J[A[a].job].state # "absent"
    /\ Open(A, a) => J[A[a].job].token = a

Consistent(J, A, n) ==
  /\ RunningRows(J, A, n)
  /\ QuietRows(J)
  /\ PresentRows(J)
  /\ OneClaim(J)
  /\ AttemptRows(J, A, n)

---------------------------------------------------------------------------
(* What the changes of the tables do *)

\* Rows that nobody holds may be replaced by rows that nobody holds.
LEMMA SettledKeeps ==
  ASSUME NEW J, NEW J2, NEW A, NEW n \in Nat, Tables(J, A), Consistent(J, A, n),
         J2 \in [JobIds -> Job],
         \A i \in JobIds : \/ J2[i] = J[i]
                           \/ J[i].state # "running" /\ Settled(J2[i])
  PROVE  Consistent(J2, A, n)
<1>1. \A i \in JobIds : J2[i].state = "running" => J2[i] = J[i]
  BY DEF Settled, Terminal
<1>2. \A i \in JobIds : J[i].state = "running" => J2[i] = J[i]
  OBVIOUS
<1>3. RunningRows(J2, A, n)
  BY <1>1 DEF Consistent, RunningRows
<1>4. QuietRows(J2)
  BY <1>1 DEF Consistent, QuietRows, Settled
<1>5. PresentRows(J2)
  BY DEF Consistent, PresentRows, Settled, Terminal
<1>6. OneClaim(J2)
  BY <1>1 DEF Consistent, OneClaim
<1>7. AttemptRows(J2, A, n)
  <2> SUFFICES ASSUME NEW a \in Tokens
               PROVE  /\ n < a => A[a].job = Null
                      /\ A[a].job # Null => J2[A[a].job].state # "absent"
                      /\ Open(A, a) => J2[A[a].job].token = a
    BY DEF AttemptRows
  <2>1. n < a => A[a].job = Null
    BY DEF Consistent, AttemptRows
  <2>2. A[a].job # Null => A[a].job \in JobIds
    BY DEF Tables, Attempt
  <2>3. ASSUME A[a].job # Null PROVE J2[A[a].job].state # "absent"
    BY <2>2, <2>3 DEF Consistent, AttemptRows, Settled, Terminal
  <2>4. ASSUME Open(A, a) PROVE J2[A[a].job].token = a
    <3>1. A[a].job \in JobIds /\ J[A[a].job].token = a
      BY <2>2, <2>4 DEF Open, Consistent, AttemptRows
    <3>2. a # Null
      BY DEF Tokens, Null
    <3>3. J[A[a].job].state = "running"
      BY <3>1, <3>2 DEF Consistent, QuietRows
    <3> QED BY <1>2, <3>1, <3>3
  <2> QED BY <2>1, <2>3, <2>4
<1> QED BY <1>3, <1>4, <1>5, <1>6, <1>7 DEF Consistent

\* Jobs that were running are handed back, and their open attempts are closed.
LEMMA ReleaseKeeps ==
  ASSUME NEW J, NEW J2, NEW A, NEW n \in Nat, Tables(J, A), Consistent(J, A, n),
         NEW js \in SUBSET JobIds, NEW outcome, NEW category, NEW t \in Nat \ {0},
         \A i \in js : J[i].state = "running" /\ Settled(J2[i]),
         J2 \in [JobIds -> Job],
         \A i \in JobIds \ js : J2[i] = J[i]
  PROVE  Consistent(J2, Closed(A, js, outcome, category, t), n)
<1> DEFINE A2 == Closed(A, js, outcome, category, t)
<1>1. \A a \in Tokens : A2[a].job = A[a].job /\ A2[a].kind = A[a].kind
  BY DEF Closed, Tables, Attempt
<1>2. \A a \in Tokens : A[a].job \in js /\ A[a].job # Null => A2[a].finished # Null
  BY DEF Closed, Tables, Attempt, Open, Null
<1>3. \A a \in Tokens : A[a].job \notin js => A2[a] = A[a]
  BY DEF Closed
<1>4. \A i \in JobIds : J2[i].state = "running" => i \notin js /\ J2[i] = J[i]
  BY DEF Settled, Terminal
<1>5. \A a \in Tokens : A[a].job # Null => A[a].job \in JobIds
  BY DEF Tables, Attempt
<1>6. RunningRows(J2, A2, n)
  <2> SUFFICES ASSUME NEW i \in JobIds, J2[i].state = "running"
               PROVE  /\ J2[i].token \in Tokens /\ J2[i].token <= n
                      /\ A2[J2[i].token].job = i
                      /\ A2[J2[i].token].kind = J2[i].kind
                      /\ A2[J2[i].token].finished = Null
    BY DEF RunningRows
  <2>1. i \notin js /\ J2[i] = J[i]
    BY <1>4
  <2>2. /\ J[i].token \in Tokens /\ J[i].token <= n
        /\ A[J[i].token].job = i
        /\ A[J[i].token].kind = J[i].kind
        /\ A[J[i].token].finished = Null
    BY <2>1 DEF Consistent, RunningRows
  <2> QED BY <1>3, <2>1, <2>2
<1>7. QuietRows(J2)
  <2> SUFFICES ASSUME NEW i \in JobIds, J2[i].state # "running"
               PROVE  J2[i].token = Null /\ J2[i].lease = Null
    BY DEF QuietRows
  <2>1. CASE i \in js BY <2>1 DEF Settled
  <2>2. CASE i \notin js BY <2>2 DEF Consistent, QuietRows
  <2> QED BY <2>1, <2>2
<1>8. PresentRows(J2)
  <2> SUFFICES ASSUME NEW i \in JobIds
               PROVE  J2[i].state = "absent" <=> J2[i].repo = Null
    BY DEF PresentRows
  <2>1. CASE i \in js BY <2>1 DEF Settled, Terminal
  <2>2. CASE i \notin js BY <2>2 DEF Consistent, PresentRows
  <2> QED BY <2>1, <2>2
<1>9. OneClaim(J2)
  BY <1>4 DEF Consistent, OneClaim
<1>10. AttemptRows(J2, A2, n)
  <2> SUFFICES ASSUME NEW a \in Tokens
               PROVE  /\ n < a => A2[a].job = Null
                      /\ A2[a].job # Null => J2[A2[a].job].state # "absent"
                      /\ Open(A2, a) => J2[A2[a].job].token = a
    BY DEF AttemptRows
  <2>1. n < a => A2[a].job = Null
    BY <1>1 DEF Consistent, AttemptRows
  <2>2. A2[a].job # Null => J2[A2[a].job].state # "absent"
    <3>1. CASE A[a].job \in js BY <1>1, <3>1 DEF Settled, Terminal
    <3>2. CASE A[a].job \notin js
      BY <1>1, <1>5, <3>2 DEF Consistent, AttemptRows
    <3> QED BY <3>1, <3>2
  <2>3. ASSUME Open(A2, a) PROVE J2[A2[a].job].token = a
    <3>1. A[a].job # Null /\ A[a].job \in JobIds /\ A[a].job \notin js
      BY <1>1, <1>2, <1>5, <2>3 DEF Open
    <3>2. Open(A, a)
      BY <1>3, <2>3, <3>1 DEF Open
    <3> QED BY <1>1, <3>1, <3>2 DEF Consistent, AttemptRows
  <2> QED BY <2>1, <2>2, <2>3
<1> QED BY <1>6, <1>7, <1>8, <1>9, <1>10 DEF Consistent

\* A pending job of a repository where nothing runs is claimed with a fresh token.
LEMMA TakeKeeps ==
  ASSUME NEW J, NEW A, NEW n \in Nat, Tables(J, A), Consistent(J, A, n),
         n + 1 \in Tokens, NEW j \in JobIds, NEW t \in Nat,
         J[j].state = "pending", Running(J, J[j].repo) = {}
  PROVE  LET J2 == Claimed(J, j, n + 1, t)
             A2 == Opened(A, n + 1, j, J[j].kind)
         IN  Tables(J2, A2) /\ Consistent(J2, A2, n + 1)
<1> DEFINE J2 == Claimed(J, j, n + 1, t)
<1> DEFINE A2 == Opened(A, n + 1, j, J[j].kind)
<1> USE JobTableAssumption
<1>1. J2[j] = [J[j] EXCEPT !.state = "running", !.token = n + 1,
                           !.lease = t + LEASE_SECONDS]
  BY DEF Claimed, Tables, Job
<1>2. \A i \in JobIds \ {j} : J2[i] = J[i]
  BY DEF Claimed, Tables
<1>3. A2[n + 1] = [NoAttempt EXCEPT !.job = j, !.kind = J[j].kind]
  BY DEF Opened, Tables
<1>4. \A a \in Tokens \ {n + 1} : A2[a] = A[a]
  BY DEF Opened, Tables
<1>5. /\ J2[j].state = "running" /\ J2[j].token = n + 1 /\ J2[j].repo = J[j].repo
      /\ J2[j].kind = J[j].kind /\ J2[j] \in Job
  <2>1. J[j] \in Job BY DEF Tables
  <2>2. t + LEASE_SECONDS \in Nat OBVIOUS
  <2> QED BY <1>1, <2>1, <2>2 DEF Job
<1>6. /\ A2[n + 1].job = j /\ A2[n + 1].kind = J[j].kind
      /\ A2[n + 1].finished = Null /\ A2[n + 1] \in Attempt
  <2>1. J[j].kind \in Kinds BY DEF Tables, Job
  <2>2. A2[n + 1] = [job |-> j, kind |-> J[j].kind, outcome |-> "open",
                     category |-> "none", finished |-> 0]
    BY <1>3 DEF NoAttempt, Null
  <2> HIDE DEF A2
  <2> QED BY <2>1, <2>2 DEF Attempt, Null, Categories
<1>7. Tables(J2, A2)
  BY <1>5, <1>6, <1>2, <1>4 DEF Tables, Claimed, Opened
<1>8. RunningRows(J2, A2, n + 1)
  <2> SUFFICES ASSUME NEW i \in JobIds, J2[i].state = "running"
               PROVE  /\ J2[i].token \in Tokens /\ J2[i].token <= n + 1
                      /\ A2[J2[i].token].job = i
                      /\ A2[J2[i].token].kind = J2[i].kind
                      /\ A2[J2[i].token].finished = Null
    BY DEF RunningRows
  <2>1. CASE i = j BY <1>5, <1>6, <2>1 DEF Tokens
  <2>2. CASE i # j
    <3>1. J2[i] = J[i] BY <1>2, <2>2
    <3>2. /\ J[i].token \in Tokens /\ J[i].token <= n
          /\ A[J[i].token].job = i
          /\ A[J[i].token].kind = J[i].kind
          /\ A[J[i].token].finished = Null
      BY <3>1 DEF Consistent, RunningRows
    <3>3. J[i].token \in Tokens \ {n + 1} BY <3>2 DEF Tokens
    <3> QED BY <1>4, <3>1, <3>2, <3>3 DEF Tokens
  <2> QED BY <2>1, <2>2
<1>9. QuietRows(J2)
  BY <1>2, <1>5 DEF Consistent, QuietRows
<1>10. PresentRows(J2)
  BY <1>2, <1>5 DEF Consistent, PresentRows
<1>11. OneClaim(J2)
  BY <1>2, <1>5 DEF Consistent, OneClaim, Running
<1>12. AttemptRows(J2, A2, n + 1)
  <2> SUFFICES ASSUME NEW a \in Tokens
               PROVE  /\ n + 1 < a => A2[a].job = Null
                      /\ A2[a].job # Null => J2[A2[a].job].state # "absent"
                      /\ Open(A2, a) => J2[A2[a].job].token = a
    BY DEF AttemptRows
  <2>1. CASE a = n + 1 BY <1>5, <1>6, <2>1
  <2>2. CASE a # n + 1
    <3>1. A2[a] = A[a] BY <1>4, <2>2
    <3>2. n + 1 < a => n < a BY DEF Tokens
    <3>3. A[a].job # Null => A[a].job \in JobIds
      BY DEF Tables, Attempt
    <3>4. Open(A, a) => A[a].job # j
      BY <3>3 DEF Consistent, AttemptRows, QuietRows, Open, Tokens, Null
    <3> QED BY <1>2, <1>5, <3>1, <3>2, <3>3, <3>4 DEF Consistent, AttemptRows, Open
  <2> QED BY <2>1, <2>2
<1> QED BY <1>7, <1>8, <1>9, <1>10, <1>11, <1>12 DEF Consistent

\* Terminal jobs expire, each with its attempts.
LEMMA PruneKeeps ==
  ASSUME NEW J, NEW A, NEW n \in Nat, Tables(J, A), Consistent(J, A, n),
         NEW gone \in SUBSET JobIds, \A i \in gone : J[i].state \in Terminal
  PROVE  LET J2 == WithoutJobs(J, gone)
             A2 == WithoutAttemptsOf(A, gone)
         IN  Tables(J2, A2) /\ Consistent(J2, A2, n)
<1> DEFINE J2 == WithoutJobs(J, gone)
<1> DEFINE A2 == WithoutAttemptsOf(A, gone)
<1>1. NoJob \in Job /\ NoAttempt \in Attempt
  BY DEF NoJob, NoAttempt, Job, Attempt, Null, Kinds, Origins, Categories
<1>2. Tables(J2, A2)
  BY <1>1 DEF Tables, WithoutJobs, WithoutAttemptsOf
<1>3. \A i \in JobIds : J2[i] = IF i \in gone THEN NoJob ELSE J[i]
  BY DEF WithoutJobs
<1>4. \A a \in Tokens : A2[a] = IF A[a].job \in gone THEN NoAttempt ELSE A[a]
  BY DEF WithoutAttemptsOf
<1>5. \A a \in Tokens : A[a].job # Null => A[a].job \in JobIds
  BY DEF Tables, Attempt
<1>6. RunningRows(J2, A2, n)
  <2> SUFFICES ASSUME NEW i \in JobIds, J2[i].state = "running"
               PROVE  /\ J2[i].token \in Tokens /\ J2[i].token <= n
                      /\ A2[J2[i].token].job = i
                      /\ A2[J2[i].token].kind = J2[i].kind
                      /\ A2[J2[i].token].finished = Null
    BY DEF RunningRows
  <2>1. i \notin gone /\ J2[i] = J[i]
    BY <1>3 DEF NoJob
  <2> QED BY <1>4, <2>1 DEF Consistent, RunningRows
<1>7. QuietRows(J2)
  BY <1>3 DEF Consistent, QuietRows, NoJob
<1>8. PresentRows(J2)
  BY <1>3 DEF Consistent, PresentRows, NoJob
<1>9. OneClaim(J2)
  BY <1>3 DEF Consistent, OneClaim, NoJob
<1>10. AttemptRows(J2, A2, n)
  BY <1>3, <1>4, <1>5 DEF Consistent, AttemptRows, NoAttempt, Open
<1> QED BY <1>2, <1>6, <1>7, <1>8, <1>9, <1>10 DEF Consistent

\* Only rows that nobody holds were replaced.
Resettled(J, J2) ==
  /\ J2 \in [JobIds -> Job]
  /\ \A i \in JobIds : J2[i] = J[i] \/ (J[i].state # "running" /\ Settled(J2[i]))

\* A row that holds a token after a change held it before, for the same work.
Kept(J, J2) ==
  \A i \in JobIds : J2[i].token # Null =>
    /\ J2[i].token = J[i].token
    /\ J2[i].repo = J[i].repo /\ J2[i].kind = J[i].kind
    /\ J2[i].origin = J[i].origin /\ J2[i].retry = J[i].retry

LEMMA ResettledKept ==
  ASSUME NEW J, NEW J2, Resettled(J, J2)
  PROVE  Kept(J, J2)
BY DEF Resettled, Kept, Settled

LEMMA InsertedRow ==
  ASSUME NEW J \in [JobIds -> Job], NEW i \in JobIds, NEW r \in Repos,
         NEW kind \in Kinds, NEW origin \in Origins, NEW t \in Nat
  PROVE  /\ Inserted(J, i, r, kind, origin, t) \in [JobIds -> Job]
         /\ Settled(Inserted(J, i, r, kind, origin, t)[i])
         /\ Inserted(J, i, r, kind, origin, t)[i].state = "pending"
         /\ Inserted(J, i, r, kind, origin, t)[i].repo = r
         /\ Inserted(J, i, r, kind, origin, t)[i].origin = origin
         /\ Inserted(J, i, r, kind, origin, t)[i].kind = kind
         /\ Inserted(J, i, r, kind, origin, t)[i].retry = 0
         /\ \A k \in JobIds \ {i} : Inserted(J, i, r, kind, origin, t)[k] = J[k]
<1> DEFINE row == [NoJob EXCEPT !.state = "pending", !.repo = r, !.kind = kind,
                                !.origin = origin, !.due = t]
<1>1. Inserted(J, i, r, kind, origin, t) = [J EXCEPT ![i] = row]
  BY DEF Inserted
<1>2. /\ row \in Job /\ row.state = "pending" /\ row.repo = r /\ row.origin = origin
      /\ row.kind = kind /\ row.retry = 0 /\ row.token = Null /\ row.lease = Null
  <2>1. NoJob \in Job /\ NoJob.token = Null /\ NoJob.lease = Null /\ NoJob.retry = 0
    BY DEF NoJob, Job, Null, Kinds, Origins
  <2> QED BY <2>1 DEF Job
<1>3. row.repo # Null
  BY JobTableAssumption
<1> HIDE DEF row
<1>4. Settled(row)
  BY <1>2, <1>3 DEF Settled
<1> QED BY <1>1, <1>2, <1>4

LEMMA EnqueuedRows ==
  ASSUME NEW J \in [JobIds -> Job], NEW J2, QuietRows(J), PresentRows(J),
         NEW r \in Repos, NEW kind \in Kinds, NEW origin \in Origins, NEW t \in Nat,
         Enqueued(J, J2, r, kind, origin, t)
  PROVE  Resettled(J, J2)
<1>1. CASE \E i \in JobIds : /\ Absorbs(J, i, r, kind)
                             /\ J2 = [J EXCEPT ![i] = Merged(@, kind, origin, t)]
  <2>1. PICK i \in JobIds : /\ Absorbs(J, i, r, kind)
                            /\ J2 = [J EXCEPT ![i] = Merged(@, kind, origin, t)]
    BY <1>1
  <2>2. J[i] \in Job /\ J[i].state = "pending"
    BY <2>1 DEF Absorbs
  <2>3. J[i].token = Null /\ J[i].lease = Null /\ J[i].repo # Null
    BY <2>2 DEF QuietRows, PresentRows
  <2> DEFINE row == Merged(J[i], kind, origin, t)
  <2>4. /\ row \in Job /\ row.state = J[i].state /\ row.repo = J[i].repo
        /\ row.token = J[i].token /\ row.lease = J[i].lease
    BY <2>2 DEF Merged, Job, Kinds, Origins
  <2>5. Settled(row)
    BY <2>2, <2>3, <2>4 DEF Settled
  <2> HIDE DEF row
  <2>6. J2 = [J EXCEPT ![i] = row]
    BY <2>1 DEF row
  <2> QED BY <2>2, <2>4, <2>5, <2>6 DEF Resettled
<1>2. CASE \E i \in JobIds : /\ NextIds(J, {i})
                             /\ J2 = Inserted(J, i, r, kind, origin, t)
  <2>1. PICK i \in JobIds : NextIds(J, {i}) /\ J2 = Inserted(J, i, r, kind, origin, t)
    BY <1>2
  <2>2. J[i].state = "absent"
    BY <2>1 DEF NextIds, Exists, JobIds
  <2> QED BY <2>1, <2>2, InsertedRow DEF Resettled
<1> QED BY <1>1, <1>2 DEF Enqueued

LEMMA CancelledRows ==
  ASSUME NEW J \in [JobIds -> Job], QuietRows(J), PresentRows(J),
         NEW r, NEW origins, NEW kinds, NEW t \in Nat
  PROVE  Resettled(J, Cancelled(J, r, origins, kinds, t))
<1> DEFINE J2 == Cancelled(J, r, origins, kinds, t)
<1> SUFFICES ASSUME NEW i \in JobIds
             PROVE  /\ J2[i] \in Job
                    /\ J2[i] = J[i] \/ (J[i].state # "running" /\ Settled(J2[i]))
  BY DEF Resettled, Cancelled
<1>1. CASE J2[i] = J[i] BY <1>1
<1>2. CASE J2[i] # J[i]
  <2>1. J[i].state = "pending" /\ J2[i] = [J[i] EXCEPT !.state = "cancelled", !.finished = t]
    BY <1>2 DEF Cancelled
  <2>2. J[i].token = Null /\ J[i].lease = Null /\ J[i].repo # Null
    BY <2>1 DEF QuietRows, PresentRows
  <2>3. J[i] \in Job OBVIOUS
  <2> HIDE DEF J2
  <2>4. /\ J2[i] \in Job /\ J2[i].state = "cancelled" /\ J2[i].repo = J[i].repo
        /\ J2[i].token = J[i].token /\ J2[i].lease = J[i].lease
    BY <2>1, <2>3 DEF Job, Terminal
  <2> QED BY <2>1, <2>2, <2>4 DEF Settled, Terminal
<1> QED BY <1>1, <1>2

LEMMA ClosedAttempts ==
  ASSUME NEW A \in [Tokens -> Attempt], NEW js, NEW t \in Nat,
         NEW outcome \in {"succeeded", "failed", "interrupted"}, NEW category \in Categories
  PROVE  Closed(A, js, outcome, category, t) \in [Tokens -> Attempt]
<1> SUFFICES ASSUME NEW a \in Tokens
             PROVE  [A[a] EXCEPT !.outcome = outcome, !.category = category,
                                 !.finished = t] \in Attempt
  BY DEF Closed
<1>1. A[a] \in Attempt OBVIOUS
<1> QED BY <1>1 DEF Attempt

\* Interrupted jobs go back to the queue, or are dropped, as rows nobody holds.
LEMMA InterruptedRows ==
  ASSUME NEW J \in [JobIds -> Job], PresentRows(J), NEW js \in SUBSET JobIds,
         NEW gone, NEW t \in Nat, \A i \in js : J[i].state = "running"
  PROVE  /\ Interrupted(J, js, gone, t) \in [JobIds -> Job]
         /\ \A i \in js : Settled(Interrupted(J, js, gone, t)[i])
         /\ \A i \in JobIds \ js : Interrupted(J, js, gone, t)[i] = J[i]
<1> DEFINE J2 == Interrupted(J, js, gone, t)
<1>1. ASSUME NEW i \in js PROVE J2[i] \in Job /\ Settled(J2[i])
  <2>1. PICK state \in {"pending", "cancelled"}, finished \in Nat :
          J2[i] = [J[i] EXCEPT !.state = state, !.token = Null, !.lease = Null,
                               !.due = t, !.finished = finished]
    BY DEF Interrupted, Null
  <2>2. J[i] \in Job /\ J[i].repo # Null
    BY DEF PresentRows
  <2> DEFINE row == J[i]
  <2> DEFINE row2 == J2[i]
  <2>3. row \in Job /\ row2 = [row EXCEPT !.state = state, !.token = Null,
                              !.lease = Null, !.due = t, !.finished = finished]
    BY <2>1, <2>2
  <2> HIDE DEF J2, row, row2
  <2>4. /\ row2 \in Job /\ row2.repo = row.repo
        /\ row2.state \in {"pending", "cancelled"}
        /\ row2.token = Null /\ row2.lease = Null
    BY <2>3 DEF Job, Terminal, Null
  <2> QED BY <2>2, <2>4 DEF Settled, Terminal, row, row2
<1>2. \A i \in JobIds \ js : J2[i] = J[i]
  BY DEF Interrupted
<1> QED BY <1>1, <1>2 DEF Interrupted

---------------------------------------------------------------------------
(* The inductive invariant *)

\* What a process remembers of its claim is still the row, while the row bears
\* the claim's token.
OwnInv(J, n, o) ==
  \A p \in Procs : o[p].token # Null =>
    /\ o[p].token <= n
    /\ o[p].job \in JobIds /\ o[p].repo \in Repos
    /\ J[o[p].job].token = o[p].token =>
         /\ J[o[p].job].repo = o[p].repo /\ J[o[p].job].kind = o[p].kind
         /\ J[o[p].job].origin = o[p].origin /\ J[o[p].job].retry = o[p].retry

IInv ==
  /\ TypeOK
  /\ now # 0
  /\ Consistent(jobs, attempts, claims)
  /\ OwnInv(jobs, claims, own)

LEMMA NullRow == Null \notin Repos /\ Null \notin Tokens /\ Null \notin JobIds
BY JobTableAssumption DEF Tokens, JobIds, Null

LEMMA NoClaimOK == NoClaim \in Claims
BY DEF NoClaim, Claims, Kinds, Origins, Null

LEMMA KeptTransitive ==
  ASSUME NEW J, NEW J2, NEW J3, Kept(J, J2), Kept(J2, J3)
  PROVE  Kept(J, J3)
BY DEF Kept

\* Every claim that is let go is let go whole, and every claim that is kept is
\* remembered as it is.
LEMMA OwnKept ==
  ASSUME NEW J, NEW J2, NEW n, NEW o, NEW o2, OwnInv(J, n, o), Kept(J, J2),
         \A p \in Procs : o2[p] = o[p] \/ o2[p].token = Null
  PROVE  OwnInv(J2, n, o2)
BY DEF OwnInv, Kept

\* The recovery of expired claims.
LEMMA RecoverKeeps ==
  ASSUME IInv
  PROVE  /\ Tables(RecoveredJobs, RecoveredAttempts)
         /\ Consistent(RecoveredJobs, RecoveredAttempts, claims)
         /\ Kept(jobs, RecoveredJobs)
         /\ RecoveredInventory \in [Repos -> Observation]
<1>1. /\ jobs \in [JobIds -> Job] /\ attempts \in [Tokens -> Attempt]
      /\ now \in Nat \ {0} /\ claims \in Nat /\ inventory \in [Repos -> Observation]
  BY JobTableAssumption DEF IInv, TypeOK, Tokens
<1>2. PresentRows(jobs) /\ Consistent(jobs, attempts, claims)
  BY DEF IInv, Consistent
<1>3. ExpiredJobs \in SUBSET JobIds /\ \A i \in ExpiredJobs : jobs[i].state = "running"
  BY DEF ExpiredJobs, Expired
<1>4. /\ RecoveredJobs \in [JobIds -> Job]
      /\ \A i \in ExpiredJobs : Settled(RecoveredJobs[i])
      /\ \A i \in JobIds \ ExpiredJobs : RecoveredJobs[i] = jobs[i]
  <2> DEFINE gone == {i \in ExpiredJobs : Orphaned(jobs[i].origin, jobs[i].repo)}
  <2>1. RecoveredJobs = Interrupted(jobs, ExpiredJobs, gone, now)
    BY DEF RecoveredJobs
  <2> HIDE DEF gone
  <2> QED BY <1>1, <1>2, <1>3, <2>1, InterruptedRows
<1>5. RecoveredAttempts \in [Tokens -> Attempt]
  BY <1>1, ClosedAttempts DEF RecoveredAttempts, Categories
<1>6. Consistent(RecoveredJobs, RecoveredAttempts, claims)
  <2>1. Tables(jobs, attempts) BY <1>1 DEF Tables
  <2> QED BY <1>1, <1>2, <1>3, <1>4, <2>1, ReleaseKeeps DEF RecoveredAttempts
<1>7. Kept(jobs, RecoveredJobs)
  BY <1>4 DEF Kept, Settled
<1>8. RecoveredInventory \in [Repos -> Observation]
  BY <1>1 DEF RecoveredInventory, Observation
<1> QED BY <1>4, <1>5, <1>6, <1>7, <1>8 DEF Tables

\* A claim is made on tables that keep what the invariant says.
LEMMA TakeStep ==
  ASSUME IInv, NEW p \in Procs, NEW J, NEW A, Tables(J, A), Consistent(J, A, claims),
         Kept(jobs, J), NEW j \in JobIds, J[j].state = "pending",
         Running(J, J[j].repo) = {}, Take(p, J, A, j)
  PROVE  /\ Tables(jobs', attempts') /\ Consistent(jobs', attempts', claims')
         /\ claims' \in Tokens \cup {0}
         /\ own' \in [Procs -> Claims]
         /\ OwnInv(jobs', claims', own')
<1>1. /\ claims \in Nat /\ claims + 1 \in Tokens /\ claims' = claims + 1
      /\ now \in Nat /\ own \in [Procs -> Claims]
  BY JobTableAssumption DEF IInv, TypeOK, Take, Tokens
<1>2. jobs' = Claimed(J, j, claims + 1, now) /\ attempts' = Opened(A, claims + 1, j, J[j].kind)
  BY DEF Take
<1>3. Tables(jobs', attempts') /\ Consistent(jobs', attempts', claims')
  BY <1>1, <1>2, TakeKeeps
<1> DEFINE c == [token |-> claims + 1, job |-> j, repo |-> J[j].repo, kind |-> J[j].kind,
                 origin |-> J[j].origin, retry |-> J[j].retry]
<1>4. own' = [own EXCEPT ![p] = c]
  BY DEF Take
<1>5. J[j] \in Job /\ J[j].repo \in Repos
  BY DEF Tables, Job, Consistent, PresentRows
<1>6. c \in Claims
  BY <1>1, <1>5 DEF Claims, Job
<1>7. own' \in [Procs -> Claims]
  BY <1>1, <1>4, <1>6
<1>8. OwnInv(jobs', claims', own')
  <2>1. /\ \A i \in JobIds \ {j} : jobs'[i] = J[i]
        /\ jobs'[j].token = claims + 1 /\ jobs'[j].repo = J[j].repo
        /\ jobs'[j].kind = J[j].kind /\ jobs'[j].origin = J[j].origin
        /\ jobs'[j].retry = J[j].retry
    <3>1. jobs' = [J EXCEPT ![j] = [J[j] EXCEPT !.state = "running", !.token = claims + 1,
                                                !.lease = now + LEASE_SECONDS]]
      BY <1>2 DEF Claimed, Tables, Job
    <3> DEFINE row == J[j]
    <3> DEFINE row2 == [row EXCEPT !.state = "running", !.token = claims + 1,
                                   !.lease = now + LEASE_SECONDS]
    <3>2. /\ row2.token = claims + 1 /\ row2.repo = row.repo /\ row2.kind = row.kind
          /\ row2.origin = row.origin /\ row2.retry = row.retry
      <4>1. row \in Job BY <1>5
      <4> HIDE DEF row
      <4> QED BY <4>1 DEF Job
    <3> HIDE DEF row2
    <3>3. jobs' = [J EXCEPT ![j] = row2] BY <3>1 DEF row2
    <3> QED BY <3>2, <3>3 DEF Tables
  <2> SUFFICES ASSUME NEW q \in Procs, own'[q].token # Null
               PROVE  /\ own'[q].token <= claims'
                      /\ own'[q].job \in JobIds /\ own'[q].repo \in Repos
                      /\ jobs'[own'[q].job].token = own'[q].token =>
                           /\ jobs'[own'[q].job].repo = own'[q].repo
                           /\ jobs'[own'[q].job].kind = own'[q].kind
                           /\ jobs'[own'[q].job].origin = own'[q].origin
                           /\ jobs'[own'[q].job].retry = own'[q].retry
    BY DEF OwnInv
  <2>2. CASE q = p
    <3>1. own'[q] = c BY <1>1, <1>4, <2>2
    <3> QED BY <1>1, <1>5, <2>1, <3>1
  <2>3. CASE q # p
    <3>1. own'[q] = own[q] BY <1>1, <1>4, <2>3
    <3>2. own[q] \in Claims /\ own[q].token \in Nat
      BY <1>1, JobTableAssumption DEF Claims, Tokens, Null
    <3>3. OwnInv(J, claims, own) BY OwnKept DEF IInv
    <3>4. own[q].token <= claims /\ own[q].job \in JobIds /\ own[q].repo \in Repos
      BY <3>1, <3>3 DEF OwnInv
    <3>5. own[q].job = j => jobs'[own[q].job].token # own[q].token
      BY <1>1, <2>1, <3>2, <3>4
    <3>6. own[q].job # j => jobs'[own[q].job] = J[own[q].job]
      BY <2>1, <3>4
    <3> QED BY <1>1, <3>1, <3>2, <3>3, <3>4, <3>5, <3>6 DEF OwnInv
  <2> QED BY <2>2, <2>3
<1> QED BY <1>1, <1>3, <1>7, <1>8

\* The initial states are consistent: both tables are empty.
LEMMA InitIInv ==
  ASSUME Init PROVE IInv
<1>1. NoJob \in Job /\ NoAttempt \in Attempt
  BY DEF NoJob, NoAttempt, Job, Attempt, Null, Kinds, Origins, Categories
<1>2. TypeOK
  BY <1>1, NoClaimOK DEF Init, TypeOK, Schedule, Observation
<1>3. Consistent(jobs, attempts, claims)
  <2>1. \A i \in JobIds : jobs[i] = NoJob
    BY DEF Init
  <2>2. \A a \in Tokens : attempts[a] = NoAttempt
    BY DEF Init
  <2>3. RunningRows(jobs, attempts, claims) /\ QuietRows(jobs) /\ PresentRows(jobs) /\ OneClaim(jobs)
    BY <2>1 DEF RunningRows, QuietRows, PresentRows, OneClaim, NoJob
  <2>4. AttemptRows(jobs, attempts, claims)
    BY <2>2 DEF AttemptRows, NoAttempt, Open
  <2> QED BY <2>3, <2>4 DEF Consistent
<1>4. OwnInv(jobs, claims, own)
  BY DEF Init, OwnInv, NoClaim
<1>5. now # 0
  BY DEF Init
<1> QED BY <1>2, <1>3, <1>4, <1>5 DEF IInv

\* A step that replaces only rows that nobody holds.
LEMMA ResettledStep ==
  ASSUME IInv, Resettled(jobs, jobs'), sched' \in [Repos -> Schedule],
         UNCHANGED <<now, attempts, claims, inventory, own>>
  PROVE  IInv'
<1>1. /\ Tables(jobs, attempts) /\ claims \in Nat /\ Consistent(jobs, attempts, claims)
      /\ OwnInv(jobs, claims, own)
  BY DEF IInv, TypeOK, Tables, Tokens
<1>2. Consistent(jobs', attempts, claims)
  BY <1>1, SettledKeeps DEF Resettled
<1>3. OwnInv(jobs', claims, own)
  BY <1>1, ResettledKept, OwnKept
<1>4. TypeOK'
  BY DEF IInv, TypeOK, Resettled
<1> QED BY <1>2, <1>3, <1>4 DEF IInv

\* A step that changes none of the tables that the queue is made of.
LEMMA QueueUntouched ==
  ASSUME IInv, sched' \in [Repos -> Schedule], inventory' \in [Repos -> Observation],
         now' \in Nat \ {0}, own' \in [Procs -> Claims],
         \A p \in Procs : own'[p] = own[p] \/ own'[p].token = Null,
         UNCHANGED tables
  PROVE  IInv'
<1>1. TypeOK' /\ Consistent(jobs', attempts', claims')
  BY DEF IInv, TypeOK, tables
<1>2. OwnInv(jobs', claims', own')
  BY DEF IInv, OwnInv, tables
<1> QED BY <1>1, <1>2 DEF IInv

LEMMA TickedRows ==
  ASSUME IInv, NEW ids \in [DueSchedules -> JobIds],
         NextIds(jobs, {ids[r] : r \in DueSchedules})
  PROVE  Resettled(jobs, Ticked(ids))
<1>1. jobs \in [JobIds -> Job] /\ now \in Nat
  BY DEF IInv, TypeOK
<1> SUFFICES ASSUME NEW i \in JobIds
             PROVE  /\ Ticked(ids)[i] \in Job
                    /\ \/ Ticked(ids)[i] = jobs[i]
                       \/ jobs[i].state # "running" /\ Settled(Ticked(ids)[i])
  BY DEF Resettled, Ticked
<1>2. CASE \E r \in DOMAIN ids : ids[r] = i
  <2> DEFINE r == CHOOSE s \in DOMAIN ids : ids[s] = i
  <2>1. r \in DueSchedules /\ ids[r] = i
    BY <1>2
  <2>2. Ticked(ids)[i] = Inserted(jobs, i, r, "check", "scheduled", now)[i]
    BY <1>2 DEF Ticked
  <2> HIDE DEF r
  <2>3. jobs[i].state = "absent"
    BY <2>1 DEF NextIds, Exists, JobIds
  <2>4. r \in Repos /\ "check" \in Kinds /\ "scheduled" \in Origins
    BY <2>1 DEF DueSchedules, Kinds, Origins
  <2>5. Settled(Inserted(jobs, i, r, "check", "scheduled", now)[i])
    BY <1>1, <2>4, InsertedRow
  <2> QED BY <2>2, <2>3, <2>5 DEF Settled
<1>3. CASE ~\E r \in DOMAIN ids : ids[r] = i
  BY <1>1, <1>3 DEF Ticked
<1> QED BY <1>2, <1>3

LEMMA TickStep ==
  ASSUME IInv, NEW p \in Procs, Tick(p) PROVE IInv'
<1>1. PICK ids \in [DueSchedules -> JobIds] :
        /\ NextIds(jobs, {ids[r] : r \in DueSchedules})
        /\ jobs' = WithoutJobs(Ticked(ids), Prunable(Ticked(ids), attempts, now - RETENTION))
        /\ attempts' = WithoutAttemptsOf(attempts, Prunable(Ticked(ids), attempts, now - RETENTION))
  BY DEF Tick
<1> DEFINE J == Ticked(ids)
<1> DEFINE gone == Prunable(J, attempts, now - RETENTION)
<1>2. Resettled(jobs, J)
  BY <1>1, TickedRows
<1>3. gone \in SUBSET JobIds /\ \A i \in gone : J[i].state \in Terminal
  BY DEF Prunable
<1>4. jobs' = WithoutJobs(J, gone) /\ attempts' = WithoutAttemptsOf(attempts, gone)
  BY <1>1
<1> HIDE DEF J, gone
<1>5. /\ Tables(jobs, attempts) /\ claims \in Nat /\ Consistent(jobs, attempts, claims)
      /\ OwnInv(jobs, claims, own)
  BY DEF IInv, TypeOK, Tables, Tokens
<1>6. Consistent(J, attempts, claims) /\ Tables(J, attempts)
  BY <1>2, <1>5, SettledKeeps DEF Resettled, Tables
<1>7. Tables(jobs', attempts') /\ Consistent(jobs', attempts', claims)
  BY <1>3, <1>4, <1>5, <1>6, PruneKeeps
<1>8. Kept(J, jobs')
  BY <1>4 DEF Kept, WithoutJobs, NoJob
<1>9. UNCHANGED <<now, claims, sched, inventory, own>>
  BY DEF Tick
<1>10. OwnInv(jobs', claims, own)
  BY <1>2, <1>5, <1>8, ResettledKept, KeptTransitive, OwnKept
<1>11. TypeOK'
  BY <1>7, <1>9 DEF IInv, TypeOK, Tables
<1> QED BY <1>7, <1>9, <1>10, <1>11 DEF IInv

LEMMA ClaimStep ==
  ASSUME IInv, NEW p \in Procs, Claim(p) PROVE IInv'
<1>1. PICK j \in Claimable(RecoveredJobs, now) :
        Take(p, RecoveredJobs, RecoveredAttempts, j)
  BY DEF Claim
<1>2. /\ Tables(RecoveredJobs, RecoveredAttempts)
      /\ Consistent(RecoveredJobs, RecoveredAttempts, claims)
      /\ Kept(jobs, RecoveredJobs)
      /\ RecoveredInventory \in [Repos -> Observation]
  BY RecoverKeeps
<1>3. /\ j \in JobIds /\ RecoveredJobs[j].state = "pending"
      /\ Running(RecoveredJobs, RecoveredJobs[j].repo) = {}
  BY <1>1 DEF Claimable, Blocking, Running
<1>4. /\ Tables(jobs', attempts') /\ Consistent(jobs', attempts', claims')
      /\ claims' \in Tokens \cup {0} /\ own' \in [Procs -> Claims]
      /\ OwnInv(jobs', claims', own')
  BY <1>1, <1>2, <1>3, TakeStep
<1>5. inventory' = RecoveredInventory /\ UNCHANGED <<now, sched>>
  BY DEF Claim
<1>6. TypeOK'
  BY <1>2, <1>4, <1>5 DEF IInv, TypeOK, Tables
<1> QED BY <1>4, <1>5, <1>6 DEF IInv

LEMMA RecoverOnlyStep ==
  ASSUME IInv, NEW p \in Procs, RecoverOnly(p) PROVE IInv'
<1>1. /\ Tables(jobs', attempts') /\ Consistent(jobs', attempts', claims)
      /\ Kept(jobs, jobs') /\ inventory' \in [Repos -> Observation]
      /\ UNCHANGED <<now, claims, sched, own>>
  BY RecoverKeeps DEF RecoverOnly
<1>2. OwnInv(jobs', claims, own)
  BY <1>1, OwnKept DEF IInv
<1>3. TypeOK'
  BY <1>1 DEF IInv, TypeOK, Tables
<1> QED BY <1>1, <1>2, <1>3 DEF IInv

LEMMA ImmediateStep ==
  ASSUME IInv, NEW p \in Procs, NEW r \in Repos, NEW kind \in Kinds,
         Immediate(p, r, kind)
  PROVE  IInv'
<1> DEFINE kinds == IF kind = "fetch" THEN Kinds ELSE {kind}
<1> DEFINE J == RecoveredJobs
<1> DEFINE A == RecoveredAttempts
<1> DEFINE kept == Cancelled(J, r, Origins, kinds, now)
<1>1. PICK i \in JobIds :
        /\ NextIds(kept, {i})
        /\ Take(p, Inserted(kept, i, r, kind, "manual", now), A, i)
  BY DEF Immediate
<1>2. /\ ~Busy(J, r) /\ inventory' = RecoveredInventory /\ UNCHANGED <<now, sched>>
  BY DEF Immediate
<1>3. /\ Tables(J, A) /\ Consistent(J, A, claims) /\ Kept(jobs, J)
      /\ RecoveredInventory \in [Repos -> Observation]
      /\ now \in Nat /\ claims \in Nat
  BY RecoverKeeps DEF IInv, TypeOK, Tokens
<1> HIDE DEF kinds, J, A
<1>4. Resettled(J, kept)
  BY <1>3, CancelledRows DEF Tables, Consistent
<1> DEFINE J2 == Inserted(kept, i, r, kind, "manual", now)
<1>5. kept \in [JobIds -> Job] /\ kept[i].state = "absent"
  BY <1>1, <1>4 DEF NextIds, Exists, JobIds, Resettled
<1>6. \A k \in JobIds : kept[k].repo = r /\ kept[k].state = "running" => FALSE
  <2>1. \A k \in JobIds : kept[k].state = "running" => kept[k] = J[k]
    BY <1>4 DEF Resettled, Settled, Terminal
  <2> QED BY <1>2, <2>1 DEF Busy, InFlight
<1> HIDE DEF kept
<1>7. /\ J2 \in [JobIds -> Job] /\ Settled(J2[i]) /\ J2[i].state = "pending"
      /\ J2[i].repo = r /\ \A k \in JobIds \ {i} : J2[k] = kept[k]
  BY <1>3, <1>5, InsertedRow DEF Origins
<1>8. Take(p, J2, A, i)
  BY <1>1
<1> HIDE DEF J2
<1>9. Resettled(kept, J2)
  BY <1>5, <1>7 DEF Resettled
<1>10. Consistent(kept, A, claims) /\ Tables(kept, A)
  BY <1>3, <1>4, SettledKeeps DEF Resettled, Tables
<1>11. Consistent(J2, A, claims) /\ Tables(J2, A)
  BY <1>3, <1>9, <1>10, SettledKeeps DEF Resettled, Tables
<1>12. Kept(jobs, J2)
  BY <1>3, <1>4, <1>9, ResettledKept, KeptTransitive
<1>13. Running(J2, J2[i].repo) = {}
  BY <1>6, <1>7 DEF Running
<1>14. /\ Tables(jobs', attempts') /\ Consistent(jobs', attempts', claims')
       /\ claims' \in Tokens \cup {0} /\ own' \in [Procs -> Claims]
       /\ OwnInv(jobs', claims', own')
  BY <1>7, <1>8, <1>11, <1>12, <1>13, TakeStep
<1>15. TypeOK'
  BY <1>2, <1>3, <1>14 DEF IInv, TypeOK, Tables
<1> QED BY <1>2, <1>14, <1>15 DEF IInv

\* What a valid claim says of the tables.
LEMMA OwnedRow ==
  ASSUME IInv, NEW p \in Procs, Owns(p)
  PROVE  /\ own[p].job \in JobIds /\ own[p].repo \in Repos /\ own[p] \in Claims
         /\ own[p].token \in Tokens
         /\ jobs[own[p].job] \in Job
         /\ jobs[own[p].job].state = "running" /\ jobs[own[p].job].token = own[p].token
         /\ jobs[own[p].job].repo = own[p].repo
BY DEF IInv, TypeOK, OwnInv, Owns, Idle, Valid, Claims, Null

LEMMA HeartbeatStep ==
  ASSUME IInv, NEW p \in Procs, Heartbeat(p) PROVE IInv'
<1> DEFINE j == own[p].job
<1> DEFINE row == jobs[j]
<1> DEFINE row2 == [row EXCEPT !.lease = now + LEASE_SECONDS]
<1>1. /\ Owns(p) /\ UNCHANGED <<now, attempts, claims, sched, inventory, own>>
      /\ jobs' = [jobs EXCEPT ![j].lease = now + LEASE_SECONDS]
  BY DEF Heartbeat
<1>2. j \in JobIds /\ row \in Job /\ row.state = "running" /\ row.token # Null
  BY <1>1, OwnedRow DEF Owns, Valid
<1>3. jobs \in [JobIds -> Job] /\ now \in Nat /\ claims \in Nat
  BY DEF IInv, TypeOK, Tokens
<1>4. jobs' = [jobs EXCEPT ![j] = row2]
  BY <1>1, <1>2, <1>3
<1>5. now + LEASE_SECONDS \in Nat
  BY <1>3, JobTableAssumption
<1>6. /\ row2 \in Job /\ row2.state = row.state /\ row2.token = row.token
      /\ row2.repo = row.repo /\ row2.kind = row.kind /\ row2.origin = row.origin
      /\ row2.retry = row.retry
  <2> HIDE DEF row
  <2> QED BY <1>2, <1>5 DEF Job
<1> HIDE DEF row2
<1>7. jobs' \in [JobIds -> Job]
  BY <1>3, <1>4, <1>6
<1>8. \A i \in JobIds :
        /\ jobs'[i].state = jobs[i].state /\ jobs'[i].token = jobs[i].token
        /\ jobs'[i].repo = jobs[i].repo /\ jobs'[i].kind = jobs[i].kind
        /\ jobs'[i].origin = jobs[i].origin /\ jobs'[i].retry = jobs[i].retry
        /\ jobs[i].state # "running" => jobs'[i].lease = jobs[i].lease
  BY <1>2, <1>3, <1>4, <1>6
<1>9. Consistent(jobs', attempts, claims)
  <2>1. Consistent(jobs, attempts, claims)
    BY DEF IInv
  <2>2. RunningRows(jobs', attempts, claims) /\ QuietRows(jobs')
    BY <1>8, <2>1 DEF Consistent, RunningRows, QuietRows
  <2>3. PresentRows(jobs') /\ OneClaim(jobs')
    BY <1>8, <2>1 DEF Consistent, PresentRows, OneClaim
  <2>4. \A a \in Tokens : attempts[a].job # Null => attempts[a].job \in JobIds
    BY DEF IInv, TypeOK, Attempt
  <2>5. AttemptRows(jobs', attempts, claims)
    BY <1>8, <2>1, <2>4 DEF Consistent, AttemptRows, Open
  <2> QED BY <2>2, <2>3, <2>5 DEF Consistent
<1>10. OwnInv(jobs', claims, own)
  BY <1>8 DEF IInv, OwnInv
<1>11. TypeOK'
  BY <1>1, <1>7 DEF IInv, TypeOK
<1> QED BY <1>1, <1>9, <1>10, <1>11 DEF IInv

\* The row that finish leaves behind.
LEMMA FinishedRow ==
  ASSUME NEW J \in [JobIds -> Job], NEW j \in JobIds, J[j].repo # Null,
         NEW state \in {"pending"} \cup Terminal, NEW due \in Nat, NEW retry \in Nat,
         NEW t \in Nat
  PROVE  /\ Finished(J, j, state, due, retry, t) \in [JobIds -> Job]
         /\ Settled(Finished(J, j, state, due, retry, t)[j])
         /\ Finished(J, j, state, due, retry, t)[j].state = state
         /\ Finished(J, j, state, due, retry, t)[j].repo = J[j].repo
         /\ Finished(J, j, state, due, retry, t)[j].origin = J[j].origin
         /\ Finished(J, j, state, due, retry, t)[j].kind = J[j].kind
         /\ Finished(J, j, state, due, retry, t)[j].retry = retry
         /\ \A i \in JobIds \ {j} : Finished(J, j, state, due, retry, t)[i] = J[i]
<1> DEFINE row == J[j]
<1> DEFINE finished == IF state = "pending" THEN Null ELSE t
<1> DEFINE row2 == [row EXCEPT !.state = state, !.due = due, !.retry = retry,
                               !.finished = finished, !.token = Null, !.lease = Null]
<1>1. row \in Job /\ row.repo # Null /\ finished \in Nat
  BY DEF Null
<1>2. Finished(J, j, state, due, retry, t) = [J EXCEPT ![j] = row2]
  BY DEF Finished, Job
<1>3. /\ row2 \in Job /\ row2.state = state /\ row2.repo = row.repo
      /\ row2.origin = row.origin /\ row2.kind = row.kind /\ row2.retry = retry
      /\ row2.token = Null /\ row2.lease = Null
  <2> HIDE DEF row, finished
  <2> QED BY <1>1 DEF Job, Null, Terminal
<1> HIDE DEF row2
<1>4. Settled(row2)
  BY <1>1, <1>3 DEF Settled
<1> QED BY <1>2, <1>3, <1>4

\* Letting a claim go is remembered by its owner alone.
LEMMA OwnReleased ==
  ASSUME IInv, NEW p \in Procs, own' = [own EXCEPT ![p] = NoClaim]
  PROVE  /\ own' \in [Procs -> Claims]
         /\ \A q \in Procs : own'[q] = own[q] \/ own'[q].token = Null
BY NoClaimOK DEF IInv, TypeOK, NoClaim

\* What finish makes of the tables: the job is given back, and a follow-up may be
\* queued.
FinishesTo(p, category, finished) ==
  LET j == own[p].job
  IN  /\ finished \in [JobIds -> Job]
      /\ Settled(finished[j])
      /\ finished[j].repo = own[p].repo /\ finished[j].origin = own[p].origin
      /\ finished[j].kind = own[p].kind
      /\ finished[j].state = "succeeded" <=> category = "none"
      /\ finished[j].state = "cancelled" => Orphaned(own[p].origin, own[p].repo)
      /\ finished[j].retry = IF category = "transport" /\ own[p].retry < Len(RETRIES)
                             THEN own[p].retry + 1 ELSE own[p].retry
      /\ \A i \in JobIds \ {j} : finished[i] = jobs[i]
      /\ Consistent(finished, attempts', claims)
      /\ \/ jobs' = finished
         \/ /\ Enqueued(finished, jobs', own[p].repo, "fetch", "scheduled", now)
            /\ own[p].origin = "scheduled" /\ finished[j].state # "pending"

LEMMA FinishTables ==
  ASSUME IInv, NEW p \in Procs, NEW category \in Categories, Finish(p, category)
  PROVE  /\ attempts' \in [Tokens -> Attempt]
         /\ \E finished : FinishesTo(p, category, finished)
<1> DEFINE c == own[p]
<1> DEFINE retried == category = "transport" /\ c.retry < Len(RETRIES)
<1> DEFINE retry == IF retried THEN c.retry + 1 ELSE c.retry
<1> DEFINE outcome == IF category = "none" THEN "succeeded" ELSE "failed"
<1> DEFINE deferred == category \in {"busy", "unavailable"}
<1> DEFINE state == IF deferred \/ retried
                    THEN IF Orphaned(c.origin, c.repo) THEN "cancelled" ELSE "pending"
                    ELSE IF category = "none" THEN "succeeded" ELSE "failed"
<1> DEFINE due == now + (IF deferred THEN DEFER
                         ELSE IF retried THEN RETRIES[c.retry + 1] ELSE 0)
<1> DEFINE finished == Finished(jobs, c.job, state, due, retry, now)
<1>1. /\ c \in Claims /\ c.job \in JobIds /\ c.repo \in Repos
      /\ jobs[c.job].state = "running" /\ jobs[c.job].repo = c.repo
      /\ jobs[c.job].token = c.token /\ c.token # Null
  BY OwnedRow DEF Finish, Owns, Idle
<1>2. /\ now \in Nat \ {0} /\ claims \in Nat
      /\ jobs \in [JobIds -> Job] /\ attempts \in [Tokens -> Attempt]
      /\ Tables(jobs, attempts) /\ Consistent(jobs, attempts, claims)
  BY DEF IInv, TypeOK, Tables, Tokens
<1>3. jobs[c.job].origin = c.origin /\ jobs[c.job].kind = c.kind
  BY <1>1 DEF IInv, OwnInv
<1>4. retry \in Nat /\ (retried => RETRIES[c.retry + 1] \in Nat)
  BY <1>1, JobTableAssumption DEF Claims
<1>5. due \in Nat
  BY <1>2, <1>4, JobTableAssumption
<1>6. /\ state \in {"pending"} \cup Terminal
      /\ state = "succeeded" <=> category = "none"
      /\ state = "cancelled" => Orphaned(c.origin, c.repo)
  BY DEF Terminal
<1>7. \/ jobs' = finished
      \/ /\ Enqueued(finished, jobs', c.repo, "fetch", "scheduled", now)
         /\ c.origin = "scheduled" /\ state # "pending"
  BY DEF Finish
<1>8. attempts' = Closed(attempts, {c.job}, outcome, category, now)
  BY DEF Finish
<1> HIDE DEF c, state, due, retry, retried, deferred, outcome
<1>9. jobs[c.job].repo # Null
  BY <1>1, NullRow
<1>10. /\ finished \in [JobIds -> Job] /\ Settled(finished[c.job])
       /\ finished[c.job].repo = c.repo /\ finished[c.job].origin = c.origin
       /\ finished[c.job].kind = c.kind /\ finished[c.job].state = state
       /\ finished[c.job].retry = retry
       /\ \A i \in JobIds \ {c.job} : finished[i] = jobs[i]
  <2>1. now \in Nat /\ c.job \in JobIds /\ jobs \in [JobIds -> Job] /\ retry \in Nat
    BY <1>1, <1>2, <1>4
  <2>2. /\ finished \in [JobIds -> Job] /\ Settled(finished[c.job])
        /\ finished[c.job].repo = jobs[c.job].repo
        /\ finished[c.job].origin = jobs[c.job].origin
        /\ finished[c.job].kind = jobs[c.job].kind
        /\ finished[c.job].state = state /\ finished[c.job].retry = retry
        /\ \A i \in JobIds \ {c.job} : finished[i] = jobs[i]
    BY <1>5, <1>6, <1>9, <2>1, FinishedRow
  <2> QED BY <1>1, <1>3, <2>2
<1>11. attempts' \in [Tokens -> Attempt]
  BY <1>2, <1>8, ClosedAttempts DEF outcome
<1> HIDE DEF finished
<1>12. Consistent(finished, attempts', claims)
  <2>1. {c.job} \in SUBSET JobIds /\ \A i \in {c.job} : jobs[i].state = "running" /\ Settled(finished[i])
    BY <1>1, <1>10
  <2> QED BY <1>2, <1>8, <1>10, <2>1, ReleaseKeeps
<1>13. FinishesTo(p, category, finished)
  <2>1. /\ finished[c.job].state = "succeeded" <=> category = "none"
        /\ finished[c.job].state = "cancelled" => Orphaned(c.origin, c.repo)
    BY <1>6, <1>10
  <2> QED BY <1>7, <1>10, <1>12, <2>1 DEF FinishesTo, c, retry, retried
<1> QED BY <1>11, <1>13

LEMMA FinishResettled ==
  ASSUME IInv, NEW p \in Procs, NEW category, NEW finished, FinishesTo(p, category, finished), Owns(p)
  PROVE  Resettled(finished, jobs')
<1>1. own[p].repo \in Repos /\ now \in Nat
  BY OwnedRow DEF IInv, TypeOK
<1> QED BY <1>1, EnqueuedRows DEF FinishesTo, Resettled, Consistent, Kinds, Origins

LEMMA FinishStep ==
  ASSUME IInv, NEW p \in Procs, NEW category \in Categories, Finish(p, category)
  PROVE  IInv'
<1> DEFINE c == own[p]
<1> DEFINE s == sched[c.repo]
<1>1. Owns(p) /\ c.repo \in Repos
  BY OwnedRow DEF Finish
<1>2. now \in Nat \ {0} /\ claims \in Nat
  BY DEF IInv, TypeOK, Tokens
<1>3. own' = [own EXCEPT ![p] = NoClaim] /\ UNCHANGED <<now, claims, inventory>>
  BY DEF Finish
<1>4. attempts' \in [Tokens -> Attempt]
  BY FinishTables
<1>5. PICK finished : FinishesTo(p, category, finished)
  BY FinishTables
<1>6. Resettled(finished, jobs')
  BY <1>1, <1>5, FinishResettled
<1>7. sched' \in [Repos -> Schedule]
  <2>1. sched \in [Repos -> Schedule] /\ s \in Schedule
    BY <1>1 DEF IInv, TypeOK
  <2>2. CASE c.kind = "convert" BY <2>1, <2>2 DEF Finish
  <2>3. CASE c.kind # "convert"
    <3>1. PICK blocked \in BOOLEAN, next \in Nat :
            sched' = [sched EXCEPT ![c.repo] = [s EXCEPT !.blocked = blocked, !.next = next]]
      <4> DEFINE b == IF s.state = "none" THEN s.blocked
                      ELSE IF category = "structural" THEN TRUE
                      ELSE IF category = "none" THEN FALSE ELSE s.blocked
      <4>1. b \in BOOLEAN /\ s.next \in Nat /\ now + s.interval \in Nat
        <5> DEFINE t == s
        <5>1. t \in Schedule /\ now \in Nat BY <1>2, <2>1
        <5> HIDE DEF t
        <5>2. t.blocked \in BOOLEAN /\ t.next \in Nat /\ t.interval \in Nat
          BY <5>1 DEF Schedule
        <5>3. b \in {s.blocked, TRUE, FALSE}
          OBVIOUS
        <5>4. b \in BOOLEAN
          BY <5>2, <5>3 DEF t
        <5>5. s.next \in Nat /\ now + s.interval \in Nat
          BY <5>1, <5>2 DEF t
        <5> QED BY <5>4, <5>5
      <4>2. \E n \in {s.next, now + s.interval} :
              sched' = [sched EXCEPT ![c.repo] = [s EXCEPT !.blocked = b, !.next = n]]
        BY <2>1, <2>3 DEF Finish, Schedule
      <4> QED BY <4>1, <4>2
    <3> DEFINE t == s
    <3>2. [t EXCEPT !.blocked = blocked, !.next = next] \in Schedule
      <4>1. t \in Schedule BY <2>1
      <4> HIDE DEF t
      <4> QED BY <4>1 DEF Schedule
    <3> QED BY <2>1, <3>1, <3>2
  <2> QED BY <2>2, <2>3
<1> HIDE DEF c, s
<1>8. Consistent(jobs', attempts', claims) /\ jobs' \in [JobIds -> Job]
  BY <1>2, <1>4, <1>5, <1>6, SettledKeeps DEF Resettled, Tables, FinishesTo
<1>9. OwnInv(jobs', claims, own')
  <2>1. Kept(jobs, finished)
    BY <1>5 DEF Kept, Settled, FinishesTo
  <2> QED BY <1>3, <1>6, <2>1, OwnReleased, ResettledKept, KeptTransitive, OwnKept DEF IInv
<1>10. TypeOK'
  BY <1>3, <1>4, <1>7, <1>8, OwnReleased DEF IInv, TypeOK
<1> QED BY <1>3, <1>8, <1>9, <1>10 DEF IInv

LEMMA InterruptStep ==
  ASSUME IInv, NEW p \in Procs, Interrupt(p) PROVE IInv'
<1> DEFINE c == own[p]
<1> DEFINE gone == IF Orphaned(c.origin, c.repo) THEN {c.job} ELSE {}
<1>1. /\ c.job \in JobIds /\ c.repo \in Repos /\ jobs[c.job].state = "running"
  BY OwnedRow DEF Interrupt
<1>2. /\ now \in Nat \ {0} /\ now \in Nat /\ claims \in Nat
      /\ jobs \in [JobIds -> Job] /\ attempts \in [Tokens -> Attempt]
      /\ Tables(jobs, attempts) /\ Consistent(jobs, attempts, claims)
  BY DEF IInv, TypeOK, Tables, Tokens
<1>3. /\ jobs' = Interrupted(jobs, {c.job}, gone, now)
      /\ attempts' = Closed(attempts, {c.job}, "interrupted", "interrupted", now)
      /\ own' = [own EXCEPT ![p] = NoClaim]
      /\ UNCHANGED <<now, claims, sched>>
  BY DEF Interrupt
<1>4. inventory' \in [Repos -> Observation]
  <2>1. inventory' = [inventory EXCEPT ![c.repo].reconcile = TRUE]
    BY DEF Interrupt
  <2> QED BY <1>1, <2>1 DEF IInv, TypeOK, Observation
<1> DEFINE js == {c.job}
<1> HIDE DEF c, gone
<1>5. js \in SUBSET JobIds /\ \A i \in js : jobs[i].state = "running"
  BY <1>1
<1>6. /\ jobs' = Interrupted(jobs, js, gone, now)
      /\ attempts' = Closed(attempts, js, "interrupted", "interrupted", now)
  BY <1>3
<1> HIDE DEF js
<1>7. /\ jobs' \in [JobIds -> Job] /\ \A i \in js : Settled(jobs'[i])
      /\ \A i \in JobIds \ js : jobs'[i] = jobs[i]
  <2>1. PresentRows(jobs) /\ jobs \in [JobIds -> Job] /\ now \in Nat
    BY <1>2 DEF Consistent
  <2> DEFINE J2 == Interrupted(jobs, js, gone, now)
  <2>2. /\ J2 \in [JobIds -> Job] /\ \A i \in js : Settled(J2[i])
        /\ \A i \in JobIds \ js : J2[i] = jobs[i]
    BY <1>5, <2>1, InterruptedRows
  <2>3. jobs' = J2 BY <1>6
  <2> HIDE DEF J2
  <2> QED BY <2>2, <2>3
<1>8. attempts' \in [Tokens -> Attempt]
  BY <1>2, <1>6, ClosedAttempts DEF Categories
<1>9. Consistent(jobs', attempts', claims)
  BY <1>2, <1>6, <1>5, <1>7, ReleaseKeeps
<1>10. OwnInv(jobs', claims, own')
  <2>1. Kept(jobs, jobs')
    BY <1>7 DEF Kept, Settled
  <2> QED BY <1>3, <2>1, OwnReleased, OwnKept DEF IInv
<1>11. TypeOK'
  BY <1>3, <1>4, <1>7, <1>8, OwnReleased DEF IInv, TypeOK
<1> QED BY <1>3, <1>9, <1>10, <1>11 DEF IInv

\* Every step keeps the invariant: one step here per action.
LEMMA StepIInv ==
  ASSUME IInv, [Next]_vars PROVE IInv'
<1>1. /\ sched \in [Repos -> Schedule] /\ inventory \in [Repos -> Observation]
      /\ now \in Nat \ {0} /\ own \in [Procs -> Claims]
      /\ jobs \in [JobIds -> Job] /\ QuietRows(jobs) /\ PresentRows(jobs)
  BY DEF IInv, TypeOK, Consistent
<1>2. CASE ClockAdvances
  <2>1. now' \in Nat \ {0} BY <1>1, <1>2 DEF ClockAdvances
  <2> QED BY <1>1, <1>2, <2>1, QueueUntouched DEF ClockAdvances
<1>3. ASSUME NEW r \in Repos, NEW kind \in Requests, Enqueue(r, kind) PROVE IInv'
  <2>1. kind \in Kinds BY SchedulerAssumption
  <2>2. Resettled(jobs, jobs')
    BY <1>1, <1>3, <2>1, EnqueuedRows DEF Enqueue, Origins
  <2> QED BY <1>1, <1>3, <2>2, ResettledStep DEF Enqueue
<1>4. ASSUME NEW r \in Repos, Unqueue(r) PROVE IInv'
  <2>1. Resettled(jobs, jobs')
    BY <1>1, <1>4, CancelledRows DEF Unqueue
  <2> QED BY <1>1, <1>4, <2>1, ResettledStep DEF Unqueue
<1>5. ASSUME NEW r \in Repos, NEW interval \in Intervals, EnableSchedule(r, interval)
      PROVE  IInv'
  <2>1. sched' \in [Repos -> Schedule]
    BY <1>1, <1>5, SchedulerAssumption DEF EnableSchedule, Schedule
  <2> QED BY <1>1, <1>5, <2>1, QueueUntouched DEF EnableSchedule
<1>6. ASSUME NEW r \in Repos, DisableSchedule(r) PROVE IInv'
  <2>1. sched' \in [Repos -> Schedule]
    <3> DEFINE s == sched[r]
    <3>1. PICK state \in {"none", "disabled"} :
            sched' = [sched EXCEPT ![r] = [s EXCEPT !.state = state]]
      BY <1>1, <1>6 DEF DisableSchedule
    <3>2. s \in Schedule BY <1>1
    <3> HIDE DEF s
    <3>3. [s EXCEPT !.state = state] \in Schedule BY <3>2 DEF Schedule
    <3> QED BY <1>1, <3>1, <3>3
  <2>2. Resettled(jobs, jobs')
    BY <1>1, <1>6, CancelledRows DEF DisableSchedule
  <2> QED BY <1>6, <2>1, <2>2, ResettledStep DEF DisableSchedule
<1>7. ASSUME NEW r \in Repos, NEW p \in Procs, NEW kind \in Commands, Immediate(p, r, kind)
      PROVE  IInv'
  <2>1. kind \in Kinds BY SchedulerAssumption DEF Kinds
  <2> QED BY <1>7, <2>1, ImmediateStep
<1>8. ASSUME NEW p \in Procs, Tick(p) PROVE IInv'
  BY <1>8, TickStep
<1>9. ASSUME NEW p \in Procs, Claim(p) PROVE IInv'
  BY <1>9, ClaimStep
<1>10. ASSUME NEW p \in Procs, RecoverOnly(p) PROVE IInv'
  BY <1>10, RecoverOnlyStep
<1>11. ASSUME NEW p \in Procs, Heartbeat(p) PROVE IInv'
  BY <1>11, HeartbeatStep
<1>12. ASSUME NEW p \in Procs, MarkUncertain(p) PROVE IInv'
  <2>1. inventory' \in [Repos -> Observation]
    <3> DEFINE r == own[p].repo
    <3> DEFINE row == inventory[r]
    <3> DEFINE row2 == [row EXCEPT !.reconcile = TRUE]
    <3>1. r \in Repos /\ row \in Observation
      BY <1>1, <1>12, OwnedRow DEF MarkUncertain
    <3>2. inventory' = [inventory EXCEPT ![r] = row2]
      BY <1>12 DEF MarkUncertain
    <3>3. row2 \in Observation
      <4> HIDE DEF row
      <4> QED BY <3>1 DEF Observation
    <3> HIDE DEF r, row2
    <3> QED BY <1>1, <3>1, <3>2, <3>3
  <2> QED BY <1>1, <1>12, <2>1, QueueUntouched DEF MarkUncertain
<1>13. ASSUME NEW p \in Procs, NEW status \in Statuses, PublishLocal(p, status) PROVE IInv'
  <2>1. inventory' \in [Repos -> Observation]
    BY <1>1, <1>13, SchedulerAssumption DEF PublishLocal, Observation
  <2> QED BY <1>1, <1>13, <2>1, QueueUntouched DEF PublishLocal
<1>14. ASSUME NEW p \in Procs, NEW status \in Statuses, PublishRemote(p, status) PROVE IInv'
  <2>1. inventory' \in [Repos -> Observation]
    BY <1>1, <1>14, SchedulerAssumption DEF PublishRemote, Observation
  <2> QED BY <1>1, <1>14, <2>1, QueueUntouched DEF PublishRemote
<1>15. ASSUME NEW p \in Procs, NEW category \in Outcomes, Finish(p, category) PROVE IInv'
  <2>1. category \in Categories BY SchedulerAssumption
  <2> QED BY <1>15, <2>1, FinishStep
<1>16. ASSUME NEW p \in Procs, Interrupt(p) PROVE IInv'
  BY <1>16, InterruptStep
<1>17. ASSUME NEW p \in Procs, LoseClaim(p) \/ Crash(p) PROVE IInv'
  <2>1. own' = [own EXCEPT ![p] = NoClaim] /\ UNCHANGED <<now, tables, sched, inventory>>
    BY <1>17 DEF LoseClaim, Crash
  <2> QED BY <1>1, <2>1, OwnReleased, QueueUntouched
<1>18. CASE UNCHANGED vars
  BY <1>1, <1>18, QueueUntouched DEF vars, tables
<1> QED
  BY <1>2, <1>3, <1>4, <1>5, <1>6, <1>7, <1>8, <1>9, <1>10, <1>11, <1>12, <1>13,
     <1>14, <1>15, <1>16, <1>17, <1>18 DEF Next

---------------------------------------------------------------------------
(* Theorems *)

\* The tables, the claims and the schedules agree in every reachable state.
THEOREM Invariant == Spec => []IInv
<1>1. Init => IInv
  BY InitIInv
<1>2. IInv /\ [Next]_vars => IInv'
  BY StepIInv
<1> QED BY <1>1, <1>2, PTL DEF Spec

\* Type correctness: no transaction stores a value its column may not have.
THEOREM TypeCorrect == Spec => []TypeOK
<1>1. IInv => TypeOK
  BY DEF IInv
<1> QED BY <1>1, Invariant, PTL

\* No two processes ever hold the same repository's running job: claim_in and
\* immediate never violate the unique index running_repository.
THEOREM OneRunningAlways == Spec => []OneRunning
<1>1. IInv => OneRunning
  BY DEF IInv, Consistent, OneClaim, OneRunning
<1> QED BY <1>1, Invariant, PTL

\* A job runs exactly while the attempt of its token is open, across crashes,
\* expiry, interruption, retries and the expiry of history.
THEOREM OneOpenAttemptAlways == Spec => []OneOpenAttempt
<1>1. IInv => OneOpenAttempt
  <2> SUFFICES ASSUME IInv PROVE OneOpenAttempt
    OBVIOUS
  <2>1. Consistent(jobs, attempts, claims)
    BY DEF IInv
  <2>2. ASSUME NEW i \in JobIds, jobs[i].state = "running"
        PROVE  /\ jobs[i].token # Null
               /\ Open(attempts, jobs[i].token)
               /\ attempts[jobs[i].token].job = i
               /\ attempts[jobs[i].token].kind = jobs[i].kind
    <3>1. /\ jobs[i].token \in Tokens
          /\ attempts[jobs[i].token].job = i
          /\ attempts[jobs[i].token].kind = jobs[i].kind
          /\ attempts[jobs[i].token].finished = Null
      BY <2>1, <2>2 DEF Consistent, RunningRows
    <3> QED BY <3>1, NullRow DEF Open
  <2>3. ASSUME NEW i \in JobIds, jobs[i].state # "running"
        PROVE  jobs[i].token = Null /\ jobs[i].lease = Null
    BY <2>1, <2>3 DEF Consistent, QuietRows
  <2>4. \A a \in Tokens : Open(attempts, a) => jobs[attempts[a].job].token = a
    BY <2>1 DEF Consistent, AttemptRows
  <2> QED BY <2>2, <2>3, <2>4 DEF OneOpenAttempt
<1> QED BY <1>1, Invariant, PTL

\* finish and interrupt never decide by a stale copy of the job: while a claim
\* lasts, the row is as it was when it was claimed.
THEOREM SnapshotCurrentAlways == Spec => []SnapshotCurrent
<1>1. IInv => SnapshotCurrent
  BY DEF IInv, OwnInv, SnapshotCurrent, Idle
<1> QED BY <1>1, Invariant, PTL

---------------------------------------------------------------------------
(***************************************************************************)
(* What a step may never do; the order of the work of one repository, its  *)
(* retry budget, and that Scheduler implements Lease.  Each theorem below  *)
(* follows from the inductive invariant and an analysis of one step.       *)
(***************************************************************************)

\* The inventory of repository r changes as fencing allows.
FencedChange(r) ==
  \/ \E p \in Procs : /\ own[p].token # Null /\ own[p].repo = r
                      /\ jobs[own[p].job].token = own[p].token
                      /\ jobs[own[p].job].lease > now
  \/ /\ inventory'[r] = [inventory[r] EXCEPT !.reconcile = TRUE]
     /\ \E i \in JobIds : /\ jobs[i].repo = r /\ jobs[i].state = "running"
                          /\ jobs[i].lease <= now

LEMMA RecoveryFenced ==
  ASSUME IInv, inventory' = RecoveredInventory, NEW r \in Repos,
         inventory'[r] # inventory[r]
  PROVE  FencedChange(r)
BY DEF RecoveredInventory, ExpiredJobs, Expired, FencedChange

LEMMA OwnerFenced ==
  ASSUME IInv, NEW p \in Procs, Owns(p), NEW o, NEW r \in Repos,
         inventory' = [inventory EXCEPT ![own[p].repo] = o],
         inventory'[r] # inventory[r]
  PROVE  FencedChange(r)
<1>1. r = own[p].repo
  BY DEF IInv, TypeOK
<1> QED BY <1>1 DEF FencedChange, Owns, Idle, Valid

\* Fencing: only a live claim on a repository, or the recovery of an expired
\* one, ever changes what the inventory says of it.
THEOREM FencedInventoryAlways == Spec => FencedInventory
<1>1. ASSUME IInv, [Next]_vars, NEW r \in Repos, inventory'[r] # inventory[r]
      PROVE  FencedChange(r)
  <2> USE <1>1
  <2>1. ASSUME NEW p \in Procs, Claim(p) \/ RecoverOnly(p) PROVE FencedChange(r)
    BY <2>1, RecoveryFenced DEF Claim, RecoverOnly
  <2>2. ASSUME NEW q \in Repos, NEW p \in Procs, NEW kind \in Commands, Immediate(p, q, kind)
        PROVE  FencedChange(r)
    BY <2>2, RecoveryFenced DEF Immediate
  <2>3. ASSUME NEW p \in Procs, MarkUncertain(p) \/ Interrupt(p) PROVE FencedChange(r)
    <3>1. Owns(p) /\ inventory' = [inventory EXCEPT ![own[p].repo] =
                                     [inventory[own[p].repo] EXCEPT !.reconcile = TRUE]]
      BY <2>3 DEF MarkUncertain, Interrupt
    <3> QED BY <3>1, OwnerFenced
  <2>4. ASSUME NEW p \in Procs, NEW status \in Statuses,
               PublishLocal(p, status) \/ PublishRemote(p, status)
        PROVE  FencedChange(r)
    <3>1. PICK o : Owns(p) /\ inventory' = [inventory EXCEPT ![own[p].repo] = o]
      BY <2>4 DEF PublishLocal, PublishRemote
    <3> QED BY <3>1, OwnerFenced
  <2>5. ClockAdvances => UNCHANGED inventory
    BY DEF ClockAdvances
  <2>6. \A q \in Repos :
          /\ \A kind \in Requests : Enqueue(q, kind) => UNCHANGED inventory
          /\ Unqueue(q) => UNCHANGED inventory
          /\ \A interval \in Intervals : EnableSchedule(q, interval) => UNCHANGED inventory
          /\ DisableSchedule(q) => UNCHANGED inventory
    BY DEF Enqueue, Unqueue, EnableSchedule, DisableSchedule
  <2>7. \A p \in Procs :
          /\ Tick(p) \/ Heartbeat(p) \/ LoseClaim(p) \/ Crash(p) => UNCHANGED inventory
          /\ \A category \in Outcomes : Finish(p, category) => UNCHANGED inventory
    BY DEF Tick, Heartbeat, LoseClaim, Crash, Finish
  <2> QED BY <2>1, <2>2, <2>3, <2>4, <2>5, <2>6, <2>7 DEF Next, vars
<1>2. IInv /\ [Next]_vars =>
        (\A r \in Repos : inventory'[r] # inventory[r] => FencedChange(r))
  BY <1>1
<1> QED BY <1>2, Invariant, PTL DEF Spec, FencedInventory, FencedChange

---------------------------------------------------------------------------
(* Automatic work and its schedule *)

\* A job that waits on behalf of a schedule which is not enabled in S.
OrphanRow(row, S) ==
  row.state = "pending" /\ row.origin = "scheduled" /\ S[row.repo].state # "enabled"

LEMMA CancelledOrphans ==
  ASSUME NEW J \in [JobIds -> Job], NEW r, NEW origins, NEW kinds, NEW t, NEW S,
         NEW i \in JobIds, OrphanRow(Cancelled(J, r, origins, kinds, t)[i], S)
  PROVE  Cancelled(J, r, origins, kinds, t)[i] = J[i]
<1> DEFINE J2 == Cancelled(J, r, origins, kinds, t)
<1> DEFINE row == J[i]
<1>1. row \in Job OBVIOUS
<1>2. J2[i] = row \/ J2[i] = [row EXCEPT !.state = "cancelled", !.finished = t]
  BY DEF Cancelled
<1> HIDE DEF row, J2
<1>3. [row EXCEPT !.state = "cancelled", !.finished = t].state = "cancelled"
  BY <1>1 DEF Job
<1>4. OrphanRow(J2[i], S) BY DEF J2
<1>5. J2[i] = row BY <1>2, <1>3, <1>4 DEF OrphanRow
<1> QED BY <1>5 DEF row, J2

\* An orphan after a request was queued was one before, unless the request is
\* an orphan itself.
LEMMA EnqueuedOrphans ==
  ASSUME NEW J \in [JobIds -> Job], NEW J2, NEW r \in Repos, NEW kind \in Kinds,
         NEW origin \in Origins, NEW t \in Nat, NEW S, Enqueued(J, J2, r, kind, origin, t),
         origin = "scheduled" => S[r].state = "enabled",
         NEW i \in JobIds, OrphanRow(J2[i], S)
  PROVE  OrphanRow(J[i], S)
<1>1. CASE \E k \in JobIds : /\ Absorbs(J, k, r, kind)
                             /\ J2 = [J EXCEPT ![k] = Merged(@, kind, origin, t)]
  <2>1. PICK k \in JobIds : /\ Absorbs(J, k, r, kind)
                            /\ J2 = [J EXCEPT ![k] = Merged(@, kind, origin, t)]
    BY <1>1
  <2> DEFINE row == Merged(J[k], kind, origin, t)
  <2>2. J[k] \in Job /\ J[k].repo = r
    BY <2>1 DEF Absorbs, InFlight
  <2>3. /\ row.state = J[k].state /\ row.repo = J[k].repo
        /\ row.origin = IF "manual" \in {origin, J[k].origin} THEN "manual" ELSE "scheduled"
    BY <2>2 DEF Merged, Job
  <2> HIDE DEF row
  <2>4. J2 = [J EXCEPT ![k] = row] BY <2>1 DEF row
  <2>5. CASE i = k
    <3>1. OrphanRow(row, S) BY <2>4, <2>5
    <3> QED BY <2>2, <2>3, <3>1 DEF OrphanRow, Origins
  <2>6. CASE i # k BY <2>4, <2>6
  <2> QED BY <2>5, <2>6
<1>2. CASE \E k \in JobIds : J2 = Inserted(J, k, r, kind, origin, t)
  <2>1. PICK k \in JobIds : J2 = Inserted(J, k, r, kind, origin, t)
    BY <1>2
  <2> QED BY <2>1, InsertedRow DEF OrphanRow, Origins
<1> QED BY <1>1, <1>2 DEF Enqueued

\* An interrupted job waits again only if it is not named to be dropped.
LEMMA InterruptedOrphans ==
  ASSUME NEW J \in [JobIds -> Job], NEW js \in SUBSET JobIds, NEW gone, NEW t \in Nat,
         NEW S, \A k \in js : J[k].origin = "scheduled" /\ S[J[k].repo].state # "enabled" => k \in gone,
         NEW i \in JobIds, OrphanRow(Interrupted(J, js, gone, t)[i], S)
  PROVE  Interrupted(J, js, gone, t)[i] = J[i]
<1> DEFINE row == J[i]
<1> DEFINE row2 == Interrupted(J, js, gone, t)[i]
<1>1. CASE i \notin js BY <1>1 DEF Interrupted
<1>2. CASE i \in js
  <2>1. PICK state, finished :
          /\ row2 = [row EXCEPT !.state = state, !.token = Null, !.lease = Null,
                                !.due = t, !.finished = finished]
          /\ i \in gone => state = "cancelled"
    BY <1>2 DEF Interrupted
  <2>2. row \in Job OBVIOUS
  <2>3. row.origin = "scheduled" /\ S[row.repo].state # "enabled" => i \in gone
    BY <1>2
  <2> HIDE DEF row
  <2>4. row2.state = state /\ row2.origin = row.origin /\ row2.repo = row.repo
    BY <2>1, <2>2 DEF Job
  <2> HIDE DEF row2
  <2>5. OrphanRow(row2, S) BY DEF row2
  <2> QED BY <2>1, <2>3, <2>4, <2>5 DEF OrphanRow
<1> QED BY <1>1, <1>2

\* Recovery drops the interrupted jobs of disabled schedules.
LEMMA RecoveredOrphans ==
  ASSUME IInv, NoOrphanedWork, NEW i \in JobIds
  PROVE  ~OrphanRow(RecoveredJobs[i], sched)
<1> DEFINE gone == {k \in ExpiredJobs : Orphaned(jobs[k].origin, jobs[k].repo)}
<1>1. RecoveredJobs = Interrupted(jobs, ExpiredJobs, gone, now)
  BY DEF RecoveredJobs
<1>2. \A k \in ExpiredJobs : jobs[k].origin = "scheduled" /\ sched[jobs[k].repo].state # "enabled" => k \in gone
  BY DEF Orphaned
<1>3. ExpiredJobs \in SUBSET JobIds /\ jobs \in [JobIds -> Job] /\ now \in Nat
  BY DEF ExpiredJobs, IInv, TypeOK
<1> HIDE DEF gone
<1>4. OrphanRow(RecoveredJobs[i], sched) => RecoveredJobs[i] = jobs[i]
  BY <1>1, <1>2, <1>3, InterruptedOrphans
<1> QED BY <1>4 DEF NoOrphanedWork, OrphanRow

\* A claimed job does not wait.
LEMMA TakenOrphans ==
  ASSUME NEW p \in Procs, NEW J \in [JobIds -> Job], NEW A, NEW j \in JobIds,
         Take(p, J, A, j), NEW S, NEW i \in JobIds, OrphanRow(jobs'[i], S)
  PROVE  jobs'[i] = J[i]
<1> DEFINE row == J[j]
<1> DEFINE row2 == [row EXCEPT !.state = "running", !.token = claims + 1,
                               !.lease = now + LEASE_SECONDS]
<1>1. jobs' = [J EXCEPT ![j] = row2]
  BY DEF Take, Claimed, Job
<1>2. row \in Job OBVIOUS
<1> HIDE DEF row
<1>3. row2.state = "running" BY <1>2 DEF Job
<1> HIDE DEF row2
<1> QED BY <1>1, <1>3 DEF OrphanRow

\* finish blocks or renews a schedule; it neither enables nor disables one.
LEMMA FinishSchedules ==
  ASSUME IInv, NEW p \in Procs, NEW category, Finish(p, category)
  PROVE  \A r \in Repos : sched'[r].state = sched[r].state
<1> DEFINE c == own[p]
<1> DEFINE s == sched[c.repo]
<1>1. c.repo \in Repos /\ sched \in [Repos -> Schedule]
  BY OwnedRow DEF Finish, IInv, TypeOK
<1>2. sched' = sched \/ \E blocked, next :
        sched' = [sched EXCEPT ![c.repo] = [s EXCEPT !.blocked = blocked, !.next = next]]
  BY DEF Finish
<1>3. \A blocked, next : [s EXCEPT !.blocked = blocked, !.next = next].state = s.state
  <2> DEFINE t == s
  <2>1. t \in Schedule BY <1>1
  <2> HIDE DEF t
  <2>2. \A blocked, next : [t EXCEPT !.blocked = blocked, !.next = next].state = t.state
    BY <2>1 DEF Schedule
  <2> QED BY <2>2 DEF t
<1>4. CASE sched' # sched
  <2>1. PICK blocked, next :
          sched' = [sched EXCEPT ![c.repo] = [s EXCEPT !.blocked = blocked, !.next = next]]
    BY <1>2, <1>4
  <2> DEFINE row == [s EXCEPT !.blocked = blocked, !.next = next]
  <2>2. row.state = s.state BY <1>3
  <2>3. sched' = [sched EXCEPT ![c.repo] = row] BY <2>1
  <2> HIDE DEF row
  <2> QED BY <1>1, <2>2, <2>3
<1> QED BY <1>4

LEMMA FinishOrphans ==
  ASSUME IInv, NoOrphanedWork, NEW p \in Procs, NEW category \in Categories,
         Finish(p, category)
  PROVE  NoOrphanedWork'
<1> DEFINE c == own[p]
<1> DEFINE s == sched[c.repo]
<1> DEFINE retried == category = "transport" /\ c.retry < Len(RETRIES)
<1> DEFINE retry == IF retried THEN c.retry + 1 ELSE c.retry
<1> DEFINE deferred == category \in {"busy", "unavailable"}
<1> DEFINE state == IF deferred \/ retried
                    THEN IF Orphaned(c.origin, c.repo) THEN "cancelled" ELSE "pending"
                    ELSE IF category = "none" THEN "succeeded" ELSE "failed"
<1> DEFINE due == now + (IF deferred THEN DEFER
                         ELSE IF retried THEN RETRIES[c.retry + 1] ELSE 0)
<1> DEFINE finished == Finished(jobs, c.job, state, due, retry, now)
<1>1. /\ c \in Claims /\ c.job \in JobIds /\ c.repo \in Repos
      /\ jobs[c.job].repo = c.repo /\ jobs[c.job].token = c.token /\ c.token # Null
  BY OwnedRow DEF Finish, Owns, Idle
<1>2. jobs[c.job].origin = c.origin
  BY <1>1 DEF IInv, OwnInv
<1>3. jobs \in [JobIds -> Job] /\ now \in Nat /\ sched \in [Repos -> Schedule]
  BY DEF IInv, TypeOK
<1>4. retry \in Nat /\ (retried => RETRIES[c.retry + 1] \in Nat)
  BY <1>1, JobTableAssumption DEF Claims
<1>5. due \in Nat
  BY <1>3, <1>4, JobTableAssumption
<1>6. state \in {"pending"} \cup Terminal /\ (state = "pending" => ~Orphaned(c.origin, c.repo))
  BY DEF Terminal
<1>7. \/ jobs' = finished
      \/ Enqueued(finished, jobs', c.repo, "fetch", "scheduled", now) /\ s.state = "enabled"
  BY DEF Finish
<1>8. \A r \in Repos : sched'[r].state = sched[r].state
  BY FinishSchedules
<1> HIDE DEF state, due, retry, retried, deferred
<1>9. jobs[c.job].repo # Null
  BY <1>1, NullRow
<1>10. /\ finished \in [JobIds -> Job]
       /\ finished[c.job].state = state /\ finished[c.job].repo = c.repo
       /\ finished[c.job].origin = c.origin
       /\ \A i \in JobIds \ {c.job} : finished[i] = jobs[i]
  BY <1>1, <1>2, <1>3, <1>4, <1>5, <1>6, <1>9, FinishedRow
<1> HIDE DEF c, s, finished
<1>11. \A i \in JobIds : ~OrphanRow(finished[i], sched)
  <2> SUFFICES ASSUME NEW i \in JobIds PROVE ~OrphanRow(finished[i], sched)
    OBVIOUS
  <2>1. CASE i = c.job BY <1>6, <1>10, <2>1 DEF OrphanRow, Orphaned
  <2>2. CASE i # c.job BY <1>10, <2>2 DEF OrphanRow, NoOrphanedWork
  <2> QED BY <2>1, <2>2
<1>12. \A i \in JobIds : ~OrphanRow(jobs'[i], sched)
  <2>1. CASE jobs' = finished BY <1>11, <2>1
  <2>2. CASE Enqueued(finished, jobs', c.repo, "fetch", "scheduled", now) /\ s.state = "enabled"
    BY <1>1, <1>3, <1>10, <1>11, <2>2, EnqueuedOrphans DEF Kinds, Origins, s
  <2> QED BY <1>7, <2>1, <2>2
<1>13. IInv'
  BY FinishStep
<1>14. \A i \in JobIds : jobs'[i].state = "pending" => jobs'[i].repo \in Repos
  BY <1>13 DEF IInv, TypeOK, Job, Consistent, PresentRows
<1> QED BY <1>8, <1>12, <1>14 DEF NoOrphanedWork, OrphanRow

\* Automatic work waits only while its schedule is enabled, however disabling
\* races with a running job's retry, interruption or recovery.
THEOREM NoOrphanedWorkAlways == Spec => []NoOrphanedWork
<1>1. Init => NoOrphanedWork
  BY DEF Init, NoOrphanedWork, NoJob
<1>2. ASSUME IInv, NoOrphanedWork, [Next]_vars PROVE NoOrphanedWork'
  <2> USE <1>2
  <2>1. jobs \in [JobIds -> Job] /\ now \in Nat /\ sched \in [Repos -> Schedule]
    BY DEF IInv, TypeOK
  <2>2. \A i \in JobIds : ~OrphanRow(jobs[i], sched)
    BY DEF NoOrphanedWork, OrphanRow
  <2>3. IInv' /\ \A i \in JobIds : jobs'[i].state = "pending" => jobs'[i].repo \in Repos
    <3>1. IInv' BY StepIInv
    <3> QED BY <3>1 DEF IInv, TypeOK, Job, Consistent, PresentRows
  <2>4. (\A i \in JobIds : ~OrphanRow(jobs'[i], sched')) => NoOrphanedWork'
    BY DEF NoOrphanedWork, OrphanRow
  <2>5. ASSUME NEW r \in Repos, NEW kind \in Requests, Enqueue(r, kind) PROVE NoOrphanedWork'
    <3>1. kind \in Kinds BY SchedulerAssumption
    <3> QED BY <2>1, <2>2, <2>4, <2>5, <3>1, EnqueuedOrphans DEF Enqueue, Origins
  <2>6. ASSUME NEW r \in Repos, Unqueue(r) PROVE NoOrphanedWork'
    BY <2>1, <2>2, <2>4, <2>6, CancelledOrphans DEF Unqueue
  <2>7. ASSUME NEW r \in Repos, NEW interval \in Intervals, EnableSchedule(r, interval)
        PROVE  NoOrphanedWork'
    BY <2>1, <2>7 DEF EnableSchedule, tables, NoOrphanedWork
  <2>8. ASSUME NEW r \in Repos, DisableSchedule(r) PROVE NoOrphanedWork'
    <3>1. jobs' = Cancelled(jobs, r, {"scheduled"}, Kinds, now)
      BY <2>8 DEF DisableSchedule
    <3>2. \A q \in Repos \ {r} : sched'[q] = sched[q]
      BY <2>1, <2>8 DEF DisableSchedule
    <3>3. ASSUME NEW i \in JobIds, OrphanRow(jobs'[i], sched') PROVE FALSE
      <4>1. jobs'[i] = jobs[i]
        BY <2>1, <3>1, <3>3, CancelledOrphans
      <4>2. jobs[i].repo \in Repos /\ jobs[i].kind \in Kinds
        BY <2>1, <2>3, <3>3, <4>1 DEF OrphanRow, Job
      <4>3. CASE jobs[i].repo = r
        <5> DEFINE row == jobs[i]
        <5>1. jobs'[i] = [row EXCEPT !.state = "cancelled", !.finished = now]
          BY <3>1, <3>3, <4>1, <4>2, <4>3 DEF Cancelled, OrphanRow
        <5>2. row \in Job BY <2>1
        <5> HIDE DEF row
        <5>3. [row EXCEPT !.state = "cancelled", !.finished = now].state = "cancelled"
          BY <5>2 DEF Job
        <5> QED BY <3>3, <5>1, <5>3 DEF OrphanRow
      <4>4. CASE jobs[i].repo # r
        BY <2>2, <3>2, <3>3, <4>1, <4>2, <4>4 DEF OrphanRow
      <4> QED BY <4>3, <4>4
    <3> QED BY <2>4, <3>3
  <2>9. ASSUME NEW p \in Procs, Tick(p) PROVE NoOrphanedWork'
    <3>1. PICK ids \in [DueSchedules -> JobIds] :
            jobs' = WithoutJobs(Ticked(ids), Prunable(Ticked(ids), attempts, now - RETENTION))
      BY <2>9 DEF Tick
    <3>2. UNCHANGED sched BY <2>9 DEF Tick
    <3>3. ASSUME NEW i \in JobIds, OrphanRow(jobs'[i], sched) PROVE FALSE
      <4>1. jobs'[i] = Ticked(ids)[i]
        BY <3>1, <3>3 DEF WithoutJobs, OrphanRow, NoJob
      <4>2. CASE \E r \in DOMAIN ids : ids[r] = i
        <5> DEFINE r == CHOOSE s \in DOMAIN ids : ids[s] = i
        <5>1. r \in DueSchedules
          BY <4>2
        <5>2. Ticked(ids)[i] = Inserted(jobs, i, r, "check", "scheduled", now)[i]
          BY <4>2 DEF Ticked
        <5> HIDE DEF r
        <5>3. r \in Repos /\ sched[r].state = "enabled"
          BY <5>1 DEF DueSchedules
        <5>4. Inserted(jobs, i, r, "check", "scheduled", now)[i].repo = r
          BY <2>1, <5>3, InsertedRow DEF Kinds, Origins
        <5> QED BY <3>3, <4>1, <5>2, <5>3, <5>4 DEF OrphanRow
      <4>3. CASE ~\E r \in DOMAIN ids : ids[r] = i
        BY <2>2, <3>3, <4>1, <4>3 DEF Ticked
      <4> QED BY <4>2, <4>3
    <3> QED BY <2>4, <3>2, <3>3
  <2>10. ASSUME NEW p \in Procs, Claim(p) \/ RecoverOnly(p) PROVE NoOrphanedWork'
    <3>1. UNCHANGED sched /\ RecoveredJobs \in [JobIds -> Job]
      BY <2>10, RecoverKeeps DEF Claim, RecoverOnly, Tables
    <3>2. CASE RecoverOnly(p)
      BY <2>4, <3>1, <3>2, RecoveredOrphans DEF RecoverOnly
    <3>3. CASE Claim(p)
      <4>1. PICK j \in JobIds : Take(p, RecoveredJobs, RecoveredAttempts, j)
        BY <3>3 DEF Claim, Claimable
      <4> QED BY <2>4, <3>1, <4>1, RecoveredOrphans, TakenOrphans
    <3> QED BY <2>10, <3>2, <3>3
  <2>11. ASSUME NEW r \in Repos, NEW p \in Procs, NEW kind \in Commands, Immediate(p, r, kind)
         PROVE  NoOrphanedWork'
    <3> DEFINE kept == Cancelled(RecoveredJobs, r, Origins,
                                 IF kind = "fetch" THEN Kinds ELSE {kind}, now)
    <3>1. PICK k \in JobIds :
            Take(p, Inserted(kept, k, r, kind, "manual", now), RecoveredAttempts, k)
      BY <2>11 DEF Immediate
    <3>2. UNCHANGED sched /\ kind \in Kinds
      BY <2>11, SchedulerAssumption DEF Immediate, Kinds
    <3>3. /\ RecoveredJobs \in [JobIds -> Job] /\ QuietRows(RecoveredJobs)
          /\ PresentRows(RecoveredJobs)
      BY RecoverKeeps DEF Tables, Consistent
    <3>4. kept \in [JobIds -> Job]
      BY <2>1, <3>3, CancelledRows DEF Resettled
    <3>5. \A i \in JobIds : ~OrphanRow(kept[i], sched)
      BY <3>3, RecoveredOrphans, CancelledOrphans
    <3> HIDE DEF kept
    <3> DEFINE J == Inserted(kept, k, r, kind, "manual", now)
    <3>6. /\ J \in [JobIds -> Job] /\ J[k].origin = "manual"
          /\ \A i \in JobIds \ {k} : J[i] = kept[i]
      BY <2>1, <3>2, <3>4, InsertedRow DEF Origins
    <3>7. Take(p, J, RecoveredAttempts, k) BY <3>1
    <3> HIDE DEF J
    <3>8. \A i \in JobIds : ~OrphanRow(J[i], sched)
      BY <3>5, <3>6 DEF OrphanRow
    <3> QED BY <2>4, <3>2, <3>6, <3>7, <3>8, TakenOrphans
  <2>12. ASSUME NEW p \in Procs, Heartbeat(p) PROVE NoOrphanedWork'
    <3> DEFINE j == own[p].job
    <3> DEFINE row == jobs[j]
    <3>1. jobs' = [jobs EXCEPT ![j].lease = now + LEASE_SECONDS] /\ UNCHANGED sched
      BY <2>12 DEF Heartbeat
    <3>2. j \in JobIds /\ row \in Job /\ row.state = "running"
      BY <2>12, OwnedRow DEF Heartbeat
    <3>3. [row EXCEPT !.lease = now + LEASE_SECONDS].state = row.state
      <4> HIDE DEF row
      <4> QED BY <3>2 DEF Job
    <3>4. \A i \in JobIds : jobs'[i] = jobs[i] \/ jobs'[i].state = "running"
      BY <2>1, <3>1, <3>2, <3>3
    <3> QED BY <2>2, <2>4, <3>1, <3>4 DEF OrphanRow
  <2>13. ASSUME NEW p \in Procs, NEW category \in Outcomes, Finish(p, category)
         PROVE  NoOrphanedWork'
    <3>1. category \in Categories BY SchedulerAssumption
    <3> QED BY <2>13, <3>1, FinishOrphans
  <2>14. ASSUME NEW p \in Procs, Interrupt(p) PROVE NoOrphanedWork'
    <3> DEFINE js == {own[p].job}
    <3> DEFINE gone == IF Orphaned(own[p].origin, own[p].repo) THEN js ELSE {}
    <3>1. jobs' = Interrupted(jobs, js, gone, now) /\ UNCHANGED sched
      BY <2>14 DEF Interrupt
    <3>2. /\ own[p].job \in JobIds /\ jobs[own[p].job].repo = own[p].repo
          /\ jobs[own[p].job].origin = own[p].origin
      BY <2>14, OwnedRow DEF Interrupt, IInv, OwnInv, Owns, Idle
    <3>3. js \in SUBSET JobIds
      BY <3>2
    <3>4. \A k \in js : jobs[k].origin = "scheduled" /\ sched[jobs[k].repo].state # "enabled" => k \in gone
      BY <3>2 DEF Orphaned
    <3> HIDE DEF js, gone
    <3>5. \A i \in JobIds : OrphanRow(Interrupted(jobs, js, gone, now)[i], sched)
                            => Interrupted(jobs, js, gone, now)[i] = jobs[i]
      BY <2>1, <3>3, <3>4, InterruptedOrphans
    <3> QED BY <2>2, <2>4, <3>1, <3>5
  <2>15. ASSUME UNCHANGED <<jobs, sched>> PROVE NoOrphanedWork'
    BY <2>15 DEF NoOrphanedWork
  <2>16. \A p \in Procs :
           /\ MarkUncertain(p) \/ LoseClaim(p) \/ Crash(p) => UNCHANGED <<jobs, sched>>
           /\ \A status \in Statuses : PublishLocal(p, status) \/ PublishRemote(p, status)
                                       => UNCHANGED <<jobs, sched>>
    BY DEF MarkUncertain, LoseClaim, Crash, PublishLocal, PublishRemote, tables
  <2>17. ClockAdvances => UNCHANGED <<jobs, sched>>
    BY DEF ClockAdvances, tables
  <2> QED BY <2>5, <2>6, <2>7, <2>8, <2>9, <2>10, <2>11, <2>12, <2>13, <2>14, <2>15,
             <2>16, <2>17 DEF Next, vars
<1>3. IInv /\ NoOrphanedWork /\ [Next]_vars => NoOrphanedWork'
  BY <1>2
<1> QED BY <1>1, <1>3, Invariant, PTL DEF Spec

---------------------------------------------------------------------------
(* History and the holders of claims *)

\* The rows that are terminal or running in table J are the same in J2.
Fixed(J, J2) ==
  \A i \in JobIds : J[i].state \in Terminal \cup {"running"} => J2[i] = J[i]

LEMMA FreeId ==
  ASSUME NEW J, NEW i \in JobIds, NEW ids, i \in ids, NextIds(J, ids)
  PROVE  J[i].state = "absent"
BY DEF NextIds, Exists, JobIds

LEMMA InsertedFixed ==
  ASSUME NEW J, DOMAIN J = JobIds, NEW i \in JobIds, J[i].state = "absent",
         NEW r, NEW kind, NEW origin, NEW t
  PROVE  Fixed(J, Inserted(J, i, r, kind, origin, t))
<1>1. \A k \in JobIds \ {i} : Inserted(J, i, r, kind, origin, t)[k] = J[k]
  BY DEF Inserted
<1> QED BY <1>1 DEF Fixed, Terminal

LEMMA EnqueuedFixed ==
  ASSUME NEW J, DOMAIN J = JobIds, NEW J2, NEW r, NEW kind, NEW origin, NEW t,
         Enqueued(J, J2, r, kind, origin, t)
  PROVE  Fixed(J, J2)
<1>1. CASE \E i \in JobIds : /\ Absorbs(J, i, r, kind)
                             /\ J2 = [J EXCEPT ![i] = Merged(@, kind, origin, t)]
  <2>1. PICK i \in JobIds : /\ Absorbs(J, i, r, kind)
                            /\ J2 = [J EXCEPT ![i] = Merged(@, kind, origin, t)]
    BY <1>1
  <2>2. \A k \in JobIds \ {i} : J2[k] = J[k]
    BY <2>1
  <2> QED BY <2>1, <2>2 DEF Fixed, Absorbs, Terminal
<1>2. CASE \E i \in JobIds : /\ NextIds(J, {i})
                             /\ J2 = Inserted(J, i, r, kind, origin, t)
  BY <1>2, FreeId, InsertedFixed
<1> QED BY <1>1, <1>2 DEF Enqueued

LEMMA CancelledFixed ==
  ASSUME NEW J, NEW r, NEW origins, NEW kinds, NEW t
  PROVE  Fixed(J, Cancelled(J, r, origins, kinds, t))
BY DEF Fixed, Cancelled, Terminal

LEMMA TickedFixed ==
  ASSUME IInv, NEW ids \in [DueSchedules -> JobIds],
         NextIds(jobs, {ids[r] : r \in DueSchedules})
  PROVE  Fixed(jobs, Ticked(ids))
<1> SUFFICES ASSUME NEW i \in JobIds, jobs[i].state # "absent"
             PROVE  Ticked(ids)[i] = jobs[i]
  BY DEF Fixed, Terminal
<1>1. ~\E r \in DOMAIN ids : ids[r] = i
  BY FreeId
<1> QED BY <1>1 DEF Ticked

\* Recovery touches only the jobs whose lease ran out.
LEMMA RecoveredFixed ==
  ASSUME NEW i \in JobIds, i \notin ExpiredJobs
  PROVE  RecoveredJobs[i] = jobs[i]
BY DEF RecoveredJobs, Interrupted

LEMMA TakenFixed ==
  ASSUME NEW p \in Procs, NEW J \in [JobIds -> Job], NEW A, NEW j \in JobIds,
         J[j].state = "pending", Take(p, J, A, j)
  PROVE  Fixed(J, jobs')
<1>1. \A i \in JobIds \ {j} : jobs'[i] = J[i]
  BY DEF Take, Claimed
<1> QED BY <1>1 DEF Fixed, Terminal

\* What a step may do to a job that is terminal or running.
TerminalStays(i) ==
  jobs[i].state \in Terminal => jobs'[i] = jobs[i] \/ jobs'[i].state = "absent"

HolderStays(i) ==
  jobs[i].state = "running" /\ jobs'[i].token # jobs[i].token =>
    \/ jobs[i].lease <= now
    \/ \E p \in Procs : own[p].token = jobs[i].token /\ own'[p].token = Null

LEMMA FixedStays ==
  ASSUME NEW J, Fixed(J, jobs'), NEW i \in JobIds,
         i \notin ExpiredJobs => J[i] = jobs[i]
  PROVE  TerminalStays(i) /\ HolderStays(i)
BY DEF Fixed, TerminalStays, HolderStays, ExpiredJobs, Expired, Terminal

\* The owner of a job lets it go; the other rows are fixed.
LEMMA OwnerStays ==
  ASSUME IInv, NEW p \in Procs, Owns(p), own' = [own EXCEPT ![p] = NoClaim],
         \A i \in JobIds \ {own[p].job} :
           jobs[i].state \in Terminal \cup {"running"} => jobs'[i] = jobs[i]
  PROVE  \A i \in JobIds : TerminalStays(i) /\ HolderStays(i)
<1>1. /\ jobs[own[p].job].state = "running"
      /\ jobs[own[p].job].token = own[p].token
  BY OwnedRow
<1>2. own'[p].token = Null
  BY DEF IInv, TypeOK, NoClaim
<1> QED BY <1>1, <1>2 DEF TerminalStays, HolderStays, Terminal

LEMMA FinishStays ==
  ASSUME IInv, NEW p \in Procs, NEW category, Finish(p, category)
  PROVE  \A i \in JobIds : TerminalStays(i) /\ HolderStays(i)
<1> DEFINE j == own[p].job
<1>1. PICK state, due, retry :
        LET finished == Finished(jobs, j, state, due, retry, now)
        IN  jobs' = finished \/ Enqueued(finished, jobs', own[p].repo, "fetch", "scheduled", now)
  BY DEF Finish
<1> DEFINE finished == Finished(jobs, j, state, due, retry, now)
<1>2. DOMAIN finished = JobIds /\ \A i \in JobIds \ {j} : finished[i] = jobs[i]
  BY DEF Finished, IInv, TypeOK
<1>3. jobs' = finished \/ Enqueued(finished, jobs', own[p].repo, "fetch", "scheduled", now)
  BY <1>1
<1>4. Owns(p) /\ own' = [own EXCEPT ![p] = NoClaim]
  BY DEF Finish
<1> HIDE DEF finished
<1>5. Fixed(finished, jobs')
  BY <1>2, <1>3, EnqueuedFixed DEF Fixed
<1> QED BY <1>2, <1>4, <1>5, OwnerStays DEF Fixed

LEMMA TickStays ==
  ASSUME IInv, NEW p \in Procs, Tick(p)
  PROVE  \A i \in JobIds : TerminalStays(i) /\ HolderStays(i)
<1>1. PICK ids \in [DueSchedules -> JobIds] :
        /\ NextIds(jobs, {ids[r] : r \in DueSchedules})
        /\ jobs' = WithoutJobs(Ticked(ids), Prunable(Ticked(ids), attempts, now - RETENTION))
  BY DEF Tick
<1> DEFINE J == Ticked(ids)
<1> DEFINE gone == Prunable(J, attempts, now - RETENTION)
<1>2. Fixed(jobs, J)
  BY <1>1, TickedFixed
<1>3. \A i \in gone : J[i].state \in Terminal
  BY DEF Prunable
<1>4. \A i \in JobIds : jobs'[i] = IF i \in gone THEN NoJob ELSE J[i]
  BY <1>1 DEF WithoutJobs
<1> HIDE DEF J, gone
<1>5. \A i \in JobIds : jobs[i].state \in Terminal => jobs'[i] = jobs[i] \/ jobs'[i].state = "absent"
  BY <1>2, <1>4 DEF Fixed, NoJob
<1>6. \A i \in JobIds : jobs[i].state = "running" => jobs'[i] = jobs[i]
  BY <1>2, <1>3, <1>4 DEF Fixed, Terminal
<1> QED BY <1>5, <1>6 DEF TerminalStays, HolderStays

LEMMA ImmediateStays ==
  ASSUME IInv, NEW p \in Procs, NEW r \in Repos, NEW kind \in Kinds, Immediate(p, r, kind)
  PROVE  \A i \in JobIds : TerminalStays(i) /\ HolderStays(i)
<1> DEFINE kept == Cancelled(RecoveredJobs, r, Origins,
                             IF kind = "fetch" THEN Kinds ELSE {kind}, now)
<1>1. PICK k \in JobIds :
        /\ NextIds(kept, {k})
        /\ Take(p, Inserted(kept, k, r, kind, "manual", now), RecoveredAttempts, k)
  BY DEF Immediate
<1>2. /\ RecoveredJobs \in [JobIds -> Job] /\ QuietRows(RecoveredJobs)
      /\ PresentRows(RecoveredJobs) /\ now \in Nat
  BY RecoverKeeps DEF Tables, Consistent, IInv, TypeOK
<1>3. Fixed(RecoveredJobs, kept)
  BY CancelledFixed
<1>4. kept \in [JobIds -> Job]
  BY <1>2, CancelledRows DEF Resettled
<1> HIDE DEF kept
<1> DEFINE J == Inserted(kept, k, r, kind, "manual", now)
<1>5. Fixed(kept, J)
  BY <1>1, <1>4, FreeId, InsertedFixed
<1>6. J \in [JobIds -> Job] /\ J[k].state = "pending"
  BY <1>2, <1>4, InsertedRow DEF Origins
<1>7. Take(p, J, RecoveredAttempts, k)
  BY <1>1
<1> HIDE DEF J
<1>8. Fixed(J, jobs')
  BY <1>6, <1>7, TakenFixed
<1>9. Fixed(RecoveredJobs, jobs')
  BY <1>3, <1>5, <1>8 DEF Fixed
<1> QED BY <1>9, FixedStays, RecoveredFixed

\* What no step does to a terminal or to a running job: one step here per action.
LEMMA StepStays ==
  ASSUME IInv, [Next]_vars
  PROVE  \A i \in JobIds : TerminalStays(i) /\ HolderStays(i)
<1> DEFINE Stays == \A i \in JobIds : TerminalStays(i) /\ HolderStays(i)
<1>1. jobs \in [JobIds -> Job] /\ now \in Nat
  BY DEF IInv, TypeOK
<1>2. Fixed(jobs, jobs') => Stays
  BY FixedStays
<1>3. UNCHANGED jobs => Stays
  BY DEF TerminalStays, HolderStays
<1>4. ASSUME NEW r \in Repos, NEW kind \in Requests, Enqueue(r, kind) PROVE Stays
  BY <1>1, <1>2, <1>4, EnqueuedFixed DEF Enqueue
<1>5. ASSUME NEW r \in Repos, Unqueue(r) \/ DisableSchedule(r) PROVE Stays
  BY <1>2, <1>5, CancelledFixed DEF Unqueue, DisableSchedule
<1>6. ASSUME NEW p \in Procs, Tick(p) PROVE Stays
  BY <1>6, TickStays
<1>7. ASSUME NEW p \in Procs, RecoverOnly(p) PROVE Stays
  <2>1. Fixed(RecoveredJobs, jobs')
    BY <1>7 DEF RecoverOnly, Fixed
  <2> QED BY <2>1, FixedStays, RecoveredFixed
<1>8. ASSUME NEW p \in Procs, Claim(p) PROVE Stays
  <2>1. PICK j \in Claimable(RecoveredJobs, now) : Take(p, RecoveredJobs, RecoveredAttempts, j)
    BY <1>8 DEF Claim
  <2>2. j \in JobIds /\ RecoveredJobs[j].state = "pending" /\ RecoveredJobs \in [JobIds -> Job]
    BY RecoverKeeps DEF Claimable, Tables
  <2>3. Fixed(RecoveredJobs, jobs')
    BY <2>1, <2>2, TakenFixed
  <2> QED BY <2>3, FixedStays, RecoveredFixed
<1>9. ASSUME NEW r \in Repos, NEW p \in Procs, NEW kind \in Commands, Immediate(p, r, kind)
      PROVE  Stays
  <2>1. kind \in Kinds BY SchedulerAssumption DEF Kinds
  <2> QED BY <1>9, <2>1, ImmediateStays
<1>10. ASSUME NEW p \in Procs, Heartbeat(p) PROVE Stays
  <2> DEFINE j == own[p].job
  <2> DEFINE row == jobs[j]
  <2> DEFINE row2 == [row EXCEPT !.lease = now + LEASE_SECONDS]
  <2>1. j \in JobIds /\ row \in Job /\ row.state = "running"
    BY <1>10, OwnedRow DEF Heartbeat
  <2>2. jobs' = [jobs EXCEPT ![j] = row2]
    BY <1>1, <1>10, <2>1 DEF Heartbeat
  <2>3. row2.token = row.token
    <3> HIDE DEF row
    <3> QED BY <2>1 DEF Job
  <2> HIDE DEF row2
  <2>4. \A i \in JobIds : jobs'[i].token = jobs[i].token /\ (i # j => jobs'[i] = jobs[i])
    BY <1>1, <2>1, <2>2, <2>3
  <2> QED BY <2>1, <2>4 DEF TerminalStays, HolderStays, Terminal
<1>11. ASSUME NEW p \in Procs, NEW category \in Outcomes, Finish(p, category) PROVE Stays
  BY <1>11, FinishStays
<1>12. ASSUME NEW p \in Procs, Interrupt(p) PROVE Stays
  <2>1. \A i \in JobIds \ {own[p].job} : jobs'[i] = jobs[i]
    BY <1>12 DEF Interrupt, Interrupted
  <2> QED BY <1>12, <2>1, OwnerStays DEF Interrupt
<1>13. /\ ClockAdvances => UNCHANGED jobs
       /\ \A r \in Repos, interval \in Intervals : EnableSchedule(r, interval) => UNCHANGED jobs
       /\ \A p \in Procs :
            /\ MarkUncertain(p) \/ LoseClaim(p) \/ Crash(p) => UNCHANGED jobs
            /\ \A status \in Statuses : PublishLocal(p, status) \/ PublishRemote(p, status)
                                        => UNCHANGED jobs
  BY DEF ClockAdvances, EnableSchedule, MarkUncertain, LoseClaim, Crash, PublishLocal,
         PublishRemote, tables
<1> QED BY <1>3, <1>4, <1>5, <1>6, <1>7, <1>8, <1>9, <1>10, <1>11, <1>12, <1>13 DEF Next, vars

\* No claim is ever taken from an owner whose lease still runs: only its own
\* word (finish, interrupt, giving up) ends it earlier.
THEOREM EvictionOnlyAfterLeaseAlways == Spec => EvictionOnlyAfterLease
<1>1. IInv /\ [Next]_vars =>
        \A i \in JobIds :
          jobs[i].state = "running" /\ jobs'[i].token # jobs[i].token =>
            \/ jobs[i].lease <= now
            \/ \E p \in Procs : /\ own[p].token = jobs[i].token
                                /\ own'[p].token = Null
  BY StepStays DEF HolderStays
<1> QED BY <1>1, Invariant, PTL DEF Spec, EvictionOnlyAfterLease

\* An attempt that was never opened is not finished either.
BlankAttempts == \A a \in Tokens : attempts[a].job = Null => attempts[a].finished = Null

\* What a step may do to a finished attempt.
AttemptStays(a) ==
  attempts[a].finished # Null =>
    \/ attempts'[a] = attempts[a]
    \/ /\ attempts'[a] = NoAttempt
       /\ jobs[attempts[a].job].state \in Terminal

LEMMA ClosedStays ==
  ASSUME IInv, NEW js, NEW outcome, NEW category, NEW a \in Tokens
  PROVE  LET A == Closed(attempts, js, outcome, category, now)
         IN  /\ A[a].job = attempts[a].job
             /\ attempts[a].job = Null \/ attempts[a].finished # Null => A[a] = attempts[a]
<1> DEFINE row == attempts[a]
<1>1. row \in Attempt /\ now \in Nat
  BY DEF IInv, TypeOK
<1>2. \/ Closed(attempts, js, outcome, category, now)[a] = row
      \/ /\ Closed(attempts, js, outcome, category, now)[a]
              = [row EXCEPT !.outcome = outcome, !.category = category, !.finished = now]
         /\ row.job # Null /\ row.finished = Null
  BY DEF Closed, Open
<1> HIDE DEF row
<1> QED BY <1>1, <1>2 DEF row, Attempt

\* Closing attempts and opening the next one leave finished attempts alone.
LEMMA OpenedStays ==
  ASSUME IInv, BlankAttempts, NEW j \in JobIds, NEW kind, claims < MaxClaims,
         attempts' = Opened(RecoveredAttempts, claims + 1, j, kind)
  PROVE  BlankAttempts' /\ \A a \in Tokens : AttemptStays(a)
<1>1. claims + 1 \in Tokens /\ attempts[claims + 1].job = Null
  BY JobTableAssumption DEF IInv, TypeOK, Consistent, AttemptRows, Tokens
<1>2. RecoveredAttempts \in [Tokens -> Attempt]
  BY RecoverKeeps DEF Tables
<1>3. \A a \in Tokens : a # claims + 1 => attempts'[a] = RecoveredAttempts[a]
  BY <1>2 DEF Opened
<1>4. attempts'[claims + 1].job = j
  BY <1>1, <1>2 DEF Opened, NoAttempt
<1>5. \A a \in Tokens :
        /\ RecoveredAttempts[a].job = attempts[a].job
        /\ attempts[a].job = Null \/ attempts[a].finished # Null => RecoveredAttempts[a] = attempts[a]
  BY ClosedStays DEF RecoveredAttempts
<1>6. BlankAttempts'
  BY <1>3, <1>4, <1>5, NullRow DEF BlankAttempts
<1>7. \A a \in Tokens : AttemptStays(a)
  BY <1>1, <1>3, <1>5 DEF AttemptStays, BlankAttempts
<1> QED BY <1>6, <1>7

\* What no step does to a finished attempt.
LEMMA StepAttempts ==
  ASSUME IInv, BlankAttempts, [Next]_vars
  PROVE  BlankAttempts' /\ \A a \in Tokens : AttemptStays(a)
<1> DEFINE Stays == BlankAttempts' /\ \A a \in Tokens : AttemptStays(a)
<1>1. UNCHANGED attempts => Stays
  BY DEF BlankAttempts, AttemptStays
<1>2. ASSUME NEW js, NEW outcome, NEW category,
             attempts' = Closed(attempts, js, outcome, category, now)
      PROVE  Stays
  BY <1>2, ClosedStays DEF BlankAttempts, AttemptStays
<1>3. ASSUME NEW p \in Procs, Tick(p) PROVE Stays
  <2>1. PICK ids \in [DueSchedules -> JobIds] :
          /\ NextIds(jobs, {ids[r] : r \in DueSchedules})
          /\ attempts' = WithoutAttemptsOf(attempts,
                           Prunable(Ticked(ids), attempts, now - RETENTION))
    BY <1>3 DEF Tick
  <2> DEFINE J == Ticked(ids)
  <2> DEFINE gone == Prunable(J, attempts, now - RETENTION)
  <2>2. \A i \in gone : i \in JobIds /\ J[i].state \in Terminal
    BY DEF Prunable
  <2>3. \A a \in Tokens : attempts'[a] = IF attempts[a].job \in gone THEN NoAttempt ELSE attempts[a]
    BY <2>1 DEF WithoutAttemptsOf
  <2>4. \A i \in JobIds : J[i].state \in Terminal => J[i] = jobs[i]
    <3>1. ASSUME NEW i \in JobIds, J[i].state \in Terminal PROVE J[i] = jobs[i]
      <4>1. CASE \E r \in DOMAIN ids : ids[r] = i
        <5> DEFINE r == CHOOSE s \in DOMAIN ids : ids[s] = i
        <5>1. r \in DueSchedules
          BY <4>1
        <5>2. J[i] = Inserted(jobs, i, r, "check", "scheduled", now)[i]
          BY <4>1 DEF Ticked
        <5> HIDE DEF r, J
        <5>3. r \in Repos
          BY <5>1 DEF DueSchedules
        <5>4. J[i].state = "pending"
          BY <5>2, <5>3, InsertedRow DEF IInv, TypeOK, Kinds, Origins
        <5> QED BY <3>1, <5>4 DEF Terminal
      <4>2. CASE ~\E r \in DOMAIN ids : ids[r] = i
        BY <4>2 DEF Ticked
      <4> QED BY <4>1, <4>2
    <3> QED BY <3>1
  <2> HIDE DEF J, gone
  <2>5. BlankAttempts'
    BY <2>3 DEF BlankAttempts, NoAttempt
  <2>6. \A a \in Tokens : AttemptStays(a)
    BY <2>2, <2>3, <2>4 DEF AttemptStays
  <2> QED BY <2>5, <2>6
<1>4. ASSUME NEW p \in Procs, RecoverOnly(p) PROVE Stays
  BY <1>2, <1>4 DEF RecoverOnly, RecoveredAttempts
<1>5. ASSUME NEW p \in Procs, Claim(p) PROVE Stays
  <2>1. PICK j \in Claimable(RecoveredJobs, now) : Take(p, RecoveredJobs, RecoveredAttempts, j)
    BY <1>5 DEF Claim
  <2> QED BY <2>1, OpenedStays DEF Claimable, Take
<1>6. ASSUME NEW r \in Repos, NEW p \in Procs, NEW kind \in Commands, Immediate(p, r, kind)
      PROVE  Stays
  <2>1. PICK k \in JobIds : \E J : Take(p, J, RecoveredAttempts, k)
    BY <1>6 DEF Immediate
  <2>2. PICK J : Take(p, J, RecoveredAttempts, k)
    BY <2>1
  <2> QED BY <2>2, OpenedStays DEF Take
<1>7. ASSUME NEW p \in Procs, NEW category \in Outcomes, Finish(p, category) PROVE Stays
  BY <1>2, <1>7 DEF Finish
<1>8. ASSUME NEW p \in Procs, Interrupt(p) PROVE Stays
  BY <1>2, <1>8 DEF Interrupt
<1>9. /\ ClockAdvances => UNCHANGED attempts
      /\ \A r \in Repos :
           /\ \A kind \in Requests : Enqueue(r, kind) => UNCHANGED attempts
           /\ \A interval \in Intervals : EnableSchedule(r, interval) => UNCHANGED attempts
           /\ Unqueue(r) \/ DisableSchedule(r) => UNCHANGED attempts
      /\ \A p \in Procs :
           /\ Heartbeat(p) \/ MarkUncertain(p) \/ LoseClaim(p) \/ Crash(p) => UNCHANGED attempts
           /\ \A status \in Statuses : PublishLocal(p, status) \/ PublishRemote(p, status)
                                       => UNCHANGED attempts
  BY DEF ClockAdvances, Enqueue, EnableSchedule, Unqueue, DisableSchedule, Heartbeat,
         MarkUncertain, LoseClaim, Crash, PublishLocal, PublishRemote, tables
<1> QED BY <1>1, <1>3, <1>4, <1>5, <1>6, <1>7, <1>8, <1>9 DEF Next, vars

\* Terminal jobs and completed attempts never change: no late owner, recovery or
\* retry rewrites history, it only expires, and only with its terminal job.
THEOREM HistoryIsFinalAlways == Spec => HistoryIsFinal
<1>1. Init => BlankAttempts
  BY DEF Init, BlankAttempts, NoAttempt
<1>2. IInv /\ BlankAttempts /\ [Next]_vars => BlankAttempts'
  BY StepAttempts
<1>3. IInv /\ BlankAttempts /\ [Next]_vars =>
        /\ \A i \in JobIds : jobs[i].state \in Terminal
                             => jobs'[i] = jobs[i] \/ jobs'[i].state = "absent"
        /\ \A a \in Tokens : attempts[a].finished # Null
                             => \/ attempts'[a] = attempts[a]
                                \/ /\ attempts'[a] = NoAttempt
                                   /\ jobs[attempts[a].job].state \in Terminal
  BY StepStays, StepAttempts DEF TerminalStays, AttemptStays
<1> QED BY <1>1, <1>2, <1>3, Invariant, PTL DEF Spec, HistoryIsFinal

---------------------------------------------------------------------------
(* The refinement: what claims do is what module ClaimLease allows *)

\* Holder(r) of table J, and the repositories whose claim ran out at time t.
HolderIn(J, r) ==
  IF Running(J, r) = {} THEN Null ELSE J[CHOOSE i \in Running(J, r) : TRUE].token

LapsedIn(J, t) == {r \in Repos : \E i \in JobIds : Expired(J, i, t) /\ J[i].repo = r}

\* Where one claim runs at most, it is the holder.
LEMMA HolderRow ==
  ASSUME NEW J, OneClaim(J), NEW i \in JobIds, J[i].state = "running"
  PROVE  HolderIn(J, J[i].repo) = J[i].token
<1> DEFINE k == CHOOSE k \in Running(J, J[i].repo) : TRUE
<1>1. i \in Running(J, J[i].repo)
  BY DEF Running
<1>2. k \in Running(J, J[i].repo)
  BY <1>1
<1> HIDE DEF k
<1>3. k = i
  BY <1>2 DEF Running, OneClaim
<1> QED BY <1>1, <1>3 DEF HolderIn, k

LEMMA NoHolder ==
  ASSUME NEW J, NEW r, \A i \in JobIds : J[i].state = "running" => J[i].repo # r
  PROVE  HolderIn(J, r) = Null
BY DEF HolderIn, Running

\* A repository whose running row is the same has the same holder.
LEMMA SameHolder ==
  ASSUME NEW J, NEW J2, OneClaim(J), OneClaim(J2), NEW r,
         \A i \in JobIds : /\ J[i].state = "running" /\ J[i].repo = r =>
                                J2[i].state = "running" /\ J2[i].repo = r /\ J2[i].token = J[i].token
                           /\ J2[i].state = "running" /\ J2[i].repo = r =>
                                J[i].state = "running" /\ J[i].repo = r
  PROVE  HolderIn(J2, r) = HolderIn(J, r)
<1>1. CASE \E i \in JobIds : J[i].state = "running" /\ J[i].repo = r
  <2>1. PICK i \in JobIds : J[i].state = "running" /\ J[i].repo = r
    BY <1>1
  <2>2. J2[i].state = "running" /\ J2[i].repo = r /\ J2[i].token = J[i].token
    BY <2>1
  <2>3. HolderIn(J, J[i].repo) = J[i].token
    BY <2>1, HolderRow
  <2>4. HolderIn(J2, J2[i].repo) = J2[i].token
    BY <2>2, HolderRow
  <2> QED BY <2>1, <2>2, <2>3, <2>4
<1>2. CASE \A i \in JobIds : J[i].state = "running" => J[i].repo # r
  BY <1>2, NoHolder
<1> QED BY <1>1, <1>2

\* The refinement mapping, in terms of the table.
LEMMA Mapping ==
  ASSUME IInv, IInv'
  PROVE  /\ \A r \in Repos : Holder(r) = HolderIn(jobs, r) /\ Holder(r)' = HolderIn(jobs', r)
         /\ {r \in Repos : \E i \in ExpiredJobs : jobs[i].repo = r} = LapsedIn(jobs, now)
         /\ {r \in Repos : \E i \in ExpiredJobs : jobs[i].repo = r}' = LapsedIn(jobs', now')
         /\ OneClaim(jobs) /\ OneClaim(jobs')
         /\ jobs \in [JobIds -> Job] /\ jobs' \in [JobIds -> Job]
         /\ now \in Nat /\ now' \in Nat
BY DEF Holder, HolderIn, LapsedIn, ExpiredJobs, IInv, TypeOK, Consistent

Stutter ==
  /\ \A r \in Repos : HolderIn(jobs', r) = HolderIn(jobs, r)
  /\ LapsedIn(jobs', now') = LapsedIn(jobs, now)
  /\ claims' = claims

Refines == [Lease!Next]_(Lease!leaseVars)

LEMMA StutterRefines ==
  ASSUME IInv, IInv', Stutter
  PROVE  Refines
BY Mapping DEF Stutter, Refines, Lease!leaseVars

\* Nothing happens to a claim.
LEMMA CalmRefines ==
  ASSUME IInv, IInv', UNCHANGED <<now, claims>>,
         \A i \in JobIds : /\ jobs[i].state = "running" =>
                                /\ jobs'[i].repo = jobs[i].repo /\ jobs'[i].token = jobs[i].token
                                /\ jobs'[i].state = "running"
                           /\ jobs'[i].state = "running" => jobs[i].state = "running"
                           /\ Expired(jobs', i, now) <=> Expired(jobs, i, now)
  PROVE  Refines
<1>1. \A r \in Repos : HolderIn(jobs', r) = HolderIn(jobs, r)
  BY Mapping, SameHolder
<1>2. LapsedIn(jobs', now') = LapsedIn(jobs, now)
  BY DEF LapsedIn, Expired
<1> QED BY <1>1, <1>2, StutterRefines DEF Stutter

LEMMA ResettledRefines ==
  ASSUME IInv, IInv', UNCHANGED <<now, claims>>, Resettled(jobs, jobs')
  PROVE  Refines
<1>1. \A i \in JobIds : jobs[i].state = "running" \/ jobs'[i].state = "running"
                        => jobs'[i] = jobs[i]
  BY DEF Resettled, Settled, Terminal
<1> QED BY <1>1, CalmRefines DEF Expired

\* Time passes: some claims lapse.
LEMMA LapseRefines ==
  ASSUME IInv, IInv', ClockAdvances
  PROVE  Refines
<1>1. UNCHANGED <<jobs, claims>> /\ now' = now + 1
  BY DEF ClockAdvances, tables
<1>2. \A r \in Repos : HolderIn(jobs', r) = HolderIn(jobs, r)
  BY <1>1
<1> DEFINE S == LapsedIn(jobs', now')
<1>3. LapsedIn(jobs, now) \subseteq S
  <2>1. ASSUME NEW i \in JobIds, Expired(jobs, i, now) PROVE Expired(jobs', i, now')
    <3>1. jobs[i].lease \in Nat /\ now \in Nat
      BY DEF IInv, TypeOK, Job
    <3> QED BY <1>1, <2>1, <3>1 DEF Expired
  <2>2. \A i \in JobIds : jobs'[i].repo = jobs[i].repo
    BY <1>1
  <2> QED BY <2>1, <2>2 DEF LapsedIn
<1>4. \A r \in S : HolderIn(jobs, r) # 0
  <2> SUFFICES ASSUME NEW i \in JobIds, jobs[i].state = "running"
               PROVE  HolderIn(jobs, jobs[i].repo) # 0
    BY <1>1 DEF LapsedIn, Expired
  <2>1. HolderIn(jobs, jobs[i].repo) = jobs[i].token
    BY HolderRow, Mapping
  <2>2. jobs[i].token \in Tokens
    BY DEF IInv, Consistent, RunningRows
  <2> QED BY <2>1, <2>2, NullRow DEF Null
<1>5. S \in SUBSET Repos /\ S = LapsedIn(jobs, now) \cup S
  BY <1>3 DEF LapsedIn
<1>6. Lease!Lapse
  BY <1>1, <1>2, <1>4, <1>5, Mapping DEF Lease!Lapse
<1> QED BY <1>6 DEF Refines, Lease!Next

\* The table without the claims that lapsed.
ClearedTable(J) ==
  \A i \in JobIds : /\ J[i].state = "running" <=> jobs[i].state = "running" /\ i \notin ExpiredJobs
                    /\ J[i].state = "running" => J[i] = jobs[i]

LEMMA ClearedHolders ==
  ASSUME IInv, IInv', NEW J, ClearedTable(J)
  PROVE  /\ OneClaim(J)
         /\ \A r \in Repos : Lease!Cleared[r] = HolderIn(J, r)
<1>1. OneClaim(J)
  BY Mapping DEF ClearedTable, OneClaim
<1>2. ASSUME NEW r \in Repos PROVE Lease!Cleared[r] = HolderIn(J, r)
  <2>1. Lease!Cleared[r] = IF r \in LapsedIn(jobs, now) THEN 0 ELSE HolderIn(jobs, r)
    BY Mapping DEF Lease!Cleared
  <2>2. CASE r \in LapsedIn(jobs, now)
    <3>1. PICK k \in JobIds : Expired(jobs, k, now) /\ jobs[k].repo = r
      BY <2>2 DEF LapsedIn
    <3>2. ASSUME NEW i \in JobIds, J[i].state = "running", J[i].repo = r PROVE FALSE
      <4>1. i = k
        BY <3>1, <3>2, Mapping DEF ClearedTable, OneClaim, Expired
      <4> QED BY <3>1, <3>2, <4>1 DEF ClearedTable, ExpiredJobs
    <3> QED BY <2>1, <2>2, <3>2, NoHolder DEF Null
  <2>3. CASE r \notin LapsedIn(jobs, now)
    <3>1. \A i \in JobIds : jobs[i].repo = r => i \notin ExpiredJobs
      BY <2>3 DEF LapsedIn, ExpiredJobs
    <3>2. HolderIn(J, r) = HolderIn(jobs, r)
      BY <1>1, <3>1, Mapping, SameHolder DEF ClearedTable
    <3> QED BY <2>1, <2>3, <3>2
  <2> QED BY <2>2, <2>3
<1> QED BY <1>1, <1>2

LEMMA RecoveredCleared ==
  ASSUME IInv PROVE ClearedTable(RecoveredJobs)
<1>1. \A i \in JobIds \ ExpiredJobs : RecoveredJobs[i] = jobs[i]
  BY RecoveredFixed
<1>2. ASSUME NEW i \in ExpiredJobs PROVE RecoveredJobs[i].state # "running"
  <2>1. /\ jobs \in [JobIds -> Job] /\ PresentRows(jobs) /\ now \in Nat
        /\ ExpiredJobs \in SUBSET JobIds /\ \A k \in ExpiredJobs : jobs[k].state = "running"
    BY DEF IInv, TypeOK, Consistent, ExpiredJobs, Expired
  <2>2. Settled(RecoveredJobs[i])
    BY <2>1, InterruptedRows DEF RecoveredJobs
  <2> QED BY <2>2 DEF Settled, Terminal
<1> QED BY <1>1, <1>2 DEF ClearedTable

\* A table that differs from a cleared one in rows that nobody holds.
LEMMA ResettledCleared ==
  ASSUME NEW J, NEW J2, ClearedTable(J), Resettled(J, J2)
  PROVE  ClearedTable(J2)
BY DEF ClearedTable, Resettled, Settled, Terminal

LEMMA RecoverRefines ==
  ASSUME IInv, IInv', NEW p \in Procs, RecoverOnly(p)
  PROVE  Refines
<1>1. jobs' = RecoveredJobs /\ UNCHANGED <<now, claims>>
  BY DEF RecoverOnly
<1>2. ClearedTable(jobs')
  BY <1>1, RecoveredCleared
<1>3. \A r \in Repos : Lease!Cleared[r] = HolderIn(jobs', r)
  BY <1>2, ClearedHolders
<1>4. LapsedIn(jobs', now') = {}
  BY <1>1, <1>2 DEF LapsedIn, ClearedTable, Expired, ExpiredJobs
<1>5. Lease!Recover
  BY <1>1, <1>3, <1>4, Mapping DEF Lease!Recover, Lease!Cleared
<1> QED BY <1>5 DEF Refines, Lease!Next

\* A claim of a repository that is free once the lapsed claims are cleared.
LEMMA TakeRefines ==
  ASSUME IInv, IInv', NEW p \in Procs, NEW J \in [JobIds -> Job], NEW A, ClearedTable(J),
         NEW j \in JobIds, J[j].state = "pending", J[j].repo \in Repos,
         Running(J, J[j].repo) = {}, Take(p, J, A, j), now' = now
  PROVE  Refines
<1> DEFINE r == J[j].repo
<1> DEFINE row == J[j]
<1> DEFINE row2 == [row EXCEPT !.state = "running", !.token = claims + 1,
                               !.lease = now + LEASE_SECONDS]
<1>1. jobs' = [J EXCEPT ![j] = row2] /\ claims' = claims + 1 /\ claims < MaxClaims
  BY DEF Take, Claimed, Job
<1>2. /\ row2.state = "running" /\ row2.token = claims + 1 /\ row2.repo = r
      /\ row2.lease = now + LEASE_SECONDS
  <2>1. row \in Job OBVIOUS
  <2> HIDE DEF row
  <2> QED BY <2>1 DEF Job, row
<1> HIDE DEF row2
<1>3. jobs'[j] = row2 /\ \A i \in JobIds \ {j} : jobs'[i] = J[i]
  BY <1>1
<1>4. OneClaim(J) /\ \A q \in Repos : Lease!Cleared[q] = HolderIn(J, q)
  BY ClearedHolders
<1>5. HolderIn(jobs', r) = claims + 1
  BY <1>2, <1>3, HolderRow, Mapping
<1>6. \A q \in Repos : q # r => HolderIn(jobs', q) = HolderIn(J, q)
  BY <1>2, <1>3, <1>4, Mapping, SameHolder
<1>7. HolderIn(J, r) = 0
  BY DEF HolderIn, Null
<1>8. LapsedIn(jobs', now') = {}
  <2>1. ~Expired(jobs', j, now)
    BY <1>2, <1>3, JobTableAssumption, Mapping DEF Expired
  <2>2. \A i \in JobIds \ {j} : ~Expired(jobs', i, now)
    BY <1>3 DEF ClearedTable, Expired, ExpiredJobs
  <2> QED BY <2>1, <2>2 DEF LapsedIn
<1>9. claims + 1 \in Tokens
  BY <1>1, JobTableAssumption DEF IInv, TypeOK, Tokens
<1>10. Lease!Acquire(r)
  <2>1. \A q \in Repos : Holder(q)' = [Lease!Cleared EXCEPT ![r] = claims + 1][q]
    BY <1>4, <1>5, <1>6, Mapping DEF Lease!Cleared
  <2>2. [q \in Repos |-> Holder(q)'] = [Lease!Cleared EXCEPT ![r] = claims + 1]
    BY <2>1 DEF Lease!Cleared
  <2> QED BY <1>1, <1>4, <1>7, <1>8, <1>9, <2>2, Mapping DEF Lease!Acquire
<1> QED BY <1>10 DEF Refines, Lease!Next

\* The owner of a live claim gives it back.
LEMMA ReleaseRefines ==
  ASSUME IInv, IInv', NEW p \in Procs, Owns(p), UNCHANGED <<now, claims>>,
         \A i \in JobIds \ {own[p].job} : jobs[i].state = "running" => jobs'[i] = jobs[i],
         \A i \in JobIds : jobs'[i].state = "running" => i # own[p].job /\ jobs[i].state = "running"
  PROVE  Refines
<1> DEFINE j == own[p].job
<1> DEFINE r == own[p].repo
<1>1. /\ j \in JobIds /\ r \in Repos /\ jobs[j].state = "running" /\ jobs[j].repo = r
      /\ ~Expired(jobs, j, now)
  BY OwnedRow, Mapping DEF Owns, Valid, Expired, Job
<1> HIDE DEF j, r
<1>2. \A i \in JobIds \ {j} : jobs[i].state = "running" => jobs'[i] = jobs[i] /\ jobs[i].repo # r
  BY <1>1, Mapping DEF OneClaim, j
<1>3. \A i \in JobIds : jobs'[i].state = "running" => i # j /\ jobs[i].state = "running"
  BY DEF j
<1>4. HolderIn(jobs', r) = 0
  BY <1>2, <1>3, NoHolder DEF Null
<1>5. \A q \in Repos : q # r => HolderIn(jobs', q) = HolderIn(jobs, q)
  BY <1>1, <1>2, <1>3, Mapping, SameHolder
<1>6. LapsedIn(jobs', now') = LapsedIn(jobs, now) /\ r \notin LapsedIn(jobs, now)
  BY <1>1, <1>2, <1>3 DEF LapsedIn, Expired
<1>7. Lease!Release(r)
  <2> DEFINE holder == [q \in Repos |-> Holder(q)]
  <2>1. \A q \in Repos : Holder(q)' = [holder EXCEPT ![r] = 0][q]
    BY <1>1, <1>4, <1>5, Mapping
  <2>2. [q \in Repos |-> Holder(q)'] = [holder EXCEPT ![r] = 0]
    BY <2>1
  <2> QED BY <1>6, <2>2, Mapping DEF Lease!Release
<1> QED BY <1>1, <1>7 DEF Refines, Lease!Next

LEMMA TickRefines ==
  ASSUME IInv, IInv', NEW p \in Procs, Tick(p)
  PROVE  Refines
<1>1. PICK ids \in [DueSchedules -> JobIds] :
        /\ NextIds(jobs, {ids[r] : r \in DueSchedules})
        /\ jobs' = WithoutJobs(Ticked(ids), Prunable(Ticked(ids), attempts, now - RETENTION))
  BY DEF Tick
<1> DEFINE J == Ticked(ids)
<1> DEFINE gone == Prunable(J, attempts, now - RETENTION)
<1>2. Resettled(jobs, J)
  BY <1>1, TickedRows
<1>3. \A i \in gone : J[i].state \in Terminal
  BY DEF Prunable
<1>4. \A i \in JobIds : jobs'[i] = IF i \in gone THEN NoJob ELSE J[i]
  BY <1>1 DEF WithoutJobs
<1> HIDE DEF J, gone
<1>5. \A i \in JobIds : jobs[i].state = "running" \/ jobs'[i].state = "running"
                        => jobs'[i] = jobs[i]
  BY <1>2, <1>3, <1>4 DEF Resettled, Settled, Terminal, NoJob
<1> QED BY <1>5, CalmRefines DEF Expired, Tick

LEMMA ImmediateRefines ==
  ASSUME IInv, IInv', NEW p \in Procs, NEW r \in Repos, NEW kind \in Kinds,
         Immediate(p, r, kind)
  PROVE  Refines
<1> DEFINE kept == Cancelled(RecoveredJobs, r, Origins,
                             IF kind = "fetch" THEN Kinds ELSE {kind}, now)
<1>1. PICK k \in JobIds :
        /\ NextIds(kept, {k})
        /\ Take(p, Inserted(kept, k, r, kind, "manual", now), RecoveredAttempts, k)
  BY DEF Immediate
<1>2. /\ RecoveredJobs \in [JobIds -> Job] /\ QuietRows(RecoveredJobs)
      /\ PresentRows(RecoveredJobs) /\ now \in Nat
  BY RecoverKeeps DEF Tables, Consistent, IInv, TypeOK
<1>3. Resettled(RecoveredJobs, kept)
  BY <1>2, CancelledRows
<1>4. \A i \in JobIds : ~(RecoveredJobs[i].repo = r /\ RecoveredJobs[i].state = "running")
  BY DEF Immediate, Busy, InFlight
<1>5. kept \in [JobIds -> Job] /\ kept[k].state = "absent"
  BY <1>1, <1>3, FreeId DEF Resettled
<1> HIDE DEF kept
<1> DEFINE J == Inserted(kept, k, r, kind, "manual", now)
<1>6. /\ J \in [JobIds -> Job] /\ Settled(J[k]) /\ J[k].state = "pending" /\ J[k].repo = r
      /\ \A i \in JobIds \ {k} : J[i] = kept[i]
  BY <1>2, <1>5, InsertedRow DEF Origins
<1>7. Take(p, J, RecoveredAttempts, k)
  BY <1>1
<1> HIDE DEF J
<1>8. Resettled(kept, J)
  BY <1>5, <1>6 DEF Resettled
<1>9. ClearedTable(kept) /\ ClearedTable(J)
  BY <1>3, <1>8, RecoveredCleared, ResettledCleared
<1>10. \A i \in JobIds : J[i].state = "running" => J[i] = RecoveredJobs[i]
  BY <1>3, <1>8 DEF Resettled, Settled, Terminal
<1>11. Running(J, J[k].repo) = {}
  BY <1>4, <1>6, <1>10 DEF Running
<1>12. now' = now
  BY DEF Immediate
<1> QED BY <1>6, <1>7, <1>9, <1>11, <1>12, TakeRefines

\* Every step of the queue is a step of the abstract lease, or none: one step here
\* per action.
LEMMA StepRefines ==
  ASSUME IInv, IInv', [Next]_vars
  PROVE  Refines
<1>1. /\ jobs \in [JobIds -> Job] /\ now \in Nat /\ QuietRows(jobs) /\ PresentRows(jobs)
  BY DEF IInv, TypeOK, Consistent
<1>2. UNCHANGED <<jobs, now, claims>> => Refines
  BY CalmRefines DEF Expired
<1>3. CASE ClockAdvances
  BY <1>3, LapseRefines
<1>4. ASSUME NEW r \in Repos, NEW kind \in Requests, Enqueue(r, kind) PROVE Refines
  <2>1. kind \in Kinds BY SchedulerAssumption
  <2> QED BY <1>1, <1>4, <2>1, EnqueuedRows, ResettledRefines DEF Enqueue, Origins
<1>5. ASSUME NEW r \in Repos, Unqueue(r) \/ DisableSchedule(r) PROVE Refines
  BY <1>1, <1>5, CancelledRows, ResettledRefines DEF Unqueue, DisableSchedule
<1>6. ASSUME NEW p \in Procs, Tick(p) PROVE Refines
  BY <1>6, TickRefines
<1>7. ASSUME NEW p \in Procs, RecoverOnly(p) PROVE Refines
  BY <1>7, RecoverRefines
<1>8. ASSUME NEW p \in Procs, Claim(p) PROVE Refines
  <2>1. PICK j \in Claimable(RecoveredJobs, now) : Take(p, RecoveredJobs, RecoveredAttempts, j)
    BY <1>8 DEF Claim
  <2>2. /\ RecoveredJobs \in [JobIds -> Job] /\ PresentRows(RecoveredJobs)
    BY RecoverKeeps DEF Tables, Consistent
  <2>3. /\ j \in JobIds /\ RecoveredJobs[j].state = "pending"
        /\ Running(RecoveredJobs, RecoveredJobs[j].repo) = {}
    BY DEF Claimable, Blocking, Running
  <2>4. RecoveredJobs[j].repo \in Repos
    BY <2>2, <2>3 DEF PresentRows, Job
  <2>5. now' = now
    BY <1>8 DEF Claim
  <2> QED BY <2>1, <2>2, <2>3, <2>4, <2>5, RecoveredCleared, TakeRefines
<1>9. ASSUME NEW r \in Repos, NEW p \in Procs, NEW kind \in Commands, Immediate(p, r, kind)
      PROVE  Refines
  <2>1. kind \in Kinds BY SchedulerAssumption DEF Kinds
  <2> QED BY <1>9, <2>1, ImmediateRefines
<1>10. ASSUME NEW p \in Procs, Heartbeat(p) PROVE Refines
  <2> DEFINE j == own[p].job
  <2> DEFINE row == jobs[j]
  <2> DEFINE row2 == [row EXCEPT !.lease = now + LEASE_SECONDS]
  <2>1. j \in JobIds /\ row \in Job /\ row.state = "running" /\ row.lease > now
    BY <1>10, OwnedRow DEF Heartbeat, Owns, Valid
  <2>2. jobs' = [jobs EXCEPT ![j] = row2] /\ UNCHANGED <<now, claims>>
    BY <1>1, <1>10, <2>1 DEF Heartbeat
  <2>3. /\ row2.token = row.token /\ row2.state = row.state /\ row2.repo = row.repo
        /\ row2.lease = now + LEASE_SECONDS
    <3> HIDE DEF row
    <3> QED BY <2>1 DEF Job
  <2> HIDE DEF row2
  <2>4. \A i \in JobIds : /\ jobs'[i].token = jobs[i].token /\ jobs'[i].state = jobs[i].state
                          /\ jobs'[i].repo = jobs[i].repo
                          /\ i # j => jobs'[i] = jobs[i]
    BY <1>1, <2>1, <2>2, <2>3
  <2>5. ~Expired(jobs, j, now) /\ ~Expired(jobs', j, now)
    BY <1>1, <2>1, <2>2, <2>3, JobTableAssumption DEF Expired, Job
  <2>6. \A i \in JobIds : Expired(jobs', i, now) <=> Expired(jobs, i, now)
    BY <2>4, <2>5 DEF Expired
  <2> QED BY <2>2, <2>4, <2>6, CalmRefines
<1>11. ASSUME NEW p \in Procs, NEW category \in Outcomes, Finish(p, category) PROVE Refines
  <2>1. category \in Categories BY SchedulerAssumption
  <2>2. PICK finished : FinishesTo(p, category, finished)
    BY <1>11, <2>1, FinishTables
  <2>3. Owns(p) /\ UNCHANGED <<now, claims>>
    BY <1>11 DEF Finish
  <2>4. Resettled(finished, jobs')
    BY <2>2, <2>3, FinishResettled
  <2>5. finished[own[p].job].state # "running"
    BY <2>2 DEF FinishesTo, Settled, Terminal
  <2>6. \A i \in JobIds \ {own[p].job} : jobs[i].state = "running" => jobs'[i] = jobs[i]
    BY <2>2, <2>4 DEF FinishesTo, Resettled
  <2>7. \A i \in JobIds : jobs'[i].state = "running" => i # own[p].job /\ jobs[i].state = "running"
    BY <2>2, <2>4, <2>5 DEF FinishesTo, Resettled, Settled, Terminal
  <2> QED BY <2>3, <2>6, <2>7, ReleaseRefines
<1>12. ASSUME NEW p \in Procs, Interrupt(p) PROVE Refines
  <2> DEFINE js == {own[p].job}
  <2>1. Owns(p) /\ UNCHANGED <<now, claims>>
    BY <1>12 DEF Interrupt
  <2>2. js \in SUBSET JobIds /\ \A i \in js : jobs[i].state = "running"
    BY <2>1, OwnedRow
  <2>3. PICK gone : jobs' = Interrupted(jobs, js, gone, now)
    BY <1>12 DEF Interrupt
  <2>4. /\ \A i \in js : Settled(jobs'[i])
        /\ \A i \in JobIds \ js : jobs'[i] = jobs[i]
    <3> HIDE DEF js
    <3> QED BY <1>1, <2>2, <2>3, InterruptedRows
  <2>5. \A i \in JobIds : jobs'[i].state = "running" => i # own[p].job /\ jobs[i].state = "running"
    BY <2>4 DEF Settled, Terminal
  <2> QED BY <2>1, <2>4, <2>5, ReleaseRefines
<1>13. /\ \A r \in Repos, interval \in Intervals :
            EnableSchedule(r, interval) => UNCHANGED <<jobs, now, claims>>
       /\ \A p \in Procs :
            /\ MarkUncertain(p) \/ LoseClaim(p) \/ Crash(p) => UNCHANGED <<jobs, now, claims>>
            /\ \A status \in Statuses : PublishLocal(p, status) \/ PublishRemote(p, status)
                                        => UNCHANGED <<jobs, now, claims>>
  BY DEF EnableSchedule, MarkUncertain, LoseClaim, Crash, PublishLocal, PublishRemote, tables
<1> QED BY <1>2, <1>3, <1>4, <1>5, <1>6, <1>7, <1>8, <1>9, <1>10, <1>11, <1>12, <1>13
        DEF Next, vars

\* The queue, with its recovery, its synchronous commands and its pruning, implements
\* the abstract lease: tokens are fresh, a lapsed claim is never renewed, and no claim
\* is taken from an owner whose lease still runs.
THEOREM ImplementsLeaseAlways == Spec => ImplementsLease
<1>1. Init => Lease!Init
  <2> SUFFICES ASSUME Init PROVE Lease!Init
    OBVIOUS
  <2>1. \A i \in JobIds : jobs[i].state = "absent"
    BY DEF Init, NoJob
  <2>2. \A r \in Repos : Holder(r) = 0
    BY <2>1 DEF Holder, Running, Null
  <2>3. \A i \in JobIds : i \notin ExpiredJobs
    BY <2>1 DEF ExpiredJobs, Expired
  <2>4. claims = 0
    BY DEF Init
  <2> QED BY <2>2, <2>3, <2>4 DEF Lease!Init, ExpiredJobs
<1>2. IInv /\ IInv' /\ [Next]_vars => [Lease!Next]_(Lease!leaseVars)
  BY StepRefines DEF Refines
<1> QED BY <1>1, <1>2, Invariant, PTL DEF Spec, ImplementsLease, Lease!Spec

---------------------------------------------------------------------------
(* The order of a repository's jobs *)

Automatic(J, i) == J[i].state \in {"pending", "running"} /\ J[i].origin = "scheduled"

OneAuto(J) ==
  \A i, k \in JobIds : Automatic(J, i) /\ Automatic(J, k) /\ J[i].repo = J[k].repo => i = k

\* ConversionBarrier of table J.
Barrier(J) ==
  \A c, i \in JobIds :
    /\ J[c].kind = "convert" /\ J[i].repo = J[c].repo
    /\ J[i].state \in {"pending", "running"}
    => /\ J[c].state = "running" => i >= c
       /\ J[c].state = "pending" /\ J[i].state = "running" => i < c

Lined(J) == Barrier(J) /\ OneAuto(J)

LEMMA LinedJobs ==
  /\ Lined(jobs) <=> ConversionBarrier /\ OneAutomaticJob
  /\ Lined(jobs') <=> ConversionBarrier' /\ OneAutomaticJob'
<1>1. (Barrier(jobs) <=> ConversionBarrier) /\ (Barrier(jobs') <=> ConversionBarrier')
  BY DEF Barrier, ConversionBarrier, InFlight, Running
<1>2. /\ OneAuto(jobs) <=> OneAutomaticJob
      /\ OneAuto(jobs') <=> OneAutomaticJob'
  BY DEF OneAuto, Automatic, OneAutomaticJob, InFlight
<1> QED BY <1>1, <1>2 DEF Lined

\* No work in flight is new, and none that was waiting runs.
Thinner(J, J2) ==
  \A i \in JobIds :
    J2[i].state \in {"pending", "running"} =>
      /\ J[i].state \in {"pending", "running"} /\ J2[i].repo = J[i].repo
      /\ J2[i].kind = "convert" <=> J[i].kind = "convert"
      /\ J2[i].origin = "scheduled" => J[i].origin = "scheduled"
      /\ J2[i].state = "running" => J[i].state = "running"

\* A converting job that waits again leaves its repository free.
LEMMA ThinnerLined ==
  ASSUME NEW J, NEW J2, OneClaim(J), Lined(J), Thinner(J, J2)
  PROVE  Lined(J2)
<1>1. OneAuto(J2)
  BY DEF Lined, OneAuto, Automatic, Thinner
<1>2. Barrier(J2)
  <2> SUFFICES ASSUME NEW c \in JobIds, NEW i \in JobIds, J2[c].kind = "convert",
                      J2[i].repo = J2[c].repo, J2[i].state \in {"pending", "running"},
                      J2[c].state \in {"pending", "running"}
               PROVE  /\ J2[c].state = "running" => i >= c
                      /\ J2[c].state = "pending" /\ J2[i].state = "running" => i < c
    BY DEF Barrier
  <2>1. /\ J[c].kind = "convert" /\ J[i].repo = J[c].repo
        /\ J[i].state \in {"pending", "running"} /\ J[c].state \in {"pending", "running"}
        /\ J2[c].state = "running" => J[c].state = "running"
        /\ J2[i].state = "running" => J[i].state = "running"
    BY DEF Thinner
  <2>2. CASE J2[c].state = "running"
    BY <2>1, <2>2 DEF Lined, Barrier
  <2>3. ASSUME J2[c].state = "pending", J2[i].state = "running" PROVE i < c
    <3>1. J[c].state # "running"
      BY <2>1, <2>3 DEF OneClaim
    <3> QED BY <2>1, <2>3, <3>1 DEF Lined, Barrier
  <2> QED BY <2>2, <2>3
<1> QED BY <1>1, <1>2 DEF Lined

\* New jobs come after everything there is; a schedule adds one only where it has none.
LEMMA AddedLined ==
  ASSUME NEW J, NEW J2, Lined(J), NEW N \in SUBSET JobIds,
         \A i \in N : J2[i].state = "pending" /\ \A k \in Exists(J) : k < i,
         \A i \in JobIds \ N : J2[i] = J[i],
         \A i \in N : J2[i].origin = "scheduled" =>
           /\ \A k \in JobIds : Automatic(J, k) => J[k].repo # J2[i].repo
           /\ \A k \in N : J2[k].repo = J2[i].repo => k = i
  PROVE  Lined(J2)
<1>1. OneAuto(J2)
  BY DEF Lined, OneAuto, Automatic
<1>2. Barrier(J2)
  <2> SUFFICES ASSUME NEW c \in JobIds, NEW i \in JobIds, J2[c].kind = "convert",
                      J2[i].repo = J2[c].repo, J2[i].state \in {"pending", "running"},
                      J2[c].state \in {"pending", "running"}
               PROVE  /\ J2[c].state = "running" => i >= c
                      /\ J2[c].state = "pending" /\ J2[i].state = "running" => i < c
    BY DEF Barrier
  <2>1. CASE c \in N
    <3>1. J2[c].state = "pending"
      BY <2>1
    <3>2. J2[i].state = "running" => i \in Exists(J)
      BY DEF Exists
    <3> QED BY <2>1, <3>1, <3>2
  <2>2. CASE c \notin N /\ i \in N
    <3>1. c \in Exists(J) /\ J2[i].state = "pending"
      BY <2>2 DEF Exists
    <3>2. c < i
      BY <2>2, <3>1
    <3> QED BY <3>1, <3>2 DEF JobIds
  <2>3. CASE c \notin N /\ i \notin N
    BY <2>3 DEF Lined, Barrier
  <2> QED BY <2>1, <2>2, <2>3
<1> QED BY <1>1, <1>2 DEF Lined

LEMMA EnqueuedLined ==
  ASSUME NEW J \in [JobIds -> Job], NEW J2, NEW r \in Repos, NEW kind \in Kinds,
         NEW origin \in Origins, NEW t \in Nat, Enqueued(J, J2, r, kind, origin, t),
         OneClaim(J), Lined(J),
         origin = "scheduled" => \A k \in JobIds : Automatic(J, k) => J[k].repo # r
  PROVE  Lined(J2)
<1>1. CASE \E i \in JobIds : /\ Absorbs(J, i, r, kind)
                             /\ J2 = [J EXCEPT ![i] = Merged(@, kind, origin, t)]
  <2>1. PICK i \in JobIds : /\ Absorbs(J, i, r, kind)
                            /\ J2 = [J EXCEPT ![i] = Merged(@, kind, origin, t)]
    BY <1>1
  <2> DEFINE old == J[i]
  <2> DEFINE row == Merged(old, kind, origin, t)
  <2>2. /\ old \in Job /\ old.state = "pending"
        /\ (kind = "convert") = (old.kind = "convert")
    BY <2>1 DEF Absorbs
  <2>3. J2 = [J EXCEPT ![i] = row]
    BY <2>1
  <2> HIDE DEF old
  <2>4. /\ row.state = old.state /\ row.repo = old.repo
        /\ row.kind = "convert" <=> old.kind = "convert"
        /\ row.origin = "scheduled" => old.origin = "scheduled"
    BY <2>2 DEF Merged, Job, Origins
  <2> HIDE DEF row
  <2>5. Thinner(J, J2)
    BY <2>2, <2>3, <2>4 DEF Thinner, old
  <2> QED BY <2>5, ThinnerLined
<1>2. CASE \E i \in JobIds : NextIds(J, {i}) /\ J2 = Inserted(J, i, r, kind, origin, t)
  <2>1. PICK i \in JobIds : NextIds(J, {i}) /\ J2 = Inserted(J, i, r, kind, origin, t)
    BY <1>2
  <2>2. \A k \in Exists(J) : k < i
    BY <2>1 DEF NextIds
  <2>3. /\ J2[i].state = "pending" /\ J2[i].repo = r /\ J2[i].origin = origin
        /\ \A k \in JobIds \ {i} : J2[k] = J[k]
    BY <2>1, InsertedRow
  <2> DEFINE N == {i}
  <2>4. N \in SUBSET JobIds /\ \A k \in N : k = i
    OBVIOUS
  <2> HIDE DEF N
  <2>5. \A k \in JobIds \ N : J2[k] = J[k]
    BY <2>3 DEF N
  <2> QED BY <2>2, <2>3, <2>4, <2>5, AddedLined
<1> QED BY <1>1, <1>2 DEF Enqueued

LEMMA CancelledThinner ==
  ASSUME NEW J \in [JobIds -> Job], NEW r, NEW origins, NEW kinds, NEW t
  PROVE  Thinner(J, Cancelled(J, r, origins, kinds, t))
<1> SUFFICES ASSUME NEW i \in JobIds,
                    Cancelled(J, r, origins, kinds, t)[i].state \in {"pending", "running"}
             PROVE  Cancelled(J, r, origins, kinds, t)[i] = J[i]
  BY DEF Thinner
<1> DEFINE row == J[i]
<1>1. row \in Job OBVIOUS
<1>2. \/ Cancelled(J, r, origins, kinds, t)[i] = row
      \/ Cancelled(J, r, origins, kinds, t)[i] = [row EXCEPT !.state = "cancelled", !.finished = t]
  BY DEF Cancelled
<1> HIDE DEF row
<1>3. [row EXCEPT !.state = "cancelled", !.finished = t].state = "cancelled"
  BY <1>1 DEF Job
<1> QED BY <1>2, <1>3 DEF row

LEMMA InterruptedThinner ==
  ASSUME NEW J \in [JobIds -> Job], NEW js \in SUBSET JobIds, NEW gone, NEW t,
         \A i \in js : J[i].state = "running"
  PROVE  Thinner(J, Interrupted(J, js, gone, t))
<1> SUFFICES ASSUME NEW i \in JobIds
             PROVE  LET row == J[i]
                        row2 == Interrupted(J, js, gone, t)[i]
                    IN  \/ row2 = row
                        \/ /\ row.state = "running" /\ row2.state # "running"
                           /\ row2.repo = row.repo /\ row2.kind = row.kind
                           /\ row2.origin = row.origin
  BY DEF Thinner
<1> DEFINE row == J[i]
<1> DEFINE row2 == Interrupted(J, js, gone, t)[i]
<1>1. CASE i \in js
  <2> DEFINE state == IF i \in gone THEN "cancelled" ELSE "pending"
  <2> DEFINE finished == IF i \in gone THEN t ELSE Null
  <2>1. /\ state \in {"pending", "cancelled"}
        /\ row2 = [row EXCEPT !.state = state, !.token = Null, !.lease = Null,
                              !.due = t, !.finished = finished]
    BY <1>1 DEF Interrupted
  <2> HIDE DEF state, finished
  <2>2. row \in Job /\ row.state = "running"
    BY <1>1
  <2> HIDE DEF row, row2
  <2>3. /\ row2.state = state /\ row2.repo = row.repo /\ row2.kind = row.kind
        /\ row2.origin = row.origin
    BY <2>1, <2>2 DEF Job
  <2>4. row2.state # "running"
    BY <2>1, <2>3
  <2> QED BY <2>2, <2>3, <2>4 DEF row, row2
<1>2. CASE i \notin js
  BY <1>2 DEF Interrupted
<1> QED BY <1>1, <1>2

\* The claimed job is the first of its repository as far as conversions go.
LEMMA TakenLined ==
  ASSUME NEW p \in Procs, NEW J \in [JobIds -> Job], NEW A, NEW j \in JobIds, Lined(J),
         J[j].state = "pending", Running(J, J[j].repo) = {}, Take(p, J, A, j),
         \A c \in InFlight(J, J[j].repo) : "convert" \in {J[c].kind, J[j].kind} => c >= j
  PROVE  Lined(jobs')
<1> DEFINE row == J[j]
<1> DEFINE row2 == [row EXCEPT !.state = "running", !.token = claims + 1,
                               !.lease = now + LEASE_SECONDS]
<1>1. jobs' = [J EXCEPT ![j] = row2]
  BY DEF Take, Claimed, Job
<1>2. /\ row2.state = "running" /\ row2.repo = J[j].repo /\ row2.kind = J[j].kind
      /\ row2.origin = J[j].origin
  <2>1. row \in Job OBVIOUS
  <2> HIDE DEF row
  <2> QED BY <2>1 DEF Job, row
<1> HIDE DEF row2
<1>3. jobs'[j] = row2 /\ \A i \in JobIds \ {j} : jobs'[i] = J[i]
  BY <1>1
<1>4. OneAuto(jobs')
  BY <1>2, <1>3 DEF Lined, OneAuto, Automatic
<1>5. Barrier(jobs')
  <2> SUFFICES ASSUME NEW c \in JobIds, NEW i \in JobIds, jobs'[c].kind = "convert",
                      jobs'[i].repo = jobs'[c].repo, jobs'[i].state \in {"pending", "running"},
                      jobs'[c].state \in {"pending", "running"}
               PROVE  /\ jobs'[c].state = "running" => i >= c
                      /\ jobs'[c].state = "pending" /\ jobs'[i].state = "running" => i < c
    BY DEF Barrier
  <2>1. CASE c = j
    <3>1. i \in InFlight(J, J[j].repo)
      BY <1>2, <1>3, <2>1 DEF InFlight
    <3> QED BY <1>2, <1>3, <2>1, <3>1
  <2>2. CASE c # j /\ i = j
    <3>1. c \in InFlight(J, J[j].repo) /\ J[c].state = "pending"
      BY <1>2, <1>3, <2>2 DEF InFlight, Running
    <3>2. c >= j
      BY <1>3, <2>2, <3>1
    <3> QED BY <1>3, <2>2, <3>1, <3>2 DEF JobIds
  <2>3. CASE c # j /\ i # j
    BY <1>3, <2>3 DEF Lined, Barrier
  <2> QED BY <2>1, <2>2, <2>3
<1> QED BY <1>4, <1>5 DEF Lined

LEMMA TickLined ==
  ASSUME IInv, Lined(jobs), NEW p \in Procs, Tick(p)
  PROVE  Lined(jobs')
<1>1. PICK ids \in [DueSchedules -> JobIds] :
        /\ \A r, s \in DueSchedules : ids[r] = ids[s] => r = s
        /\ NextIds(jobs, {ids[r] : r \in DueSchedules})
        /\ jobs' = WithoutJobs(Ticked(ids), Prunable(Ticked(ids), attempts, now - RETENTION))
  BY DEF Tick
<1> DEFINE J == Ticked(ids)
<1> DEFINE N == {ids[r] : r \in DueSchedules}
<1>2. N \in SUBSET JobIds /\ \A i \in N : \A k \in Exists(jobs) : k < i
  BY <1>1 DEF NextIds
<1>3. \A i \in JobIds \ N : J[i] = jobs[i]
  BY DEF Ticked
<1>4. ASSUME NEW r \in DueSchedules PROVE J[ids[r]].state = "pending" /\ J[ids[r]].repo = r
  <2> DEFINE i == ids[r]
  <2> DEFINE s == CHOOSE s \in DOMAIN ids : ids[s] = i
  <2>1. i \in JobIds /\ \E q \in DOMAIN ids : ids[q] = i
    OBVIOUS
  <2>2. s \in DueSchedules /\ ids[s] = i
    BY <2>1
  <2>3. J[i] = Inserted(jobs, i, s, "check", "scheduled", now)[i]
    BY <2>1 DEF Ticked
  <2>4. s = r
    BY <1>1, <2>2
  <2> HIDE DEF s, i, J
  <2>5. J[i].state = "pending" /\ J[i].repo = s
    BY <2>1, <2>2, <2>3, InsertedRow DEF IInv, TypeOK, Kinds, Origins, DueSchedules
  <2> QED BY <2>4, <2>5 DEF i
<1>5. \A r \in DueSchedules, k \in JobIds : Automatic(jobs, k) => jobs[k].repo # r
  BY DEF DueSchedules, InFlight, Automatic
<1>6. jobs' = WithoutJobs(J, Prunable(J, attempts, now - RETENTION))
  BY <1>1
<1> HIDE DEF J
<1>7. Lined(J)
  <2>1. \A i \in N : /\ J[i].state = "pending" /\ \A k \in Exists(jobs) : k < i
                     /\ \A k \in JobIds : Automatic(jobs, k) => jobs[k].repo # J[i].repo
                     /\ \A k \in N : J[k].repo = J[i].repo => k = i
    BY <1>2, <1>4, <1>5
  <2> HIDE DEF N
  <2> QED BY <1>2, <1>3, <2>1, AddedLined
<1>8. OneClaim(J)
  BY <1>1, TickedRows DEF J, Resettled, Settled, Terminal, IInv, Consistent, OneClaim
<1>9. Thinner(J, jobs')
  BY <1>6 DEF Thinner, WithoutJobs, NoJob
<1> QED BY <1>7, <1>8, <1>9, ThinnerLined

LEMMA RecoveredLined ==
  ASSUME IInv, Lined(jobs)
  PROVE  Lined(RecoveredJobs)
<1>1. jobs \in [JobIds -> Job] /\ OneClaim(jobs) /\ now \in Nat
  BY DEF IInv, TypeOK, Consistent
<1>2. ExpiredJobs \in SUBSET JobIds /\ \A i \in ExpiredJobs : jobs[i].state = "running"
  BY DEF ExpiredJobs, Expired
<1>3. Thinner(jobs, RecoveredJobs)
  BY <1>1, <1>2, InterruptedThinner DEF RecoveredJobs
<1> QED BY <1>1, <1>3, ThinnerLined

LEMMA ImmediateLined ==
  ASSUME IInv, Lined(jobs), NEW p \in Procs, NEW r \in Repos, NEW kind \in {"check", "fetch"},
         Immediate(p, r, kind)
  PROVE  Lined(jobs')
<1> DEFINE kept == Cancelled(RecoveredJobs, r, Origins,
                             IF kind = "fetch" THEN Kinds ELSE {kind}, now)
<1>1. PICK k \in JobIds :
        /\ NextIds(kept, {k})
        /\ Take(p, Inserted(kept, k, r, kind, "manual", now), RecoveredAttempts, k)
  BY DEF Immediate
<1>2. /\ RecoveredJobs \in [JobIds -> Job] /\ QuietRows(RecoveredJobs)
      /\ PresentRows(RecoveredJobs) /\ OneClaim(RecoveredJobs) /\ now \in Nat
  BY RecoverKeeps DEF Tables, Consistent, IInv, TypeOK
<1>3. \A i \in InFlight(RecoveredJobs, r) :
        RecoveredJobs[i].state # "running" /\ RecoveredJobs[i].kind # "convert"
  BY DEF Immediate, Busy
<1>4. Thinner(RecoveredJobs, kept)
  BY <1>2, CancelledThinner
<1>5. kept \in [JobIds -> Job]
  BY <1>2, CancelledRows DEF Resettled
<1>6. Lined(kept)
  BY <1>2, <1>4, RecoveredLined, ThinnerLined
<1> HIDE DEF kept
<1>7. \A i \in InFlight(kept, r) : kept[i].state # "running" /\ kept[i].kind # "convert"
  BY <1>3, <1>4 DEF Thinner, InFlight
<1> DEFINE J == Inserted(kept, k, r, kind, "manual", now)
<1>8. /\ J \in [JobIds -> Job] /\ J[k].state = "pending" /\ J[k].repo = r
      /\ J[k].origin = "manual" /\ J[k].kind = kind
      /\ \A i \in JobIds \ {k} : J[i] = kept[i]
  BY <1>2, <1>5, InsertedRow DEF Origins, Kinds
<1>9. Take(p, J, RecoveredAttempts, k)
  BY <1>1
<1> HIDE DEF J
<1>10. Lined(J)
  <2> DEFINE N == {k}
  <2>1. N \in SUBSET JobIds /\ \A i \in N : i = k
    OBVIOUS
  <2>2. \A i \in Exists(kept) : i < k
    BY <1>1 DEF NextIds
  <2>3. \A i \in JobIds \ N : J[i] = kept[i]
    BY <1>8
  <2> HIDE DEF N
  <2> QED BY <1>6, <1>8, <2>1, <2>2, <2>3, AddedLined
<1>11. Running(J, J[k].repo) = {}
  BY <1>7, <1>8 DEF Running, InFlight
<1>12. \A c \in InFlight(J, J[k].repo) : "convert" \notin {J[c].kind, J[k].kind}
  BY <1>7, <1>8 DEF InFlight
<1> QED BY <1>8, <1>9, <1>10, <1>11, <1>12, TakenLined

LEMMA FinishLined ==
  ASSUME IInv, Lined(jobs), NEW p \in Procs, NEW category \in Categories, Finish(p, category)
  PROVE  Lined(jobs')
<1> DEFINE j == own[p].job
<1> DEFINE r == own[p].repo
<1>1. PICK finished : FinishesTo(p, category, finished)
  BY FinishTables
<1>2. /\ j \in JobIds /\ r \in Repos /\ jobs[j].state = "running" /\ jobs[j].repo = r
      /\ jobs[j].origin = own[p].origin /\ jobs[j].kind = own[p].kind /\ now \in Nat
  BY OwnedRow DEF Finish, Owns, Idle, IInv, OwnInv, TypeOK
<1>3. OneClaim(jobs) /\ OneClaim(finished) /\ finished \in [JobIds -> Job]
  BY <1>1 DEF IInv, Consistent, FinishesTo
<1>4. Thinner(jobs, finished)
  BY <1>1, <1>2 DEF FinishesTo, Thinner, Settled, Terminal
<1>5. Lined(finished)
  BY <1>3, <1>4, ThinnerLined
<1>6. CASE jobs' = finished
  BY <1>5, <1>6
<1>7. CASE /\ Enqueued(finished, jobs', r, "fetch", "scheduled", now)
           /\ own[p].origin = "scheduled" /\ finished[j].state # "pending"
  <2>1. \A k \in JobIds : Automatic(jobs, k) => k = j \/ jobs[k].repo # r
    BY <1>2, <1>7 DEF Lined, OneAuto, Automatic
  <2>2. ~Automatic(finished, j) /\ \A k \in JobIds \ {j} : finished[k] = jobs[k]
    BY <1>1, <1>7 DEF FinishesTo, Automatic, Settled, Terminal
  <2>3. \A k \in JobIds : Automatic(finished, k) => finished[k].repo # r
    BY <2>1, <2>2 DEF Automatic
  <2> QED BY <1>2, <1>3, <1>5, <1>7, <2>3, EnqueuedLined DEF Kinds, Origins
<1> QED BY <1>1, <1>6, <1>7 DEF FinishesTo

\* Every step keeps the order: one step here per action.
LEMMA StepLined ==
  ASSUME IInv, Lined(jobs), [Next]_vars
  PROVE  Lined(jobs')
<1>1. jobs \in [JobIds -> Job] /\ now \in Nat /\ OneClaim(jobs)
  BY DEF IInv, TypeOK, Consistent
<1>2. UNCHANGED jobs => Lined(jobs')
  BY DEF Lined, Barrier, OneAuto, Automatic
<1>3. ASSUME NEW r \in Repos, NEW kind \in Requests, Enqueue(r, kind) PROVE Lined(jobs')
  <2>1. kind \in Kinds BY SchedulerAssumption
  <2> QED BY <1>1, <1>3, <2>1, EnqueuedLined DEF Enqueue, Origins
<1>4. ASSUME NEW r \in Repos, Unqueue(r) \/ DisableSchedule(r) PROVE Lined(jobs')
  BY <1>1, <1>4, CancelledThinner, ThinnerLined DEF Unqueue, DisableSchedule
<1>5. ASSUME NEW p \in Procs, Tick(p) PROVE Lined(jobs')
  BY <1>5, TickLined
<1>6. ASSUME NEW p \in Procs, RecoverOnly(p) PROVE Lined(jobs')
  BY <1>6, RecoveredLined DEF RecoverOnly
<1>7. ASSUME NEW p \in Procs, Claim(p) PROVE Lined(jobs')
  <2>1. PICK j \in Claimable(RecoveredJobs, now) : Take(p, RecoveredJobs, RecoveredAttempts, j)
    BY <1>7 DEF Claim
  <2>2. RecoveredJobs \in [JobIds -> Job]
    BY RecoverKeeps DEF Tables
  <2>3. /\ j \in JobIds /\ RecoveredJobs[j].state = "pending"
        /\ Running(RecoveredJobs, RecoveredJobs[j].repo) = {}
    BY DEF Claimable, Blocking, Running
  <2>4. \A c \in InFlight(RecoveredJobs, RecoveredJobs[j].repo) : c >= j
    BY DEF Claimable, Blocking, InFlight, JobIds
  <2> QED BY <2>1, <2>2, <2>3, <2>4, RecoveredLined, TakenLined
<1>8. ASSUME NEW r \in Repos, NEW p \in Procs, NEW kind \in Commands, Immediate(p, r, kind)
      PROVE  Lined(jobs')
  <2>1. kind \in {"check", "fetch"} BY SchedulerAssumption
  <2> QED BY <1>8, <2>1, ImmediateLined
<1>9. ASSUME NEW p \in Procs, Heartbeat(p) PROVE Lined(jobs')
  <2> DEFINE j == own[p].job
  <2> DEFINE row == jobs[j]
  <2> DEFINE row2 == [row EXCEPT !.lease = now + LEASE_SECONDS]
  <2>1. j \in JobIds /\ row \in Job
    BY <1>9, OwnedRow DEF Heartbeat
  <2>2. jobs' = [jobs EXCEPT ![j] = row2]
    BY <1>1, <1>9, <2>1 DEF Heartbeat
  <2>3. /\ row2.state = row.state /\ row2.repo = row.repo /\ row2.kind = row.kind
        /\ row2.origin = row.origin
    <3> HIDE DEF row
    <3> QED BY <2>1 DEF Job
  <2> HIDE DEF row2
  <2>4. Thinner(jobs, jobs')
    BY <1>1, <2>2, <2>3 DEF Thinner
  <2> QED BY <1>1, <2>4, ThinnerLined
<1>10. ASSUME NEW p \in Procs, NEW category \in Outcomes, Finish(p, category)
       PROVE  Lined(jobs')
  <2>1. category \in Categories BY SchedulerAssumption
  <2> QED BY <1>10, <2>1, FinishLined
<1>11. ASSUME NEW p \in Procs, Interrupt(p) PROVE Lined(jobs')
  <2> DEFINE js == {own[p].job}
  <2>1. js \in SUBSET JobIds /\ \A i \in js : jobs[i].state = "running"
    BY <1>11, OwnedRow DEF Interrupt
  <2>2. PICK gone : jobs' = Interrupted(jobs, js, gone, now)
    BY <1>11 DEF Interrupt
  <2> HIDE DEF js
  <2>3. Thinner(jobs, jobs')
    BY <1>1, <2>1, <2>2, InterruptedThinner
  <2> QED BY <1>1, <2>3, ThinnerLined
<1>12. /\ ClockAdvances => UNCHANGED jobs
       /\ \A r \in Repos, interval \in Intervals : EnableSchedule(r, interval) => UNCHANGED jobs
       /\ \A p \in Procs :
            /\ MarkUncertain(p) \/ LoseClaim(p) \/ Crash(p) => UNCHANGED jobs
            /\ \A status \in Statuses : PublishLocal(p, status) \/ PublishRemote(p, status)
                                        => UNCHANGED jobs
  BY DEF ClockAdvances, EnableSchedule, MarkUncertain, LoseClaim, Crash, PublishLocal,
         PublishRemote, tables
<1> QED BY <1>2, <1>3, <1>4, <1>5, <1>6, <1>7, <1>8, <1>9, <1>10, <1>11, <1>12 DEF Next, vars

LEMMA AlwaysLined == Spec => [](ConversionBarrier /\ OneAutomaticJob)
<1>1. Init => ConversionBarrier /\ OneAutomaticJob
  <2> SUFFICES ASSUME Init PROVE ConversionBarrier /\ OneAutomaticJob
    OBVIOUS
  <2>1. \A i \in JobIds : jobs[i].state = "absent"
    BY DEF Init, NoJob
  <2>2. Lined(jobs)
    BY <2>1 DEF Lined, Barrier, OneAuto, Automatic
  <2> QED BY <2>2, LinedJobs
<1>2. IInv /\ (ConversionBarrier /\ OneAutomaticJob) /\ [Next]_vars
        => (ConversionBarrier /\ OneAutomaticJob)'
  BY StepLined, LinedJobs
<1> QED BY <1>1, <1>2, Invariant, PTL DEF Spec

\* A conversion runs after the earlier work of its repository, and nothing submitted
\* later, not even a synchronous command, runs before it.
THEOREM ConversionBarrierAlways == Spec => []ConversionBarrier
BY AlwaysLined, PTL

\* However ticks, follow-up fetches, retries, recoveries and coalescing requests
\* interleave, a schedule keeps at most one job in flight.
THEOREM OneAutomaticJobAlways == Spec => []OneAutomaticJob
BY AlwaysLined, PTL

---------------------------------------------------------------------------
(* Requests made by hand *)

\* Request i of table J waits on in J2, perhaps as the fetch that includes its check.
StillWaits(J, J2, i) ==
  /\ J2[i].state = "pending" /\ J2[i].origin = "manual" /\ J2[i].repo = J[i].repo
  /\ J2[i].kind = J[i].kind \/ (J[i].kind = "check" /\ J2[i].kind = "fetch")

Request(J, i) == J[i].state = "pending" /\ J[i].origin = "manual"

RequestsWait(J, J2) == \A i \in JobIds : Request(J, i) => StillWaits(J, J2, i)

\* What a step may do to a request made by hand.
RequestKept(i) ==
  jobs[i].state = "pending" /\ jobs[i].origin = "manual" =>
    \/ /\ jobs'[i].state \in {"pending", "running"}
       /\ jobs'[i].origin = "manual"
       /\ \/ jobs'[i].kind = jobs[i].kind
          \/ jobs[i].kind = "check" /\ jobs'[i].kind = "fetch"
    \/ /\ jobs'[i].state = "cancelled"
       /\ \/ UNCHANGED <<sched, own>> /\ InFlight(jobs', jobs[i].repo) = Running(jobs, jobs[i].repo)
          \/ \E k \in Running(jobs', jobs[i].repo) :
               jobs'[k].kind \in {"fetch", jobs[i].kind}

LEMMA WaitingKept ==
  ASSUME RequestsWait(jobs, jobs') PROVE \A i \in JobIds : RequestKept(i)
BY DEF RequestsWait, StillWaits, Request, RequestKept

LEMMA EnqueuedWait ==
  ASSUME NEW J \in [JobIds -> Job], NEW J2, NEW r \in Repos, NEW kind \in Kinds,
         NEW origin \in Origins, NEW t \in Nat, Enqueued(J, J2, r, kind, origin, t)
  PROVE  RequestsWait(J, J2)
<1>1. CASE \E i \in JobIds : /\ Absorbs(J, i, r, kind)
                             /\ J2 = [J EXCEPT ![i] = Merged(@, kind, origin, t)]
  <2>1. PICK i \in JobIds : /\ Absorbs(J, i, r, kind)
                            /\ J2 = [J EXCEPT ![i] = Merged(@, kind, origin, t)]
    BY <1>1
  <2> DEFINE old == J[i]
  <2> DEFINE row == Merged(old, kind, origin, t)
  <2>2. /\ old \in Job /\ old.state = "pending"
        /\ (kind = "convert") = (old.kind = "convert")
    BY <2>1 DEF Absorbs
  <2>3. J2 = [J EXCEPT ![i] = row]
    BY <2>1
  <2> HIDE DEF old
  <2>4. /\ row.state = old.state /\ row.repo = old.repo
        /\ old.origin = "manual" => row.origin = "manual"
        /\ row.kind = old.kind \/ (old.kind = "check" /\ row.kind = "fetch")
    BY <2>2 DEF Merged, Job, Kinds
  <2> HIDE DEF row
  <2>5. J2[i] = row /\ J[i] = old /\ \A k \in JobIds \ {i} : J2[k] = J[k]
    BY <2>3 DEF old
  <2> QED BY <2>2, <2>4, <2>5 DEF RequestsWait, StillWaits, Request
<1>2. CASE \E i \in JobIds : NextIds(J, {i}) /\ J2 = Inserted(J, i, r, kind, origin, t)
  <2>1. PICK i \in JobIds : NextIds(J, {i}) /\ J2 = Inserted(J, i, r, kind, origin, t)
    BY <1>2
  <2>2. J[i].state = "absent" /\ \A k \in JobIds \ {i} : J2[k] = J[k]
    BY <2>1, FreeId, InsertedRow
  <2> QED BY <2>2 DEF RequestsWait, StillWaits, Request
<1> QED BY <1>1, <1>2 DEF Enqueued

LEMMA TickedWait ==
  ASSUME IInv, NEW p \in Procs, Tick(p)
  PROVE  RequestsWait(jobs, jobs')
<1>1. PICK ids \in [DueSchedules -> JobIds] :
        /\ NextIds(jobs, {ids[r] : r \in DueSchedules})
        /\ jobs' = WithoutJobs(Ticked(ids), Prunable(Ticked(ids), attempts, now - RETENTION))
  BY DEF Tick
<1> SUFFICES ASSUME NEW i \in JobIds, jobs[i].state = "pending" PROVE jobs'[i] = jobs[i]
  BY DEF RequestsWait, StillWaits, Request
<1>2. ~\E r \in DOMAIN ids : ids[r] = i
  BY <1>1, FreeId
<1>3. Ticked(ids)[i] = jobs[i]
  BY <1>2 DEF Ticked
<1>4. i \notin Prunable(Ticked(ids), attempts, now - RETENTION)
  BY <1>3 DEF Prunable, Terminal
<1> QED BY <1>1, <1>3, <1>4 DEF WithoutJobs

\* Unqueueing takes all of a repository's waiting work.
LEMMA UnqueuedRows ==
  ASSUME IInv, NEW r \in Repos, jobs' = Cancelled(jobs, r, Origins, Kinds, now)
  PROVE  /\ \A i \in JobIds : jobs[i].repo # r \/ jobs[i].state # "pending" => jobs'[i] = jobs[i]
         /\ \A i \in JobIds : jobs[i].repo = r /\ jobs[i].state = "pending" => jobs'[i].state = "cancelled"
         /\ InFlight(jobs', r) = Running(jobs, r)
<1>1. ASSUME NEW i \in JobIds, jobs[i].repo = r, jobs[i].state = "pending"
      PROVE  jobs'[i].state = "cancelled"
  <2> DEFINE row == jobs[i]
  <2>1. row \in Job BY DEF IInv, TypeOK
  <2>2. row.origin \in Origins /\ row.kind \in Kinds
    <3> HIDE DEF row
    <3> QED BY <2>1 DEF Job
  <2>3. jobs'[i] = [row EXCEPT !.state = "cancelled", !.finished = now]
    BY <1>1, <2>2 DEF Cancelled
  <2> HIDE DEF row
  <2> QED BY <2>1, <2>3 DEF Job
<1>2. \A i \in JobIds : jobs[i].repo # r \/ jobs[i].state # "pending" => jobs'[i] = jobs[i]
  BY DEF Cancelled
<1>3. \A i \in JobIds : jobs[i].repo = r /\ jobs[i].state = "pending" => jobs'[i].state = "cancelled"
  BY <1>1
<1>4. InFlight(jobs', r) = Running(jobs, r)
  <2>1. \A i \in JobIds : jobs[i].repo # r => jobs'[i].repo # r
    BY <1>2
  <2> QED BY <1>2, <1>3, <2>1 DEF InFlight, Running
<1> QED BY <1>2, <1>3, <1>4

LEMMA UnqueuedKept ==
  ASSUME IInv, NEW r \in Repos, Unqueue(r)
  PROVE  \A i \in JobIds : RequestKept(i)
<1>1. jobs' = Cancelled(jobs, r, Origins, Kinds, now) /\ UNCHANGED <<sched, own>>
  BY DEF Unqueue
<1> QED BY <1>1, UnqueuedRows DEF RequestKept

\* A synchronous command takes the waiting work that it does itself.
LEMMA ImmediateKept ==
  ASSUME IInv, NEW p \in Procs, NEW r \in Repos, NEW kind \in {"check", "fetch"},
         Immediate(p, r, kind)
  PROVE  \A i \in JobIds : RequestKept(i)
<1> DEFINE kinds == IF kind = "fetch" THEN Kinds ELSE {kind}
<1> DEFINE kept == Cancelled(RecoveredJobs, r, Origins, kinds, now)
<1>1. PICK k \in JobIds :
        /\ NextIds(kept, {k})
        /\ Take(p, Inserted(kept, k, r, kind, "manual", now), RecoveredAttempts, k)
  BY DEF Immediate
<1>2. /\ RecoveredJobs \in [JobIds -> Job] /\ QuietRows(RecoveredJobs)
      /\ PresentRows(RecoveredJobs) /\ now \in Nat
  BY RecoverKeeps DEF Tables, Consistent, IInv, TypeOK
<1>3. kept \in [JobIds -> Job] /\ kept[k].state = "absent"
  BY <1>1, <1>2, CancelledRows, FreeId DEF Resettled
<1>4. ASSUME NEW i \in JobIds, jobs[i].state = "pending"
      PROVE  \/ kept[i] = jobs[i]
             \/ kept[i].state = "cancelled" /\ jobs[i].repo = r /\ jobs[i].kind \in kinds
  <2> DEFINE row == jobs[i]
  <2>1. RecoveredJobs[i] = row /\ row \in Job
    BY <1>4, RecoveredFixed DEF ExpiredJobs, Expired, IInv, TypeOK
  <2>2. \/ kept[i] = row
        \/ /\ kept[i] = [row EXCEPT !.state = "cancelled", !.finished = now]
           /\ row.repo = r /\ row.kind \in kinds
    BY <2>1 DEF Cancelled
  <2> HIDE DEF row, kept, kinds
  <2>3. [row EXCEPT !.state = "cancelled", !.finished = now].state = "cancelled"
    BY <2>1 DEF Job
  <2> QED BY <2>2, <2>3 DEF row
<1> HIDE DEF kept
<1> DEFINE J == Inserted(kept, k, r, kind, "manual", now)
<1>5. /\ J \in [JobIds -> Job] /\ J[k].repo = r /\ J[k].kind = kind
      /\ \A i \in JobIds \ {k} : J[i] = kept[i]
  BY <1>2, <1>3, InsertedRow DEF Origins, Kinds
<1>6. Take(p, J, RecoveredAttempts, k)
  BY <1>1
<1> HIDE DEF J
<1>7. /\ k \in Running(jobs', r) /\ jobs'[k].kind = kind
      /\ \A i \in JobIds \ {k} : jobs'[i] = kept[i]
  <2> DEFINE row == J[k]
  <2> DEFINE row2 == [row EXCEPT !.state = "running", !.token = claims + 1,
                                 !.lease = now + LEASE_SECONDS]
  <2>1. jobs' = [J EXCEPT ![k] = row2]
    BY <1>5, <1>6 DEF Take, Claimed, Job
  <2>2. row \in Job /\ row.repo = r /\ row.kind = kind
    BY <1>5
  <2> HIDE DEF row
  <2>3. row2.state = "running" /\ row2.repo = r /\ row2.kind = kind
    BY <2>2 DEF Job
  <2> HIDE DEF row2
  <2>4. jobs'[k] = row2 /\ \A i \in JobIds \ {k} : jobs'[i] = J[i]
    BY <1>5, <2>1
  <2> QED BY <1>5, <2>3, <2>4 DEF Running
<1> SUFFICES ASSUME NEW i \in JobIds, jobs[i].state = "pending", jobs[i].origin = "manual"
             PROVE  RequestKept(i)
  BY DEF RequestKept
<1>8. i # k
  BY <1>3, <1>4
<1>9. CASE kept[i] = jobs[i]
  BY <1>7, <1>8, <1>9 DEF RequestKept
<1>10. CASE kept[i].state = "cancelled" /\ jobs[i].repo = r /\ jobs[i].kind \in kinds
  BY <1>7, <1>8, <1>10 DEF RequestKept
<1> QED BY <1>4, <1>9, <1>10

\* What no step does to a request made by hand: one step here per action.
LEMMA StepRequests ==
  ASSUME IInv, [Next]_vars
  PROVE  \A i \in JobIds : RequestKept(i)
<1> DEFINE Kept2 == \A i \in JobIds : RequestKept(i)
<1>1. jobs \in [JobIds -> Job] /\ now \in Nat
  BY DEF IInv, TypeOK
<1>2. UNCHANGED jobs => Kept2
  BY DEF RequestKept
<1>3. ASSUME NEW r \in Repos, NEW kind \in Requests, Enqueue(r, kind) PROVE Kept2
  <2>1. kind \in Kinds BY SchedulerAssumption
  <2> QED BY <1>1, <1>3, <2>1, EnqueuedWait, WaitingKept DEF Enqueue, Origins
<1>4. ASSUME NEW r \in Repos, Unqueue(r) PROVE Kept2
  BY <1>4, UnqueuedKept
<1>5. ASSUME NEW r \in Repos, DisableSchedule(r) PROVE Kept2
  <2>1. \A i \in JobIds : jobs[i].origin = "manual" => jobs'[i] = jobs[i]
    BY <1>5 DEF DisableSchedule, Cancelled
  <2> QED BY <2>1 DEF RequestKept
<1>6. ASSUME NEW p \in Procs, Tick(p) PROVE Kept2
  BY <1>6, TickedWait, WaitingKept
<1>7. \A i \in JobIds : jobs[i].state = "pending" => RecoveredJobs[i] = jobs[i]
  BY RecoveredFixed DEF ExpiredJobs, Expired
<1>8. ASSUME NEW p \in Procs, RecoverOnly(p) PROVE Kept2
  BY <1>7, <1>8 DEF RecoverOnly, RequestKept
<1>9. ASSUME NEW p \in Procs, Claim(p) PROVE Kept2
  <2>1. PICK j \in Claimable(RecoveredJobs, now) : Take(p, RecoveredJobs, RecoveredAttempts, j)
    BY <1>9 DEF Claim
  <2> DEFINE row == RecoveredJobs[j]
  <2> DEFINE row2 == [row EXCEPT !.state = "running", !.token = claims + 1,
                                 !.lease = now + LEASE_SECONDS]
  <2>2. j \in JobIds /\ RecoveredJobs \in [JobIds -> Job] /\ row \in Job
    BY RecoverKeeps DEF Claimable, Tables
  <2>3. jobs' = [RecoveredJobs EXCEPT ![j] = row2]
    BY <2>1, <2>2 DEF Take, Claimed, Job
  <2>4. row2.state = "running" /\ row2.kind = row.kind /\ row2.origin = row.origin
    <3> HIDE DEF row
    <3> QED BY <2>2 DEF Job
  <2> HIDE DEF row2
  <2>5. jobs'[j] = row2 /\ \A i \in JobIds \ {j} : jobs'[i] = RecoveredJobs[i]
    BY <2>2, <2>3
  <2> QED BY <1>7, <2>4, <2>5 DEF RequestKept
<1>10. ASSUME NEW r \in Repos, NEW p \in Procs, NEW kind \in Commands, Immediate(p, r, kind)
       PROVE  Kept2
  <2>1. kind \in {"check", "fetch"} BY SchedulerAssumption
  <2> QED BY <1>10, <2>1, ImmediateKept
<1>11. ASSUME NEW p \in Procs, Heartbeat(p) PROVE Kept2
  <2>1. jobs[own[p].job].state = "running" /\ \A i \in JobIds \ {own[p].job} : jobs'[i] = jobs[i]
    BY <1>1, <1>11, OwnedRow DEF Heartbeat
  <2> QED BY <2>1 DEF RequestKept
<1>12. ASSUME NEW p \in Procs, NEW category \in Outcomes, Finish(p, category) PROVE Kept2
  <2>1. category \in Categories BY SchedulerAssumption
  <2>2. PICK finished : FinishesTo(p, category, finished)
    BY <1>12, <2>1, FinishTables
  <2>3. jobs[own[p].job].state = "running" /\ own[p].repo \in Repos
    BY <1>12, OwnedRow DEF Finish
  <2>4. \A i \in JobIds : jobs[i].state = "pending" => finished[i] = jobs[i]
    BY <2>2, <2>3 DEF FinishesTo
  <2>5. CASE jobs' = finished
    BY <2>4, <2>5 DEF RequestKept
  <2>6. CASE Enqueued(finished, jobs', own[p].repo, "fetch", "scheduled", now)
    <3>1. RequestsWait(finished, jobs')
      BY <1>1, <2>2, <2>3, <2>6, EnqueuedWait DEF FinishesTo, Kinds, Origins
    <3>2. RequestsWait(jobs, jobs')
      BY <2>4, <3>1 DEF RequestsWait, StillWaits, Request
    <3> QED BY <3>2, WaitingKept
  <2> QED BY <2>2, <2>5, <2>6 DEF FinishesTo
<1>13. ASSUME NEW p \in Procs, Interrupt(p) PROVE Kept2
  <2>1. jobs[own[p].job].state = "running"
    BY <1>13, OwnedRow DEF Interrupt
  <2>2. \A i \in JobIds \ {own[p].job} : jobs'[i] = jobs[i]
    BY <1>13 DEF Interrupt, Interrupted
  <2> QED BY <2>1, <2>2 DEF RequestKept
<1>14. /\ ClockAdvances => UNCHANGED jobs
       /\ \A r \in Repos, interval \in Intervals : EnableSchedule(r, interval) => UNCHANGED jobs
       /\ \A p \in Procs :
            /\ MarkUncertain(p) \/ LoseClaim(p) \/ Crash(p) => UNCHANGED jobs
            /\ \A status \in Statuses : PublishLocal(p, status) \/ PublishRemote(p, status)
                                        => UNCHANGED jobs
  BY DEF ClockAdvances, EnableSchedule, MarkUncertain, LoseClaim, Crash, PublishLocal,
         PublishRemote, tables
<1> QED BY <1>2, <1>3, <1>4, <1>5, <1>6, <1>8, <1>9, <1>10, <1>11, <1>12, <1>13, <1>14
        DEF Next, vars

\* A request made by hand is never dropped on the side: neither coalescing, claiming,
\* recovery, a disabled schedule nor the expiry of history loses it.
THEOREM ManualRequestKeptAlways == Spec => ManualRequestKept
<1>1. IInv /\ [Next]_vars =>
        \A i \in JobIds :
          jobs[i].state = "pending" /\ jobs[i].origin = "manual" =>
            \/ /\ jobs'[i].state \in {"pending", "running"}
               /\ jobs'[i].origin = "manual"
               /\ \/ jobs'[i].kind = jobs[i].kind
                  \/ jobs[i].kind = "check" /\ jobs'[i].kind = "fetch"
            \/ /\ jobs'[i].state = "cancelled"
               /\ \/ UNCHANGED <<sched, own>> /\ InFlight(jobs', jobs[i].repo) = Running(jobs, jobs[i].repo)
                  \/ \E k \in Running(jobs', jobs[i].repo) :
                       jobs'[k].kind \in {"fetch", jobs[i].kind}
  BY StepRequests DEF RequestKept
<1> QED BY <1>1, Invariant, PTL DEF Spec, ManualRequestKept

---------------------------------------------------------------------------
(* The retry budget *)

\* The attempts of job i that failed in transport.
Failures(A, i) == {a \in Tokens : A[a].job = i /\ A[a].category = "transport"}

Budget(n) == IF n < Len(RETRIES) THEN n ELSE Len(RETRIES)

Tallied(J, A) ==
  /\ \A a \in Tokens : Open(A, a) => A[a].category # "transport"
  /\ \A i \in Exists(J) : J[i].retry = Budget(Cardinality(Failures(A, i)))

LEMMA TalliedTables ==
  /\ Tallied(jobs, attempts) => RetryBudget
  /\ UNCHANGED <<jobs, attempts>> /\ Tallied(jobs, attempts) => Tallied(jobs', attempts')
BY DEF Tallied, RetryBudget, Failures, Budget

LEMMA FailuresFinite ==
  ASSUME NEW A, NEW i
  PROVE  IsFiniteSet(Failures(A, i)) /\ Cardinality(Failures(A, i)) \in Nat
<1>1. IsFiniteSet(Tokens)
  BY JobTableAssumption, FS_Interval DEF Tokens
<1>2. Failures(A, i) \in SUBSET Tokens
  BY DEF Failures
<1> QED BY <1>1, <1>2, FS_Subset, FS_CardinalityType

\* A row that is there keeps its retry count; a new one starts at none.
RetriesKept(J, J2) ==
  \A i \in Exists(J2) : IF i \in Exists(J) THEN J2[i].retry = J[i].retry
                        ELSE J2[i].retry = 0

LEMMA RetriesTransitive ==
  ASSUME NEW J, NEW J2, NEW J3, RetriesKept(J, J2), RetriesKept(J2, J3),
         \A i \in Exists(J) : i \in Exists(J2)
  PROVE  RetriesKept(J, J3)
BY DEF RetriesKept, Exists

\* An id that is free was never tried, as its attempts went with its job.
LEMMA RetriesTallied ==
  ASSUME NEW J, NEW J2, NEW A, NEW A2, NEW n, Tallied(J, A), AttemptRows(J, A, n),
         RetriesKept(J, J2),
         \A a \in Tokens : Open(A2, a) => A2[a].category # "transport",
         \A i \in Exists(J2) : Failures(A2, i) = Failures(A, i)
  PROVE  Tallied(J2, A2)
<1> SUFFICES ASSUME NEW i \in Exists(J2)
             PROVE  J2[i].retry = Budget(Cardinality(Failures(A2, i)))
  BY DEF Tallied
<1>1. CASE i \in Exists(J)
  BY <1>1 DEF Tallied, RetriesKept
<1>2. CASE i \notin Exists(J)
  <2>1. i \in JobIds /\ J[i].state = "absent" /\ i # Null
    BY <1>2, NullRow DEF Exists
  <2>2. Failures(A, i) = {}
    BY <2>1 DEF Failures, AttemptRows
  <2>3. J2[i].retry = 0
    BY <1>2 DEF RetriesKept
  <2>4. Budget(0) = 0
    <3>1. Len(RETRIES) \in Nat BY JobTableAssumption
    <3> QED BY <3>1 DEF Budget
  <2>5. Cardinality(Failures(A, i)) = 0
    BY <2>2, FS_EmptySet
  <2> QED BY <2>3, <2>4, <2>5
<1> QED BY <1>1, <1>2

LEMMA InsertedRetries ==
  ASSUME NEW J \in [JobIds -> Job], NEW i \in JobIds, J[i].state = "absent", NEW r \in Repos,
         NEW kind \in Kinds, NEW origin \in Origins, NEW t \in Nat
  PROVE  /\ RetriesKept(J, Inserted(J, i, r, kind, origin, t))
         /\ \A k \in Exists(J) : k \in Exists(Inserted(J, i, r, kind, origin, t))
BY InsertedRow DEF RetriesKept, Exists

LEMMA EnqueuedRetries ==
  ASSUME NEW J \in [JobIds -> Job], NEW J2, NEW r \in Repos, NEW kind \in Kinds,
         NEW origin \in Origins, NEW t \in Nat, Enqueued(J, J2, r, kind, origin, t)
  PROVE  RetriesKept(J, J2)
<1>1. CASE \E i \in JobIds : /\ Absorbs(J, i, r, kind)
                             /\ J2 = [J EXCEPT ![i] = Merged(@, kind, origin, t)]
  <2>1. PICK i \in JobIds : /\ Absorbs(J, i, r, kind)
                            /\ J2 = [J EXCEPT ![i] = Merged(@, kind, origin, t)]
    BY <1>1
  <2> DEFINE old == J[i]
  <2> DEFINE row == Merged(old, kind, origin, t)
  <2>2. old \in Job /\ old.state = "pending"
    BY <2>1 DEF Absorbs
  <2>3. J2 = [J EXCEPT ![i] = row]
    BY <2>1
  <2> HIDE DEF old
  <2>4. row.state = old.state /\ row.retry = old.retry
    BY <2>2 DEF Merged, Job
  <2> HIDE DEF row
  <2>5. J2[i] = row /\ J[i] = old /\ \A k \in JobIds \ {i} : J2[k] = J[k]
    BY <2>3 DEF old
  <2> QED BY <2>2, <2>4, <2>5 DEF RetriesKept, Exists
<1>2. CASE \E i \in JobIds : NextIds(J, {i}) /\ J2 = Inserted(J, i, r, kind, origin, t)
  BY <1>2, FreeId, InsertedRetries
<1> QED BY <1>1, <1>2 DEF Enqueued

LEMMA CancelledRetries ==
  ASSUME NEW J \in [JobIds -> Job], NEW r, NEW origins, NEW kinds, NEW t
  PROVE  LET J2 == Cancelled(J, r, origins, kinds, t)
         IN  RetriesKept(J, J2) /\ Exists(J2) = Exists(J)
<1> DEFINE J2 == Cancelled(J, r, origins, kinds, t)
<1>1. ASSUME NEW i \in JobIds
      PROVE  /\ J2[i].retry = J[i].retry
             /\ J2[i].state = "absent" <=> J[i].state = "absent"
  <2> DEFINE row == J[i]
  <2>1. row \in Job OBVIOUS
  <2>2. \/ J2[i] = row
        \/ row.state = "pending" /\ J2[i] = [row EXCEPT !.state = "cancelled", !.finished = t]
    BY DEF Cancelled
  <2> HIDE DEF row, J2
  <2>3. /\ [row EXCEPT !.state = "cancelled", !.finished = t].state = "cancelled"
        /\ [row EXCEPT !.state = "cancelled", !.finished = t].retry = row.retry
    BY <2>1 DEF Job
  <2> QED BY <2>2, <2>3 DEF row
<1> QED BY <1>1 DEF RetriesKept, Exists

LEMMA InterruptedRetries ==
  ASSUME NEW J \in [JobIds -> Job], NEW js \in SUBSET JobIds, NEW gone, NEW t,
         \A i \in js : J[i].state = "running"
  PROVE  LET J2 == Interrupted(J, js, gone, t)
         IN  RetriesKept(J, J2) /\ Exists(J2) = Exists(J)
<1> DEFINE J2 == Interrupted(J, js, gone, t)
<1>1. ASSUME NEW i \in JobIds
      PROVE  /\ J2[i].retry = J[i].retry
             /\ J2[i].state = "absent" <=> J[i].state = "absent"
  <2> DEFINE row == J[i]
  <2>1. CASE i \in js
    <3> DEFINE state == IF i \in gone THEN "cancelled" ELSE "pending"
    <3> DEFINE finished == IF i \in gone THEN t ELSE Null
    <3>1. /\ state \in {"pending", "cancelled"}
          /\ J2[i] = [row EXCEPT !.state = state, !.token = Null, !.lease = Null,
                                 !.due = t, !.finished = finished]
      BY <2>1 DEF Interrupted
    <3> HIDE DEF state, finished
    <3>2. row \in Job /\ row.state = "running"
      BY <2>1
    <3> HIDE DEF row, J2
    <3>3. J2[i].state = state /\ J2[i].retry = row.retry
      BY <3>1, <3>2 DEF Job
    <3>4. J2[i].state # "absent"
      BY <3>1, <3>3
    <3> QED BY <3>2, <3>3, <3>4 DEF row
  <2>2. CASE i \notin js
    BY <2>2 DEF Interrupted
  <2> QED BY <2>1, <2>2
<1> QED BY <1>1 DEF RetriesKept, Exists

\* Attempts that are closed for another reason do not count.
LEMMA ClosedFailures ==
  ASSUME NEW A \in [Tokens -> Attempt], NEW js, NEW outcome, NEW category, NEW t,
         category # "transport", t # Null,
         \A a \in Tokens : Open(A, a) => A[a].category # "transport"
  PROVE  LET A2 == Closed(A, js, outcome, category, t)
         IN  /\ \A a \in Tokens : Open(A2, a) => A2[a].category # "transport"
             /\ \A i \in JobIds : Failures(A2, i) = Failures(A, i)
<1> DEFINE A2 == Closed(A, js, outcome, category, t)
<1>1. ASSUME NEW a \in Tokens
      PROVE  /\ A2[a] = A[a] \/ (A2[a].job = A[a].job /\ Open(A, a) /\ A2[a].category = category
                                 /\ A2[a].finished = t)
  <2> DEFINE row == A[a]
  <2>1. row \in Attempt OBVIOUS
  <2>2. \/ A2[a] = row
        \/ Open(A, a) /\ A2[a] = [row EXCEPT !.outcome = outcome, !.category = category,
                                             !.finished = t]
    BY DEF Closed
  <2> HIDE DEF row, A2
  <2> QED BY <2>1, <2>2 DEF row, Attempt
<1> HIDE DEF A2
<1>2. \A a \in Tokens : Open(A2, a) => A2[a].category # "transport"
  BY <1>1 DEF Open
<1>3. \A i \in JobIds : Failures(A2, i) = Failures(A, i)
  BY <1>1 DEF Failures
<1> QED BY <1>2, <1>3 DEF A2

LEMMA RecoveredTallied ==
  ASSUME IInv, Tallied(jobs, attempts)
  PROVE  Tallied(RecoveredJobs, RecoveredAttempts)
<1>1. /\ jobs \in [JobIds -> Job] /\ attempts \in [Tokens -> Attempt] /\ now \in Nat
      /\ now # Null /\ AttemptRows(jobs, attempts, claims)
  BY DEF IInv, TypeOK, Consistent, Null
<1>2. ExpiredJobs \in SUBSET JobIds /\ \A i \in ExpiredJobs : jobs[i].state = "running"
  BY DEF ExpiredJobs, Expired
<1>3. RetriesKept(jobs, RecoveredJobs)
  BY <1>1, <1>2, InterruptedRetries DEF RecoveredJobs
<1>4. \A a \in Tokens : Open(attempts, a) => attempts[a].category # "transport"
  BY DEF Tallied
<1>5. /\ \A a \in Tokens : Open(RecoveredAttempts, a) => RecoveredAttempts[a].category # "transport"
      /\ \A i \in JobIds : Failures(RecoveredAttempts, i) = Failures(attempts, i)
  BY <1>1, <1>4, ClosedFailures DEF RecoveredAttempts
<1> QED BY <1>1, <1>3, <1>5, RetriesTallied DEF Exists

LEMMA TakenTallied ==
  ASSUME IInv, NEW p \in Procs, NEW J, NEW A, Tables(J, A), AttemptRows(J, A, claims),
         Tallied(J, A), NEW j \in JobIds, J[j].state = "pending", Take(p, J, A, j)
  PROVE  Tallied(jobs', attempts')
<1>1. claims \in Nat /\ claims + 1 \in Tokens
  BY JobTableAssumption DEF IInv, TypeOK, Take, Tokens
<1>2. RetriesKept(J, jobs') /\ Exists(jobs') = Exists(J)
  <2> DEFINE row == J[j]
  <2> DEFINE row2 == [row EXCEPT !.state = "running", !.token = claims + 1,
                                 !.lease = now + LEASE_SECONDS]
  <2>1. row \in Job /\ row.state = "pending" /\ J \in [JobIds -> Job]
    BY DEF Tables
  <2>2. jobs' = [J EXCEPT ![j] = row2]
    BY <2>1 DEF Take, Claimed, Job
  <2>3. row2.state = "running" /\ row2.retry = row.retry
    <3> HIDE DEF row
    <3> QED BY <2>1 DEF Job
  <2> HIDE DEF row2
  <2>4. jobs'[j] = row2 /\ \A i \in JobIds \ {j} : jobs'[i] = J[i]
    BY <2>1, <2>2
  <2> QED BY <2>1, <2>3, <2>4 DEF RetriesKept, Exists
<1>3. /\ attempts'[claims + 1].category = "none"
      /\ \A a \in Tokens : a # claims + 1 => attempts'[a] = A[a]
  BY <1>1 DEF Take, Opened, NoAttempt, Tables
<1>4. A[claims + 1].job = Null
  BY <1>1 DEF AttemptRows
<1>5. \A i \in JobIds : Failures(attempts', i) = Failures(A, i)
  BY <1>3, <1>4, NullRow DEF Failures
<1>6. \A a \in Tokens : Open(attempts', a) => attempts'[a].category # "transport"
  BY <1>3 DEF Tallied, Open
<1> QED BY <1>2, <1>5, <1>6, RetriesTallied DEF Exists

LEMMA ImmediateTallied ==
  ASSUME IInv, Tallied(jobs, attempts), NEW p \in Procs, NEW r \in Repos,
         NEW kind \in {"check", "fetch"}, Immediate(p, r, kind)
  PROVE  Tallied(jobs', attempts')
<1> DEFINE A == RecoveredAttempts
<1> DEFINE kept == Cancelled(RecoveredJobs, r, Origins,
                             IF kind = "fetch" THEN Kinds ELSE {kind}, now)
<1>1. PICK k \in JobIds :
        /\ NextIds(kept, {k})
        /\ Take(p, Inserted(kept, k, r, kind, "manual", now), A, k)
  BY DEF Immediate
<1>2. /\ Tables(RecoveredJobs, A) /\ QuietRows(RecoveredJobs) /\ PresentRows(RecoveredJobs)
      /\ AttemptRows(RecoveredJobs, A, claims) /\ now \in Nat
  BY RecoverKeeps DEF Consistent, IInv, TypeOK
<1>3. Tallied(RecoveredJobs, A)
  BY RecoveredTallied
<1>4. kept \in [JobIds -> Job] /\ kept[k].state = "absent"
  BY <1>1, <1>2, CancelledRows, FreeId DEF Resettled, Tables
<1>5. RetriesKept(RecoveredJobs, kept) /\ Exists(kept) = Exists(RecoveredJobs)
  BY <1>2, CancelledRetries DEF Tables
<1> HIDE DEF kept
<1> DEFINE J == Inserted(kept, k, r, kind, "manual", now)
<1>6. /\ J \in [JobIds -> Job] /\ J[k].state = "pending"
      /\ RetriesKept(kept, J) /\ \A i \in Exists(kept) : i \in Exists(J)
  BY <1>2, <1>4, InsertedRow, InsertedRetries DEF Origins, Kinds
<1>7. Take(p, J, A, k)
  BY <1>1
<1> HIDE DEF J, A
<1>8. RetriesKept(RecoveredJobs, J) /\ \A i \in Exists(RecoveredJobs) : i \in Exists(J)
  BY <1>5, <1>6, RetriesTransitive
<1>9. \A a \in Tokens : Open(A, a) => A[a].category # "transport"
  BY <1>3 DEF Tallied
<1>10. Tallied(J, A)
  BY <1>2, <1>3, <1>8, <1>9, RetriesTallied
<1>11. AttemptRows(J, A, claims)
  <2>1. \A a \in Tokens : A[a].job # Null => A[a].job \in JobIds
    BY <1>2 DEF Tables, Attempt
  <2>2. \A i \in Exists(RecoveredJobs) : J[i].token = RecoveredJobs[i].token
    <3>1. \A i \in JobIds : kept[i].token = RecoveredJobs[i].token
      <4> SUFFICES ASSUME NEW i \in JobIds PROVE kept[i].token = RecoveredJobs[i].token
        OBVIOUS
      <4> DEFINE row == RecoveredJobs[i]
      <4>1. row \in Job BY <1>2 DEF Tables
      <4>2. kept[i] = row \/ kept[i] = [row EXCEPT !.state = "cancelled", !.finished = now]
        BY DEF kept, Cancelled
      <4> HIDE DEF row
      <4> QED BY <4>1, <4>2 DEF row, Job
    <3>2. \A i \in JobIds \ {k} : J[i] = kept[i]
      BY <1>2, <1>4, InsertedRow DEF J, Origins, Kinds
    <3>3. k \notin Exists(RecoveredJobs)
      BY <1>4, <1>5 DEF Exists
    <3> QED BY <3>1, <3>2, <3>3 DEF Exists
  <2> QED BY <1>2, <1>8, <2>1, <2>2 DEF AttemptRows, Exists, Open
<1>12. Tables(J, A)
  BY <1>2, <1>6 DEF Tables
<1> QED BY <1>6, <1>7, <1>10, <1>11, <1>12, TakenTallied

LEMMA TickTallied ==
  ASSUME IInv, Tallied(jobs, attempts), NEW p \in Procs, Tick(p)
  PROVE  Tallied(jobs', attempts')
<1>1. PICK ids \in [DueSchedules -> JobIds] :
        /\ NextIds(jobs, {ids[r] : r \in DueSchedules})
        /\ jobs' = WithoutJobs(Ticked(ids), Prunable(Ticked(ids), attempts, now - RETENTION))
        /\ attempts' = WithoutAttemptsOf(attempts, Prunable(Ticked(ids), attempts, now - RETENTION))
  BY DEF Tick
<1> DEFINE J == Ticked(ids)
<1> DEFINE gone == Prunable(J, attempts, now - RETENTION)
<1>2. /\ \A i \in JobIds : jobs'[i] = IF i \in gone THEN NoJob ELSE J[i]
      /\ \A a \in Tokens : attempts'[a] = IF attempts[a].job \in gone THEN NoAttempt ELSE attempts[a]
  BY <1>1 DEF WithoutJobs, WithoutAttemptsOf
<1>3. RetriesKept(jobs, J)
  <2>1. ASSUME NEW i \in JobIds, J[i].state # "absent"
        PROVE  IF jobs[i].state # "absent" THEN J[i].retry = jobs[i].retry ELSE J[i].retry = 0
    <3>1. CASE \E r \in DOMAIN ids : ids[r] = i
      <4> DEFINE s == CHOOSE s \in DOMAIN ids : ids[s] = i
      <4>1. J[i] = Inserted(jobs, i, s, "check", "scheduled", now)[i] /\ s \in DueSchedules
        BY <3>1 DEF Ticked
      <4>2. jobs[i].state = "absent"
        BY <1>1, <3>1, FreeId
      <4> HIDE DEF s, J
      <4>3. J[i].retry = 0
        BY <4>1, InsertedRow DEF IInv, TypeOK, Kinds, Origins, DueSchedules
      <4> QED BY <4>2, <4>3
    <3>2. CASE ~\E r \in DOMAIN ids : ids[r] = i
      BY <2>1, <3>2 DEF Ticked
    <3> QED BY <3>1, <3>2
  <2> HIDE DEF J
  <2> QED BY <2>1 DEF RetriesKept, Exists
<1> HIDE DEF J, gone
<1>4. \A i \in Exists(jobs') : i \notin gone /\ i \in Exists(J) /\ jobs'[i] = J[i]
  BY <1>2 DEF Exists, NoJob
<1>5. RetriesKept(jobs, jobs')
  BY <1>3, <1>4 DEF RetriesKept
<1>6. \A i \in Exists(jobs') : Failures(attempts', i) = Failures(attempts, i)
  BY <1>2, <1>4, NullRow DEF Failures, NoAttempt, Exists
<1>7. \A a \in Tokens : Open(attempts', a) => attempts'[a].category # "transport"
  BY <1>2 DEF Open, NoAttempt, Tallied
<1> QED BY <1>5, <1>6, <1>7, RetriesTallied DEF IInv, Consistent

LEMMA SameFailures ==
  ASSUME NEW A, NEW A2, NEW i,
         \A b \in Tokens : b \in Failures(A2, i) <=> b \in Failures(A, i)
  PROVE  Failures(A2, i) = Failures(A, i)
BY DEF Failures

\* A transport failure adds one attempt to the failures of its job, and only that.
LEMMA TransportTallied ==
  ASSUME IInv, Tallied(jobs, attempts), NEW p \in Procs, Owns(p), NEW J, NEW outcome,
         attempts' = Closed(attempts, {own[p].job}, outcome, "transport", now),
         J[own[p].job].retry = IF own[p].retry < Len(RETRIES) THEN own[p].retry + 1
                               ELSE own[p].retry,
         \A i \in JobIds \ {own[p].job} : J[i] = jobs[i]
  PROVE  Tallied(J, attempts')
<1> DEFINE j == own[p].job
<1> DEFINE a == own[p].token
<1>1. /\ j \in JobIds /\ jobs[j].state = "running" /\ jobs[j].token = a /\ a \in Tokens
      /\ attempts[a].job = j /\ attempts[a].finished = Null /\ j # Null
      /\ jobs[j].retry = own[p].retry /\ a # Null
  BY OwnedRow, NullRow DEF IInv, Consistent, RunningRows, OwnInv
<1>2. \A b \in Tokens : Open(attempts, b) /\ attempts[b].job = j => b = a
  BY <1>1 DEF IInv, Consistent, AttemptRows
<1>3. Open(attempts, a)
  BY <1>1 DEF Open
<1>4. /\ \A b \in Tokens \ {a} : attempts'[b] = attempts[b]
      /\ attempts'[a].job = j /\ attempts'[a].category = "transport"
      /\ attempts'[a].finished # Null
  <2> DEFINE row == attempts[a]
  <2>1. row \in Attempt /\ row.job = j /\ now # Null
    BY <1>1 DEF IInv, TypeOK, Null
  <2>2. \A b \in Tokens \ {a} : attempts'[b] = attempts[b]
    BY <1>2 DEF Closed
  <2>3. attempts'[a] = [row EXCEPT !.outcome = outcome, !.category = "transport", !.finished = now]
    BY <1>1, <1>3 DEF Closed
  <2> HIDE DEF row, a, j
  <2> QED BY <2>1, <2>2, <2>3 DEF Attempt
<1>5. \A b \in Tokens : Open(attempts', b) => attempts'[b].category # "transport"
  BY <1>1, <1>4 DEF Open, Tallied
<1>6. attempts[a].category # "transport"
  BY <1>1, <1>3 DEF Tallied
<1> HIDE DEF j, a
<1>7. Failures(attempts', j) = Failures(attempts, j) \cup {a} /\ a \notin Failures(attempts, j)
  <2>1. a \in Failures(attempts', j) /\ a \notin Failures(attempts, j)
    BY <1>1, <1>4, <1>6 DEF Failures
  <2>2. \A b \in Tokens \ {a} : b \in Failures(attempts', j) <=> b \in Failures(attempts, j)
    BY <1>4 DEF Failures
  <2>3. Failures(attempts', j) \subseteq Tokens /\ Failures(attempts, j) \subseteq Tokens
    BY DEF Failures
  <2> QED BY <2>1, <2>2, <2>3
<1>8. Cardinality(Failures(attempts', j)) = Cardinality(Failures(attempts, j)) + 1
  BY <1>7, FailuresFinite, FS_AddElement
<1>9. jobs[j].retry = Budget(Cardinality(Failures(attempts, j)))
  BY <1>1 DEF Tallied, Exists
<1>10. J[j].retry = Budget(Cardinality(Failures(attempts', j)))
  <2> DEFINE n == Cardinality(Failures(attempts, j))
  <2>1. n \in Nat /\ Len(RETRIES) \in Nat
    BY FailuresFinite, JobTableAssumption
  <2>2. J[j].retry = IF Budget(n) < Len(RETRIES) THEN Budget(n) + 1 ELSE Budget(n)
    BY <1>1, <1>9 DEF j
  <2> HIDE DEF n
  <2>3. J[j].retry = Budget(n + 1)
    BY <2>1, <2>2 DEF Budget
  <2> QED BY <1>8, <2>3 DEF n
<1>11. ASSUME NEW i \in Exists(J), i # j
       PROVE  J[i].retry = Budget(Cardinality(Failures(attempts', i)))
  <2>1. Failures(attempts', i) = Failures(attempts, i)
    <3>1. a \notin Failures(attempts', i) /\ a \notin Failures(attempts, i)
      BY <1>1, <1>4, <1>11 DEF Failures
    <3>2. \A b \in Tokens \ {a} : b \in Failures(attempts', i) <=> b \in Failures(attempts, i)
      BY <1>4 DEF Failures
    <3>3. \A b \in Tokens : b \in Failures(attempts', i) <=> b \in Failures(attempts, i)
      BY <3>1, <3>2
    <3> QED BY <3>3, SameFailures
  <2>2. i \in JobIds /\ J[i] = jobs[i]
    BY <1>11 DEF Exists, j
  <2> QED BY <2>1, <2>2 DEF Tallied, Exists
<1> QED BY <1>5, <1>10, <1>11 DEF Tallied

LEMMA FinishTallied ==
  ASSUME IInv, Tallied(jobs, attempts), NEW p \in Procs, NEW category \in Categories,
         Finish(p, category)
  PROVE  Tallied(jobs', attempts')
<1> DEFINE j == own[p].job
<1> DEFINE outcome == IF category = "none" THEN "succeeded" ELSE "failed"
<1>1. PICK finished : FinishesTo(p, category, finished)
  BY FinishTables
<1>2. Owns(p) /\ attempts' = Closed(attempts, {j}, outcome, category, now)
  BY DEF Finish
<1>3. /\ j \in JobIds /\ own[p].repo \in Repos /\ jobs[j].state = "running"
      /\ jobs[j].retry = own[p].retry /\ now \in Nat /\ now # Null
      /\ attempts \in [Tokens -> Attempt] /\ AttemptRows(jobs, attempts, claims)
  BY <1>2, OwnedRow DEF IInv, OwnInv, TypeOK, Consistent, Owns, Idle, Null
<1>4. \A a \in Tokens : Open(attempts, a) => attempts[a].category # "transport"
  BY DEF Tallied
<1> HIDE DEF outcome
<1>5. Tallied(finished, attempts')
  <2>1. CASE category = "transport"
    <3>1. /\ finished[j].retry = IF own[p].retry < Len(RETRIES) THEN own[p].retry + 1
                                 ELSE own[p].retry
          /\ \A i \in JobIds \ {j} : finished[i] = jobs[i]
      BY <1>1, <2>1 DEF FinishesTo
    <3>2. attempts' = Closed(attempts, {j}, outcome, "transport", now)
      BY <1>2, <2>1
    <3> QED BY <1>2, <3>1, <3>2, TransportTallied
  <2>2. CASE category # "transport"
    <3>1. /\ \A a \in Tokens : Open(attempts', a) => attempts'[a].category # "transport"
          /\ \A i \in JobIds : Failures(attempts', i) = Failures(attempts, i)
      BY <1>2, <1>3, <1>4, <2>2, ClosedFailures
    <3>2. RetriesKept(jobs, finished)
      BY <1>1, <1>3, <2>2 DEF FinishesTo, RetriesKept, Exists
    <3> QED BY <1>3, <3>1, <3>2, RetriesTallied DEF Exists
  <2> QED BY <2>1, <2>2
<1>6. CASE jobs' = finished
  BY <1>5, <1>6
<1>7. CASE Enqueued(finished, jobs', own[p].repo, "fetch", "scheduled", now)
  <2>1. finished \in [JobIds -> Job] /\ AttemptRows(finished, attempts', claims)
    BY <1>1 DEF FinishesTo, Consistent
  <2>2. RetriesKept(finished, jobs')
    BY <1>3, <1>7, <2>1, EnqueuedRetries DEF Kinds, Origins
  <2>3. \A a \in Tokens : Open(attempts', a) => attempts'[a].category # "transport"
    BY <1>5 DEF Tallied
  <2> QED BY <1>5, <2>1, <2>2, <2>3, RetriesTallied
<1> QED BY <1>1, <1>6, <1>7 DEF FinishesTo

\* Every step keeps the count: one step here per action.
LEMMA StepTallied ==
  ASSUME IInv, Tallied(jobs, attempts), [Next]_vars
  PROVE  Tallied(jobs', attempts')
<1>1. /\ jobs \in [JobIds -> Job] /\ attempts \in [Tokens -> Attempt]
      /\ now \in Nat /\ now # Null /\ AttemptRows(jobs, attempts, claims)
  BY DEF IInv, TypeOK, Consistent, Null
<1>2. \A a \in Tokens : Open(attempts, a) => attempts[a].category # "transport"
  BY DEF Tallied
<1>3. UNCHANGED <<jobs, attempts>> => Tallied(jobs', attempts')
  BY TalliedTables
<1>4. UNCHANGED attempts /\ RetriesKept(jobs, jobs') => Tallied(jobs', attempts')
  BY <1>1, <1>2, RetriesTallied
<1>5. ASSUME NEW r \in Repos, NEW kind \in Requests, Enqueue(r, kind)
      PROVE  Tallied(jobs', attempts')
  <2>1. kind \in Kinds BY SchedulerAssumption
  <2> QED BY <1>1, <1>4, <1>5, <2>1, EnqueuedRetries DEF Enqueue, Origins
<1>6. ASSUME NEW r \in Repos, Unqueue(r) \/ DisableSchedule(r)
      PROVE  Tallied(jobs', attempts')
  BY <1>1, <1>4, <1>6, CancelledRetries DEF Unqueue, DisableSchedule
<1>7. ASSUME NEW p \in Procs, Tick(p) PROVE Tallied(jobs', attempts')
  BY <1>7, TickTallied
<1>8. ASSUME NEW p \in Procs, RecoverOnly(p) PROVE Tallied(jobs', attempts')
  BY <1>8, RecoveredTallied DEF RecoverOnly
<1>9. ASSUME NEW p \in Procs, Claim(p) PROVE Tallied(jobs', attempts')
  <2>1. PICK j \in Claimable(RecoveredJobs, now) : Take(p, RecoveredJobs, RecoveredAttempts, j)
    BY <1>9 DEF Claim
  <2>2. j \in JobIds /\ RecoveredJobs[j].state = "pending"
    BY DEF Claimable
  <2>3. /\ Tables(RecoveredJobs, RecoveredAttempts)
        /\ AttemptRows(RecoveredJobs, RecoveredAttempts, claims)
    BY RecoverKeeps DEF Consistent
  <2> QED BY <2>1, <2>2, <2>3, RecoveredTallied, TakenTallied
<1>10. ASSUME NEW r \in Repos, NEW p \in Procs, NEW kind \in Commands, Immediate(p, r, kind)
       PROVE  Tallied(jobs', attempts')
  <2>1. kind \in {"check", "fetch"} BY SchedulerAssumption
  <2> QED BY <1>10, <2>1, ImmediateTallied
<1>11. ASSUME NEW p \in Procs, Heartbeat(p) PROVE Tallied(jobs', attempts')
  <2> DEFINE j == own[p].job
  <2> DEFINE row == jobs[j]
  <2> DEFINE row2 == [row EXCEPT !.lease = now + LEASE_SECONDS]
  <2>1. j \in JobIds /\ row \in Job
    BY <1>11, OwnedRow DEF Heartbeat
  <2>2. jobs' = [jobs EXCEPT ![j] = row2] /\ UNCHANGED attempts
    BY <1>1, <1>11, <2>1 DEF Heartbeat
  <2>3. row2.state = row.state /\ row2.retry = row.retry
    <3> HIDE DEF row
    <3> QED BY <2>1 DEF Job
  <2> HIDE DEF row2
  <2>4. RetriesKept(jobs, jobs')
    BY <1>1, <2>2, <2>3 DEF RetriesKept, Exists
  <2> QED BY <1>4, <2>2, <2>4
<1>12. ASSUME NEW p \in Procs, NEW category \in Outcomes, Finish(p, category)
       PROVE  Tallied(jobs', attempts')
  <2>1. category \in Categories BY SchedulerAssumption
  <2> QED BY <1>12, <2>1, FinishTallied
<1>13. ASSUME NEW p \in Procs, Interrupt(p) PROVE Tallied(jobs', attempts')
  <2> DEFINE js == {own[p].job}
  <2>1. js \in SUBSET JobIds /\ \A i \in js : jobs[i].state = "running"
    BY <1>13, OwnedRow DEF Interrupt
  <2>2. /\ \E gone : jobs' = Interrupted(jobs, js, gone, now)
        /\ attempts' = Closed(attempts, js, "interrupted", "interrupted", now)
    BY <1>13 DEF Interrupt
  <2> HIDE DEF js
  <2>3. RetriesKept(jobs, jobs')
    BY <1>1, <2>1, <2>2, InterruptedRetries
  <2>4. /\ \A a \in Tokens : Open(attempts', a) => attempts'[a].category # "transport"
        /\ \A i \in JobIds : Failures(attempts', i) = Failures(attempts, i)
    BY <1>1, <1>2, <2>2, ClosedFailures
  <2> QED BY <1>1, <2>3, <2>4, RetriesTallied DEF Exists
<1>14. /\ ClockAdvances => UNCHANGED <<jobs, attempts>>
       /\ \A r \in Repos, interval \in Intervals :
            EnableSchedule(r, interval) => UNCHANGED <<jobs, attempts>>
       /\ \A p \in Procs :
            /\ MarkUncertain(p) \/ LoseClaim(p) \/ Crash(p) => UNCHANGED <<jobs, attempts>>
            /\ \A status \in Statuses : PublishLocal(p, status) \/ PublishRemote(p, status)
                                        => UNCHANGED <<jobs, attempts>>
  BY DEF ClockAdvances, EnableSchedule, MarkUncertain, LoseClaim, Crash, PublishLocal,
         PublishRemote, tables
<1> QED BY <1>3, <1>5, <1>6, <1>7, <1>8, <1>9, <1>10, <1>11, <1>12, <1>13, <1>14
        DEF Next, vars, tables

\* A job's retry count is the number of its attempts that failed in transport, up to
\* the number of delays: no interruption, deferral or recovered crash consumes the
\* budget, no retry or coalescing request restarts it, and no expired history is
\* charged to a later job.
THEOREM RetryBudgetAlways == Spec => []RetryBudget
<1> DEFINE Inv == Tallied(jobs, attempts)
<1>1. Init => Inv
  BY DEF Init, Tallied, Exists, NoJob, NoAttempt, Open
<1>2. IInv /\ Inv /\ [Next]_vars => Inv'
  <2> SUFFICES ASSUME IInv, Tallied(jobs, attempts), [Next]_vars
               PROVE  Tallied(jobs', attempts')
    BY DEF Tallied, Failures, Open, Exists
  <2> QED BY StepTallied
<1>3. Inv => RetryBudget
  BY TalliedTables
<1> HIDE DEF Inv
<1> QED BY <1>1, <1>2, <1>3, Invariant, PTL DEF Spec

---------------------------------------------------------------------------
(* What a step does to rows and attempts, and to what they say of success *)

\* From J to J2 no row goes away or changes its repository, and none succeeds.
Steady(J, J2) ==
  \A i \in JobIds :
    /\ J[i].state # "absent" => J2[i].state # "absent" /\ J2[i].repo = J[i].repo
    /\ J2[i].state = "succeeded" => J[i].state = "succeeded"

LEMMA SteadyTransitive ==
  ASSUME NEW J, NEW J2, NEW J3, Steady(J, J2), Steady(J2, J3)
  PROVE  Steady(J, J3)
BY DEF Steady

LEMMA InsertedSteady ==
  ASSUME NEW J \in [JobIds -> Job], NEW i \in JobIds, J[i].state = "absent", NEW r \in Repos,
         NEW kind \in Kinds, NEW origin \in Origins, NEW t \in Nat
  PROVE  Steady(J, Inserted(J, i, r, kind, origin, t))
BY InsertedRow DEF Steady

LEMMA EnqueuedSteady ==
  ASSUME NEW J \in [JobIds -> Job], NEW J2, NEW r \in Repos, NEW kind \in Kinds,
         NEW origin \in Origins, NEW t \in Nat, Enqueued(J, J2, r, kind, origin, t)
  PROVE  Steady(J, J2)
<1>1. CASE \E i \in JobIds : /\ Absorbs(J, i, r, kind)
                             /\ J2 = [J EXCEPT ![i] = Merged(@, kind, origin, t)]
  <2>1. PICK i \in JobIds : /\ Absorbs(J, i, r, kind)
                            /\ J2 = [J EXCEPT ![i] = Merged(@, kind, origin, t)]
    BY <1>1
  <2> DEFINE old == J[i]
  <2> DEFINE row == Merged(old, kind, origin, t)
  <2>2. old \in Job /\ old.state = "pending"
    BY <2>1 DEF Absorbs
  <2>3. J2 = [J EXCEPT ![i] = row]
    BY <2>1
  <2> HIDE DEF old
  <2>4. row.state = old.state /\ row.repo = old.repo
    BY <2>2 DEF Merged, Job
  <2> HIDE DEF row
  <2>5. J2[i] = row /\ J[i] = old /\ \A k \in JobIds \ {i} : J2[k] = J[k]
    BY <2>3 DEF old
  <2> QED BY <2>2, <2>4, <2>5 DEF Steady
<1>2. CASE \E i \in JobIds : NextIds(J, {i}) /\ J2 = Inserted(J, i, r, kind, origin, t)
  BY <1>2, FreeId, InsertedSteady
<1> QED BY <1>1, <1>2 DEF Enqueued

LEMMA CancelledSteady ==
  ASSUME NEW J \in [JobIds -> Job], NEW r, NEW origins, NEW kinds, NEW t
  PROVE  Steady(J, Cancelled(J, r, origins, kinds, t))
<1> DEFINE J2 == Cancelled(J, r, origins, kinds, t)
<1>1. ASSUME NEW i \in JobIds
      PROVE  J2[i] = J[i] \/ (J2[i].state = "cancelled" /\ J2[i].repo = J[i].repo)
  <2> DEFINE row == J[i]
  <2>1. row \in Job OBVIOUS
  <2>2. J2[i] = row \/ J2[i] = [row EXCEPT !.state = "cancelled", !.finished = t]
    BY DEF Cancelled
  <2> HIDE DEF row, J2
  <2> QED BY <2>1, <2>2 DEF row, Job
<1> QED BY <1>1 DEF Steady

LEMMA InterruptedSteady ==
  ASSUME NEW J \in [JobIds -> Job], NEW js \in SUBSET JobIds, NEW gone, NEW t
  PROVE  Steady(J, Interrupted(J, js, gone, t))
<1> DEFINE J2 == Interrupted(J, js, gone, t)
<1>1. ASSUME NEW i \in JobIds
      PROVE  J2[i] = J[i] \/ (J2[i].state \in {"pending", "cancelled"} /\ J2[i].repo = J[i].repo)
  <2> DEFINE row == J[i]
  <2>1. CASE i \in js
    <3> DEFINE state == IF i \in gone THEN "cancelled" ELSE "pending"
    <3> DEFINE finished == IF i \in gone THEN t ELSE Null
    <3>1. /\ state \in {"pending", "cancelled"}
          /\ J2[i] = [row EXCEPT !.state = state, !.token = Null, !.lease = Null,
                                 !.due = t, !.finished = finished]
      BY <2>1 DEF Interrupted
    <3> HIDE DEF state, finished
    <3>2. row \in Job
      BY <2>1
    <3> HIDE DEF row, J2
    <3>3. J2[i].state = state /\ J2[i].repo = row.repo
      BY <3>1, <3>2 DEF Job
    <3> QED BY <3>1, <3>3 DEF row
  <2>2. CASE i \notin js
    BY <2>2 DEF Interrupted
  <2> QED BY <2>1, <2>2
<1> QED BY <1>1 DEF Steady

LEMMA RecoveredSteady ==
  ASSUME IInv
  PROVE  Steady(jobs, RecoveredJobs)
<1>1. jobs \in [JobIds -> Job] /\ ExpiredJobs \in SUBSET JobIds
  BY DEF IInv, TypeOK, ExpiredJobs
<1> QED BY <1>1, InterruptedSteady DEF RecoveredJobs

LEMMA TakenSteady ==
  ASSUME NEW p \in Procs, NEW J \in [JobIds -> Job], NEW A, NEW j \in JobIds,
         J[j].state = "pending", Take(p, J, A, j)
  PROVE  Steady(J, jobs')
<1> DEFINE row == J[j]
<1> DEFINE row2 == [row EXCEPT !.state = "running", !.token = claims + 1,
                               !.lease = now + LEASE_SECONDS]
<1>1. row \in Job /\ row.state = "pending"
  OBVIOUS
<1>2. jobs' = [J EXCEPT ![j] = row2]
  BY <1>1 DEF Take, Claimed, Job
<1>3. row2.state = "running" /\ row2.repo = row.repo
  <2> HIDE DEF row
  <2> QED BY <1>1 DEF Job
<1> HIDE DEF row2
<1>4. jobs'[j] = row2 /\ \A i \in JobIds \ {j} : jobs'[i] = J[i]
  BY <1>2
<1> QED BY <1>1, <1>3, <1>4 DEF Steady

LEMMA ImmediateSteady ==
  ASSUME IInv, NEW p \in Procs, NEW r \in Repos, NEW kind \in Kinds, Immediate(p, r, kind)
  PROVE  Steady(jobs, jobs')
<1> DEFINE kept == Cancelled(RecoveredJobs, r, Origins,
                             IF kind = "fetch" THEN Kinds ELSE {kind}, now)
<1>1. PICK k \in JobIds :
        /\ NextIds(kept, {k})
        /\ Take(p, Inserted(kept, k, r, kind, "manual", now), RecoveredAttempts, k)
  BY DEF Immediate
<1>2. /\ RecoveredJobs \in [JobIds -> Job] /\ QuietRows(RecoveredJobs)
      /\ PresentRows(RecoveredJobs) /\ now \in Nat
  BY RecoverKeeps DEF Tables, Consistent, IInv, TypeOK
<1>3. Steady(RecoveredJobs, kept)
  BY <1>2, CancelledSteady
<1>4. kept \in [JobIds -> Job]
  BY <1>2, CancelledRows DEF Resettled
<1> HIDE DEF kept
<1>5. kept[k].state = "absent"
  BY <1>1, FreeId
<1> DEFINE J == Inserted(kept, k, r, kind, "manual", now)
<1>6. Steady(kept, J) /\ J \in [JobIds -> Job] /\ J[k].state = "pending"
  BY <1>2, <1>4, <1>5, InsertedSteady, InsertedRow DEF Origins
<1>7. Take(p, J, RecoveredAttempts, k)
  BY <1>1
<1> HIDE DEF J
<1>8. Steady(J, jobs')
  BY <1>6, <1>7, TakenSteady
<1>9. Steady(jobs, J)
  BY <1>3, <1>6, RecoveredSteady, SteadyTransitive
<1> QED BY <1>8, <1>9, SteadyTransitive

LEMMA TickedSteady ==
  ASSUME IInv, NEW ids \in [DueSchedules -> JobIds],
         NextIds(jobs, {ids[r] : r \in DueSchedules})
  PROVE  Steady(jobs, Ticked(ids))
<1> DEFINE J == Ticked(ids)
<1>1. ASSUME NEW i \in JobIds
      PROVE  J[i] = jobs[i] \/ (jobs[i].state = "absent" /\ J[i].state = "pending")
  <2>1. CASE \E r \in DOMAIN ids : ids[r] = i
    <3> DEFINE s == CHOOSE s \in DOMAIN ids : ids[s] = i
    <3>1. J[i] = Inserted(jobs, i, s, "check", "scheduled", now)[i] /\ s \in DueSchedules
      BY <2>1 DEF Ticked
    <3>2. jobs[i].state = "absent"
      BY <2>1, FreeId
    <3> HIDE DEF s, J
    <3>3. J[i].state = "pending"
      BY <3>1, InsertedRow DEF IInv, TypeOK, Kinds, Origins, DueSchedules
    <3> QED BY <3>2, <3>3
  <2>2. CASE ~\E r \in DOMAIN ids : ids[r] = i
    BY <2>2 DEF Ticked
  <2> QED BY <2>1, <2>2
<1> HIDE DEF J
<1> QED BY <1>1 DEF Steady, J

\* An attempt has an outcome when it has an end, and that is not in the future.
Dated ==
  \A a \in Tokens :
    /\ attempts[a].finished = Null <=> attempts[a].outcome = "open"
    /\ attempts[a].finished # Null => attempts[a].job # Null
    /\ attempts[a].finished <= now

\* While an attempt is open, its repository has no younger one.
Abreast ==
  \A a, b \in Tokens :
    Open(attempts, a) /\ attempts[b].job # Null
      /\ jobs[attempts[b].job].repo = jobs[attempts[a].job].repo => b <= a

\* What a step may do to row i ...
RowMoves(i) ==
  /\ jobs[i].state # "absent" => jobs'[i].state = "absent" \/ jobs'[i].repo = jobs[i].repo
  /\ jobs'[i].state = "succeeded" /\ jobs[i].state # "succeeded" =>
       \E a \in Tokens : /\ Succeeded(attempts', a) /\ ~Succeeded(attempts, a)
                         /\ attempts'[a].job = i

\* ... and to attempt a: it stays, expires, is opened or is closed.
Expires(a) == /\ attempts'[a] = NoAttempt /\ jobs'[attempts[a].job].state = "absent"
              /\ ~LatestSuccess(jobs, attempts, a)
Opens(a) == /\ attempts[a].job = Null /\ a = claims'
            /\ attempts'[a].outcome = "open" /\ attempts'[a].finished = Null
Closes(a) == /\ Open(attempts, a)
             /\ attempts'[a].job = attempts[a].job /\ attempts'[a].kind = attempts[a].kind
             /\ attempts'[a].finished = now /\ now' = now
             /\ attempts'[a].outcome \in {"succeeded", "failed", "interrupted"}
             /\ attempts'[a].outcome = "succeeded" => jobs'[attempts[a].job].state = "succeeded"
AttemptMoves(a) == attempts'[a] = attempts[a] \/ Expires(a) \/ Opens(a) \/ Closes(a)

Moves == (\A i \in JobIds : RowMoves(i)) /\ (\A a \in Tokens : AttemptMoves(a))

LEMMA SteadyMoves ==
  ASSUME Steady(jobs, jobs'), NEW i \in JobIds
  PROVE  RowMoves(i)
BY DEF Steady, RowMoves

\* Closing the attempts of jobs, without a success.
LEMMA ClosedMoves ==
  ASSUME IInv, now' = now, NEW js, NEW a \in Tokens, NEW category, NEW A,
         NEW outcome \in {"failed", "interrupted"},
         A = Closed(attempts, js, outcome, category, now), attempts'[a] = A[a]
  PROVE  AttemptMoves(a)
<1> DEFINE row == attempts[a]
<1>1. row \in Attempt
  BY DEF IInv, TypeOK
<1>2. \/ A[a] = row
      \/ Open(attempts, a) /\ A[a] = [row EXCEPT !.outcome = outcome, !.category = category,
                                                 !.finished = now]
  BY DEF Closed
<1>3. CASE A[a] = row
  BY <1>3 DEF AttemptMoves
<1>4. CASE Open(attempts, a) /\ A[a] = [row EXCEPT !.outcome = outcome, !.category = category,
                                                 !.finished = now]
  <2>1. /\ A[a].job = row.job /\ A[a].kind = row.kind /\ A[a].finished = now
        /\ A[a].outcome = outcome
    <3> HIDE DEF row
    <3> QED BY <1>1, <1>4 DEF Attempt
  <2> QED BY <1>4, <2>1 DEF AttemptMoves, Closes
<1> QED BY <1>2, <1>3, <1>4

\* The claim of a job, after a recovery.
LEMMA TakenMoves ==
  ASSUME IInv, now' = now, NEW p \in Procs, NEW J, NEW j \in JobIds,
         Take(p, J, RecoveredAttempts, j), NEW a \in Tokens
  PROVE  AttemptMoves(a)
<1>1. /\ claims + 1 \in Tokens /\ claims' = claims + 1
      /\ attempts' = Opened(RecoveredAttempts, claims + 1, j, J[j].kind)
      /\ RecoveredAttempts \in [Tokens -> Attempt]
  BY RecoverKeeps, JobTableAssumption DEF IInv, TypeOK, Take, Tokens, Tables
<1>2. CASE a = claims + 1
  <2>1. attempts[a].job = Null
    BY <1>1, <1>2, JobTableAssumption DEF IInv, TypeOK, Consistent, AttemptRows, Tokens
  <2>2. attempts'[a] = [NoAttempt EXCEPT !.job = j, !.kind = J[j].kind]
    BY <1>1, <1>2 DEF Opened
  <2>3. attempts'[a].outcome = "open" /\ attempts'[a].finished = Null
    BY <2>2 DEF NoAttempt
  <2> QED BY <1>1, <1>2, <2>1, <2>3 DEF AttemptMoves, Opens
<1>3. CASE a # claims + 1
  <2>1. attempts'[a] = RecoveredAttempts[a]
    BY <1>1, <1>3 DEF Opened
  <2> QED BY <2>1, ClosedMoves DEF RecoveredAttempts
<1> QED BY <1>2, <1>3

LEMMA FinishMoves ==
  ASSUME IInv, Dated, NEW p \in Procs, NEW category \in Categories, Finish(p, category)
  PROVE  Moves
<1> DEFINE c == own[p]
<1> DEFINE outcome == IF category = "none" THEN "succeeded" ELSE "failed"
<1>1. PICK finished : FinishesTo(p, category, finished)
  BY FinishTables
<1>2. Owns(p) /\ attempts' = Closed(attempts, {c.job}, outcome, category, now) /\ now' = now
  BY DEF Finish
<1>3. /\ c.job \in JobIds /\ c.repo \in Repos /\ jobs[c.job].state = "running"
      /\ jobs[c.job].repo = c.repo /\ jobs[c.job].token = c.token /\ c.token \in Tokens
      /\ attempts[c.token].job = c.job /\ attempts[c.token].finished = Null /\ c.job # Null
      /\ now \in Nat /\ now # Null /\ attempts \in [Tokens -> Attempt]
      /\ jobs \in [JobIds -> Job]
  BY <1>2, OwnedRow, NullRow DEF IInv, OwnInv, TypeOK, Consistent, RunningRows, Owns, Idle, Null
<1>4. Steady(finished, jobs') /\ Fixed(finished, jobs')
  <2>1. finished \in [JobIds -> Job] /\ DOMAIN finished = JobIds
    BY <1>1 DEF FinishesTo
  <2>2. CASE jobs' = finished
    BY <2>2 DEF Steady, Fixed
  <2>3. CASE Enqueued(finished, jobs', c.repo, "fetch", "scheduled", now)
    BY <1>3, <2>1, <2>3, EnqueuedSteady, EnqueuedFixed DEF Kinds, Origins
  <2> QED BY <1>1, <2>2, <2>3 DEF FinishesTo
<1>5. /\ finished[c.job].state \notin {"absent", "running"} /\ finished[c.job].repo = c.repo
      /\ \A i \in JobIds \ {c.job} : finished[i] = jobs[i]
  BY <1>1 DEF FinishesTo, Settled, Terminal
<1>6. finished[c.job].state = "succeeded" <=> category = "none"
  BY <1>1 DEF FinishesTo
<1> HIDE DEF c
<1>9. category = "none" => jobs'[c.job].state = "succeeded"
  BY <1>3, <1>4, <1>6 DEF Fixed, Terminal
<1>10. ASSUME NEW a \in Tokens PROVE AttemptMoves(a)
  <2> DEFINE row == attempts[a]
  <2>1. \/ attempts'[a] = row
        \/ /\ Open(attempts, a) /\ row.job = c.job
           /\ attempts'[a] = [row EXCEPT !.outcome = outcome, !.category = category,
                                         !.finished = now]
    BY <1>2 DEF Closed
  <2>2. row \in Attempt
    BY <1>3
  <2>3. CASE attempts'[a] = row
    BY <2>3 DEF AttemptMoves
  <2>4. CASE /\ Open(attempts, a) /\ row.job = c.job
             /\ attempts'[a] = [row EXCEPT !.outcome = outcome, !.category = category,
                                           !.finished = now]
    <3>1. /\ attempts'[a].job = row.job /\ attempts'[a].kind = row.kind
          /\ attempts'[a].finished = now /\ attempts'[a].outcome = outcome
      <4> HIDE DEF row, outcome
      <4> QED BY <2>2, <2>4 DEF Attempt
    <3> QED BY <1>2, <1>9, <2>4, <3>1 DEF AttemptMoves, Closes
  <2> QED BY <2>1, <2>3, <2>4
<1>11. category = "none" => /\ Succeeded(attempts', c.token) /\ ~Succeeded(attempts, c.token)
                            /\ attempts'[c.token].job = c.job
  <2> SUFFICES ASSUME category = "none"
               PROVE  /\ Succeeded(attempts', c.token) /\ ~Succeeded(attempts, c.token)
                      /\ attempts'[c.token].job = c.job
    OBVIOUS
  <2> DEFINE row == attempts[c.token]
  <2>1. row \in Attempt /\ attempts'[c.token] = [row EXCEPT !.outcome = "succeeded",
                                                     !.category = category, !.finished = now]
    BY <1>2, <1>3 DEF Closed, Open
  <2>2. attempts'[c.token].outcome = "succeeded" /\ attempts'[c.token].job = row.job
    <3> HIDE DEF row
    <3> QED BY <2>1 DEF Attempt
  <2>3. attempts[c.token].outcome = "open"
    BY <1>3 DEF Dated
  <2> QED BY <1>3, <2>2, <2>3 DEF Succeeded
<1>12. ASSUME NEW i \in JobIds PROVE RowMoves(i)
  <2>1. CASE i # c.job
    BY <1>4, <1>5, <2>1 DEF Steady, RowMoves
  <2>2. CASE i = c.job
    <3>1. jobs'[i].repo = c.repo /\ jobs[i].repo = c.repo
      BY <1>3, <1>4, <1>5, <2>2 DEF Steady
    <3>2. jobs'[i].state = "succeeded" => category = "none"
      BY <1>3, <1>4, <1>6, <2>2 DEF Steady
    <3> QED BY <1>3, <1>11, <2>2, <3>1, <3>2 DEF RowMoves
  <2> QED BY <2>1, <2>2
<1> QED BY <1>10, <1>12 DEF Moves

LEMMA TickMoves ==
  ASSUME IInv, NEW p \in Procs, Tick(p)
  PROVE  Moves
<1>1. PICK ids \in [DueSchedules -> JobIds] :
        /\ NextIds(jobs, {ids[r] : r \in DueSchedules})
        /\ jobs' = WithoutJobs(Ticked(ids), Prunable(Ticked(ids), attempts, now - RETENTION))
        /\ attempts' = WithoutAttemptsOf(attempts, Prunable(Ticked(ids), attempts, now - RETENTION))
  BY DEF Tick
<1> DEFINE J == Ticked(ids)
<1> DEFINE gone == Prunable(J, attempts, now - RETENTION)
<1>2. /\ \A i \in JobIds : jobs'[i] = IF i \in gone THEN NoJob ELSE J[i]
      /\ \A a \in Tokens : attempts'[a] = IF attempts[a].job \in gone THEN NoAttempt ELSE attempts[a]
  BY <1>1 DEF WithoutJobs, WithoutAttemptsOf
<1>3. Steady(jobs, J)
  BY <1>1, TickedSteady
<1>4. ASSUME NEW a \in Tokens, attempts[a].job \in gone
      PROVE  attempts[a].job \in JobIds /\ ~LatestSuccess(J, attempts, a)
  BY <1>4 DEF Prunable
<1> HIDE DEF J, gone
<1>5. \A i \in JobIds : RowMoves(i)
  BY <1>2, <1>3 DEF Steady, RowMoves, NoJob
<1>6. \A a \in Tokens : attempts[a].job # Null => J[attempts[a].job].repo = jobs[attempts[a].job].repo
  <2>1. \A a \in Tokens : attempts[a].job # Null =>
           attempts[a].job \in JobIds /\ jobs[attempts[a].job].state # "absent"
    BY DEF IInv, TypeOK, Attempt, Consistent, AttemptRows
  <2> QED BY <1>3, <2>1 DEF Steady
<1>7. ASSUME NEW a \in Tokens, LatestSuccess(jobs, attempts, a) PROVE LatestSuccess(J, attempts, a)
  BY <1>6, <1>7 DEF LatestSuccess, Succeeded
<1>8. \A a \in Tokens : AttemptMoves(a)
  BY <1>2, <1>4, <1>7 DEF AttemptMoves, Expires, NoJob
<1> QED BY <1>5, <1>8 DEF Moves

\* One step here per action.
LEMMA StepMoves ==
  ASSUME IInv, Dated, [Next]_vars
  PROVE  Moves
<1>1. jobs \in [JobIds -> Job] /\ now \in Nat
  BY DEF IInv, TypeOK
<1>2. Steady(jobs, jobs') => \A i \in JobIds : RowMoves(i)
  BY SteadyMoves
<1>3. UNCHANGED attempts /\ (Steady(jobs, jobs') \/ UNCHANGED jobs) => Moves
  BY <1>2 DEF Moves, AttemptMoves, RowMoves
<1>4. ASSUME NEW r \in Repos, NEW kind \in Requests, Enqueue(r, kind) PROVE Moves
  <2>1. kind \in Kinds BY SchedulerAssumption
  <2> QED BY <1>1, <1>3, <1>4, <2>1, EnqueuedSteady DEF Enqueue, Origins
<1>5. ASSUME NEW r \in Repos, Unqueue(r) \/ DisableSchedule(r) PROVE Moves
  BY <1>1, <1>3, <1>5, CancelledSteady DEF Unqueue, DisableSchedule
<1>6. ASSUME NEW p \in Procs, Tick(p) PROVE Moves
  BY <1>6, TickMoves
<1>7. ASSUME NEW p \in Procs, RecoverOnly(p) PROVE Moves
  <2>1. Steady(jobs, jobs') /\ attempts' = RecoveredAttempts /\ now' = now
    BY <1>7, RecoveredSteady DEF RecoverOnly
  <2>2. \A a \in Tokens : AttemptMoves(a)
    BY <2>1, ClosedMoves DEF RecoveredAttempts
  <2> QED BY <1>2, <2>1, <2>2 DEF Moves
<1>8. ASSUME NEW p \in Procs, Claim(p) PROVE Moves
  <2>1. PICK j \in Claimable(RecoveredJobs, now) : Take(p, RecoveredJobs, RecoveredAttempts, j)
    BY <1>8 DEF Claim
  <2>2. /\ j \in JobIds /\ RecoveredJobs[j].state = "pending" /\ RecoveredJobs \in [JobIds -> Job]
        /\ now' = now
    BY <1>8, RecoverKeeps DEF Claim, Claimable, Tables
  <2>3. Steady(jobs, jobs')
    BY <2>1, <2>2, TakenSteady, RecoveredSteady, SteadyTransitive
  <2>4. \A a \in Tokens : AttemptMoves(a)
    BY <2>1, <2>2, TakenMoves
  <2> QED BY <1>2, <2>3, <2>4 DEF Moves
<1>9. ASSUME NEW r \in Repos, NEW p \in Procs, NEW kind \in Commands, Immediate(p, r, kind)
      PROVE  Moves
  <2>1. kind \in Kinds BY SchedulerAssumption DEF Kinds
  <2>2. Steady(jobs, jobs') /\ now' = now
    BY <1>9, <2>1, ImmediateSteady DEF Immediate
  <2>3. PICK k \in JobIds : \E J : Take(p, J, RecoveredAttempts, k)
    BY <1>9 DEF Immediate
  <2>4. \A a \in Tokens : AttemptMoves(a)
    BY <2>2, <2>3, TakenMoves
  <2> QED BY <1>2, <2>2, <2>4 DEF Moves
<1>10. ASSUME NEW p \in Procs, Heartbeat(p) PROVE Moves
  <2> DEFINE j == own[p].job
  <2> DEFINE row == jobs[j]
  <2> DEFINE row2 == [row EXCEPT !.lease = now + LEASE_SECONDS]
  <2>1. j \in JobIds /\ row \in Job
    BY <1>10, OwnedRow DEF Heartbeat
  <2>2. jobs' = [jobs EXCEPT ![j] = row2] /\ UNCHANGED attempts
    BY <1>1, <1>10, <2>1 DEF Heartbeat
  <2>3. row2.state = row.state /\ row2.repo = row.repo
    <3> HIDE DEF row
    <3> QED BY <2>1 DEF Job
  <2> HIDE DEF row2
  <2>4. Steady(jobs, jobs')
    BY <1>1, <2>1, <2>2, <2>3 DEF Steady
  <2> QED BY <1>3, <2>2, <2>4
<1>11. ASSUME NEW p \in Procs, NEW category \in Outcomes, Finish(p, category) PROVE Moves
  <2>1. category \in Categories BY SchedulerAssumption
  <2> QED BY <1>11, <2>1, FinishMoves
<1>12. ASSUME NEW p \in Procs, Interrupt(p) PROVE Moves
  <2> DEFINE js == {own[p].job}
  <2>1. js \in SUBSET JobIds
    BY <1>12, OwnedRow DEF Interrupt
  <2>2. /\ \E gone : jobs' = Interrupted(jobs, js, gone, now)
        /\ attempts' = Closed(attempts, js, "interrupted", "interrupted", now)
        /\ now' = now
    BY <1>12 DEF Interrupt
  <2> HIDE DEF js
  <2>3. Steady(jobs, jobs')
    BY <1>1, <2>1, <2>2, InterruptedSteady
  <2>4. \A a \in Tokens : AttemptMoves(a)
    BY <2>2, ClosedMoves
  <2> QED BY <1>2, <2>3, <2>4 DEF Moves
<1>13. /\ ClockAdvances => UNCHANGED <<jobs, attempts>>
       /\ \A r \in Repos, interval \in Intervals :
            EnableSchedule(r, interval) => UNCHANGED <<jobs, attempts>>
       /\ \A p \in Procs :
            /\ MarkUncertain(p) \/ LoseClaim(p) \/ Crash(p) => UNCHANGED <<jobs, attempts>>
            /\ \A status \in Statuses : PublishLocal(p, status) \/ PublishRemote(p, status)
                                        => UNCHANGED <<jobs, attempts>>
  BY DEF ClockAdvances, EnableSchedule, MarkUncertain, LoseClaim, Crash, PublishLocal,
         PublishRemote, tables
<1> QED BY <1>3, <1>4, <1>5, <1>6, <1>7, <1>8, <1>9, <1>10, <1>11, <1>12, <1>13
        DEF Next, vars, tables

\* Time does not go back.
LEMMA StepTime ==
  ASSUME IInv, [Next]_vars
  PROVE  now \in Nat /\ now' \in Nat /\ now <= now'
<1>1. now \in Nat
  BY DEF IInv, TypeOK
<1>2. now' = now \/ now' = now + 1
  BY DEF Next, vars, ClockAdvances, EnableSchedule, MarkUncertain, LoseClaim, Crash, PublishLocal,
         PublishRemote, Enqueue, Unqueue, DisableSchedule, Tick, Claim, RecoverOnly, Immediate,
         Heartbeat, Finish, Interrupt, tables
<1> QED BY <1>1, <1>2

LEMMA StepDated ==
  ASSUME IInv, Dated, [Next]_vars
  PROVE  Dated'
<1> SUFFICES ASSUME NEW a \in Tokens
             PROVE  /\ attempts'[a].finished = Null <=> attempts'[a].outcome = "open"
                    /\ attempts'[a].finished # Null => attempts'[a].job # Null
                    /\ attempts'[a].finished <= now'
  BY DEF Dated
<1>1. AttemptMoves(a)
  BY StepMoves DEF Moves
<1>2. attempts[a].finished \in Nat /\ now # Null
  BY DEF IInv, TypeOK, Attempt, Null
<1>3. NoAttempt.finished = Null /\ NoAttempt.outcome = "open" /\ NoAttempt.job = Null /\ Null = 0
  BY DEF NoAttempt, Null
<1> QED BY <1>1, <1>2, <1>3, StepTime DEF AttemptMoves, Expires, Opens, Closes, Open, Dated

LEMMA StepAbreast ==
  ASSUME IInv, IInv', Dated, Abreast, [Next]_vars
  PROVE  Abreast'
<1> SUFFICES ASSUME NEW a \in Tokens, NEW b \in Tokens, Open(attempts', a), attempts'[b].job # Null,
                    jobs'[attempts'[b].job].repo = jobs'[attempts'[a].job].repo
             PROVE  b <= a
  BY DEF Abreast, Open
<1> DEFINE i == attempts'[a].job
<1> DEFINE k == attempts'[b].job
<1>1. i \in JobIds /\ k \in JobIds /\ claims' \in Tokens \cup {0}
  BY DEF IInv, TypeOK, Attempt, Open
<1>2. /\ jobs'[i].state # "absent" /\ jobs'[k].state # "absent" /\ jobs'[i].token = a
      /\ a <= claims' /\ b <= claims'
  <2>1. /\ jobs'[i].state # "absent" /\ jobs'[k].state # "absent" /\ jobs'[i].token = a
        /\ ~(claims' < a) /\ ~(claims' < b)
    BY <1>1, NullRow DEF IInv, Consistent, AttemptRows, Open
  <2> QED BY <1>1, <2>1 DEF Tokens
<1>3. AttemptMoves(a) /\ AttemptMoves(b) /\ Moves
  BY StepMoves DEF Moves
<1>4. CASE Opens(a)
  BY <1>2, <1>4 DEF Opens
<1>5. CASE ~Opens(a)
  <2>1. attempts'[a] = attempts[a] /\ Open(attempts, a)
    <3>1. attempts'[a].finished = Null /\ attempts'[a].job # Null /\ now # Null
      BY DEF Open, IInv, Null
    <3> QED BY <1>3, <1>5, <3>1 DEF AttemptMoves, Closes, Expires, NoAttempt, Open
  <2>2. CASE Opens(b)
    <3>1. Open(attempts', b)
      BY <2>2 DEF Opens, Open
    <3>2. jobs'[k].token = b
      BY <3>1 DEF IInv, Consistent, AttemptRows
    <3>3. jobs'[i].state = "running" /\ jobs'[k].state = "running"
      BY <1>1, <1>2, <3>2, NullRow DEF IInv, Consistent, QuietRows
    <3>4. i = k
      BY <1>1, <3>3 DEF IInv, Consistent, OneClaim
    <3> QED BY <1>2, <3>2, <3>4 DEF Tokens
  <2>3. CASE ~Opens(b)
    <3>1. attempts[b].job = k
      BY <1>3, <2>3 DEF AttemptMoves, Closes, Expires, NoAttempt
    <3>2. jobs[i].state # "absent" /\ jobs[k].state # "absent"
      BY <1>1, <2>1, <3>1, NullRow DEF IInv, Consistent, AttemptRows
    <3>3. jobs[i].repo = jobs'[i].repo /\ jobs[k].repo = jobs'[k].repo
      BY <1>1, <1>2, <1>3, <3>2 DEF Moves, RowMoves
    <3> QED BY <1>1, <2>1, <3>1, <3>3, NullRow DEF Abreast
  <2> QED BY <2>2, <2>3
<1> QED BY <1>4, <1>5

\* Dated and Abreast hold in every state.
LEMMA AlwaysDated == Spec => [](Dated /\ Abreast)
<1>1. Init => Dated /\ Abreast
  BY DEF Init, Dated, Abreast, NoAttempt, Open, Null
<1>2. IInv /\ IInv' /\ Dated /\ Abreast /\ [Next]_vars => Dated' /\ Abreast'
  BY StepDated, StepAbreast
<1> QED BY <1>1, <1>2, Invariant, PTL DEF Spec

---------------------------------------------------------------------------
(* The last success *)

Successes(J, A, r, kind) ==
  {b \in Tokens : Succeeded(A, b) /\ A[b].kind = kind /\ J[A[b].job].repo = r}

\* Of some attempts one is the latest: take the one with the fewest later ones.
LEMMA LatestIsThere ==
  ASSUME NEW A \in [Tokens -> Attempt], NEW S \in SUBSET Tokens, S # {}
  PROVE  \E a \in S : \A b \in S : ~Later(A, b, a)
<1> DEFINE D(a) == {b \in S : Later(A, b, a)}
<1> DEFINE T == {D(a) : a \in S}
<1> DEFINE R == StrictSubsetOrdering(Tokens)
<1>1. IsFiniteSet(Tokens)
  BY JobTableAssumption, FS_Interval DEF Tokens
<1>2. T \subseteq FiniteSubsetsOf(Tokens) /\ T # {}
  <2>1. ASSUME NEW a \in S PROVE D(a) \in FiniteSubsetsOf(Tokens)
    <3>1. D(a) \subseteq Tokens
      OBVIOUS
    <3> HIDE DEF D
    <3> QED BY <1>1, <3>1, FS_Subset DEF FiniteSubsetsOf
  <2> QED BY <2>1
<1>3. PICK x \in T : \A y \in T : <<y, x>> \notin R
  <2>1. IsWellFoundedOn(R, FiniteSubsetsOf(Tokens))
    BY FS_StrictSubsetOrderingWellFounded
  <2> HIDE DEF T, R
  <2> QED BY <1>2, <2>1, WFMin
<1>4. PICK a \in S : x = D(a)
  BY <1>3
<1>5. ASSUME NEW b \in S, Later(A, b, a) PROVE FALSE
  <2>1. \A c \in S : /\ A[c].finished \in Nat /\ c \in Nat
    BY DEF Attempt, Tokens
  <2>2. \A c \in S : Later(A, c, b) => Later(A, c, a)
    BY <1>5, <2>1 DEF Later
  <2>3. ~Later(A, b, b)
    BY <2>1 DEF Later
  <2>4. D(b) \subseteq D(a) /\ b \in D(a) /\ b \notin D(b)
    BY <1>5, <2>2, <2>3
  <2>5. D(b) \in T /\ D(b) \subseteq Tokens /\ D(a) \subseteq Tokens
    OBVIOUS
  <2> HIDE DEF D, T
  <2>6. <<D(b), D(a)>> \in R
    BY <2>4, <2>5 DEF StrictSubsetOrdering
  <2> QED BY <1>3, <1>4, <2>5, <2>6
<1> QED BY <1>5

\* What LastSuccessAt returns.
LEMMA LastSuccessValue ==
  ASSUME NEW J, NEW A \in [Tokens -> Attempt], NEW r, NEW kind
  PROVE  LET S == Successes(J, A, r, kind)
             t == LastSuccessAt(J, A, r, kind)
         IN  /\ t \in Nat
             /\ \A a \in S : A[a].finished <= t
             /\ S = {} => t = 0
             /\ S # {} => \E a \in S : A[a].finished = t /\ \A b \in S : ~Later(A, b, a)
<1> DEFINE S == Successes(J, A, r, kind)
<1> DEFINE times == {A[a].finished : a \in S}
<1> DEFINE t == CHOOSE t \in times \cup {0} : \A u \in times : u <= t
<1>1. S \in SUBSET Tokens
  BY DEF Successes
<1>2. LastSuccessAt(J, A, r, kind) = t
  BY DEF LastSuccessAt, Successes
<1>3. \A a \in S : A[a].finished \in Nat /\ a \in Nat
  BY <1>1 DEF Attempt, Tokens
<1> HIDE DEF S
<1>4. CASE S = {}
  <2>1. times = {}
    BY <1>4
  <2>2. t = 0
    BY <2>1
  <2> HIDE DEF t, times
  <2> QED BY <1>2, <1>4, <2>2 DEF S
<1>5. CASE S # {}
  <2>1. PICK a \in S : \A b \in S : ~Later(A, b, a)
    BY <1>1, <1>5, LatestIsThere
  <2>2. \A b \in S : A[b].finished <= A[a].finished
    BY <1>3, <2>1 DEF Later
  <2>3. t \in times \cup {0} /\ \A u \in times : u <= t
    <3>1. A[a].finished \in times \cup {0} /\ \A u \in times : u <= A[a].finished
      BY <2>2
    <3> HIDE DEF times
    <3> QED BY <3>1
  <2> HIDE DEF t
  <2>4. t = A[a].finished
    <3>1. A[a].finished <= t /\ A[a].finished \in Nat
      BY <1>3, <2>3
    <3>2. t \in Nat /\ t <= A[a].finished
      BY <1>3, <2>2, <2>3
    <3> QED BY <3>1, <3>2
  <2> HIDE DEF times
  <2> QED BY <1>2, <1>3, <1>5, <2>1, <2>2, <2>4 DEF S
<1> QED BY <1>4, <1>5

\* A step keeps the latest success of each kind, whatever expires.
LEMMA StepSuccess ==
  ASSUME IInv, IInv', Dated, [Next]_vars, NEW r \in Repos, NEW kind \in Kinds
  PROVE  LastSuccessAt(jobs', attempts', r, kind) >= LastSuccessAt(jobs, attempts, r, kind)
<1> DEFINE S == Successes(jobs, attempts, r, kind)
<1> DEFINE S2 == Successes(jobs', attempts', r, kind)
<1> DEFINE t == LastSuccessAt(jobs, attempts, r, kind)
<1> DEFINE t2 == LastSuccessAt(jobs', attempts', r, kind)
<1>1. attempts \in [Tokens -> Attempt] /\ attempts' \in [Tokens -> Attempt]
  BY DEF IInv, TypeOK
<1>2. /\ t \in Nat /\ t2 \in Nat
      /\ S = {} => t = 0
      /\ S # {} => \E a \in S : attempts[a].finished = t /\ \A b \in S : ~Later(attempts, b, a)
      /\ \A a \in S2 : attempts'[a].finished <= t2
  BY <1>1, LastSuccessValue
<1>3. ASSUME NEW a \in S, attempts[a].finished = t, \A b \in S : ~Later(attempts, b, a)
      PROVE  t <= t2
  <2>1. a \in Tokens /\ Succeeded(attempts, a) /\ jobs[attempts[a].job].repo = r
        /\ attempts[a].kind = kind /\ attempts[a].job \in JobIds
    BY <1>1 DEF Successes, Succeeded, Attempt
  <2>2. LatestSuccess(jobs, attempts, a)
    BY <1>3, <2>1 DEF LatestSuccess, Successes
  <2>3. AttemptMoves(a) /\ Moves
    BY <2>1, StepMoves DEF Moves
  <2>4. attempts'[a] = attempts[a]
    BY <2>1, <2>2, <2>3 DEF AttemptMoves, Expires, Opens, Closes, Open, Dated, Succeeded
  <2>5. jobs[attempts[a].job].state # "absent" /\ jobs'[attempts[a].job].state # "absent"
    BY <2>1, <2>4 DEF IInv, Consistent, AttemptRows, Succeeded
  <2>6. jobs'[attempts[a].job].repo = r
    BY <2>1, <2>3, <2>5 DEF Moves, RowMoves
  <2>7. a \in S2
    BY <2>1, <2>4, <2>6 DEF Successes, Succeeded
  <2> QED BY <1>2, <1>3, <2>4, <2>7
<1> HIDE DEF S, S2, t, t2
<1>4. t2 >= t
  BY <1>2, <1>3
<1> QED BY <1>4 DEF t, t2

\* last_checked_at, last_fetched_at and last_converted_at never go back, however old
\* the history that proves them.
THEOREM LastSuccessKeptAlways == Spec => LastSuccessKept
<1>1. IInv /\ IInv' /\ Dated /\ [Next]_vars =>
        \A r \in Repos, kind \in Kinds :
          LastSuccessAt(jobs', attempts', r, kind) >= LastSuccessAt(jobs, attempts, r, kind)
  BY StepSuccess
<1> QED BY <1>1, Invariant, AlwaysDated, PTL DEF Spec, LastSuccessKept

---------------------------------------------------------------------------
(* How a job in flight is dropped, and how one goes away *)

\* What a step may do to a job in flight, and to one that goes away.
DropsOnly(i) ==
  jobs[i].state \in {"pending", "running"} /\ jobs'[i].state = "cancelled" => Dropped(i)
GoesWhenOld(i) ==
  jobs[i].state # "absent" /\ jobs'[i].state = "absent" =>
    jobs[i].state \in Terminal /\ jobs[i].finished < now - RETENTION
Leaves(i) == DropsOnly(i) /\ GoesWhenOld(i)

\* From J to J2 no row is cancelled.
Uncancelled(J, J2) == \A i \in JobIds : J2[i].state = "cancelled" => J[i].state = "cancelled"

LEMMA UncancelledLeaves ==
  ASSUME Steady(jobs, jobs'), Uncancelled(jobs, jobs')
  PROVE  \A i \in JobIds : Leaves(i)
BY DEF Steady, Uncancelled, Leaves, DropsOnly, GoesWhenOld

LEMMA EnqueuedUncancelled ==
  ASSUME NEW J \in [JobIds -> Job], NEW J2, NEW r \in Repos, NEW kind \in Kinds,
         NEW origin \in Origins, NEW t \in Nat, Enqueued(J, J2, r, kind, origin, t)
  PROVE  Uncancelled(J, J2)
<1>1. CASE \E i \in JobIds : /\ Absorbs(J, i, r, kind)
                             /\ J2 = [J EXCEPT ![i] = Merged(@, kind, origin, t)]
  <2>1. PICK i \in JobIds : /\ Absorbs(J, i, r, kind)
                            /\ J2 = [J EXCEPT ![i] = Merged(@, kind, origin, t)]
    BY <1>1
  <2> DEFINE old == J[i]
  <2> DEFINE row == Merged(old, kind, origin, t)
  <2>2. old \in Job /\ J2 = [J EXCEPT ![i] = row]
    BY <2>1
  <2> HIDE DEF old
  <2>3. row.state = old.state
    BY <2>2 DEF Merged, Job
  <2> HIDE DEF row
  <2>4. J2[i] = row /\ J[i] = old /\ \A k \in JobIds \ {i} : J2[k] = J[k]
    BY <2>2 DEF old
  <2> QED BY <2>3, <2>4 DEF Uncancelled
<1>2. CASE \E i \in JobIds : J2 = Inserted(J, i, r, kind, origin, t)
  <2>1. PICK i \in JobIds : J2 = Inserted(J, i, r, kind, origin, t)
    BY <1>2
  <2>2. J2[i].state = "pending" /\ \A k \in JobIds \ {i} : J2[k] = J[k]
    BY <2>1, InsertedRow
  <2> QED BY <2>2 DEF Uncancelled
<1> QED BY <1>1, <1>2 DEF Enqueued

\* Only pending jobs of the repository, of these origins and kinds, are cancelled.
LEMMA CancelledOnly ==
  ASSUME NEW J \in [JobIds -> Job], NEW r, NEW origins, NEW kinds, NEW t, NEW i \in JobIds,
         Cancelled(J, r, origins, kinds, t)[i] # J[i]
  PROVE  J[i].repo = r /\ J[i].state = "pending" /\ J[i].origin \in origins /\ J[i].kind \in kinds
BY DEF Cancelled

\* An interrupted job keeps its work, and is cancelled only if it is named.
LEMMA InterruptedWork ==
  ASSUME NEW J \in [JobIds -> Job], NEW js, NEW gone, NEW t, NEW i \in JobIds
  PROVE  LET J2 == Interrupted(J, js, gone, t)
         IN  /\ J2[i].repo = J[i].repo /\ J2[i].kind = J[i].kind /\ J2[i].origin = J[i].origin
             /\ J2[i] = J[i] \/ (i \in js /\ J2[i].state \in {"pending", "cancelled"})
             /\ J2[i] # J[i] /\ J2[i].state = "cancelled" => i \in gone
<1> DEFINE row == J[i]
<1> DEFINE row2 == Interrupted(J, js, gone, t)[i]
<1>1. CASE i \notin js
  BY <1>1 DEF Interrupted
<1>2. CASE i \in js
  <2> DEFINE state == IF i \in gone THEN "cancelled" ELSE "pending"
  <2> DEFINE finished == IF i \in gone THEN t ELSE Null
  <2>0. state \in {"pending", "cancelled"} /\ (state = "cancelled" => i \in gone)
    OBVIOUS
  <2>1. row2 = [row EXCEPT !.state = state, !.token = Null, !.lease = Null,
                           !.due = t, !.finished = finished]
    BY <1>2 DEF Interrupted
  <2> HIDE DEF state, finished
  <2>2. row \in Job
    OBVIOUS
  <2> HIDE DEF row
  <2>3. row2.state = state /\ row2.repo = row.repo /\ row2.kind = row.kind
        /\ row2.origin = row.origin
    BY <2>1, <2>2 DEF Job
  <2> HIDE DEF row2
  <2> QED BY <1>2, <2>0, <2>3 DEF row, row2
<1> QED BY <1>1, <1>2

\* Recovery cancels only running jobs that are orphaned.
LEMMA RecoveredWork ==
  ASSUME IInv, NEW i \in JobIds
  PROVE  LET J2 == RecoveredJobs
         IN  /\ J2[i].repo = jobs[i].repo /\ J2[i].kind = jobs[i].kind
             /\ J2[i].origin = jobs[i].origin
             /\ J2[i].state = "cancelled" /\ jobs[i].state # "cancelled" =>
                  Orphaned(jobs[i].origin, jobs[i].repo)
             /\ J2[i].state # "absent" <=> jobs[i].state # "absent"
<1> DEFINE gone == {k \in ExpiredJobs : Orphaned(jobs[k].origin, jobs[k].repo)}
<1>1. /\ RecoveredJobs = Interrupted(jobs, ExpiredJobs, gone, now)
      /\ jobs \in [JobIds -> Job]
      /\ i \in gone => Orphaned(jobs[i].origin, jobs[i].repo)
      /\ i \in ExpiredJobs => jobs[i].state = "running"
  BY DEF RecoveredJobs, IInv, TypeOK, ExpiredJobs, Expired
<1> HIDE DEF gone
<1> DEFINE J2 == Interrupted(jobs, ExpiredJobs, gone, now)
<1>2. /\ J2[i].repo = jobs[i].repo /\ J2[i].kind = jobs[i].kind /\ J2[i].origin = jobs[i].origin
      /\ J2[i] = jobs[i] \/ (i \in ExpiredJobs /\ J2[i].state \in {"pending", "cancelled"})
      /\ J2[i] # jobs[i] /\ J2[i].state = "cancelled" => i \in gone
  BY <1>1, InterruptedWork
<1> HIDE DEF J2
<1>3. J2 = RecoveredJobs
  BY <1>1 DEF J2
<1> QED BY <1>1, <1>2, <1>3

LEMMA UnqueuedLeaves ==
  ASSUME IInv, NEW r \in Repos, Unqueue(r), NEW i \in JobIds
  PROVE  DropsOnly(i)
<1>1. jobs' = Cancelled(jobs, r, Origins, Kinds, now) /\ UNCHANGED <<sched, own>>
      /\ jobs \in [JobIds -> Job]
  BY DEF Unqueue, IInv, TypeOK
<1>2. jobs'[i] # jobs[i] => jobs[i].repo = r
  BY <1>1, CancelledOnly
<1>3. InFlight(jobs', r) = Running(jobs, r)
  BY <1>1, UnqueuedRows
<1> QED BY <1>1, <1>2, <1>3 DEF DropsOnly, Dropped

LEMMA DisabledLeaves ==
  ASSUME IInv, NEW r \in Repos, DisableSchedule(r), NEW i \in JobIds
  PROVE  DropsOnly(i)
<1>1. /\ jobs' = Cancelled(jobs, r, {"scheduled"}, Kinds, now)
      /\ sched' = [sched EXCEPT ![r].state = IF @ = "none" THEN "none" ELSE "disabled"]
      /\ jobs \in [JobIds -> Job] /\ sched \in [Repos -> Schedule]
  BY DEF DisableSchedule, IInv, TypeOK
<1>2. jobs'[i] # jobs[i] => jobs[i].repo = r /\ jobs[i].origin = "scheduled"
  BY <1>1, CancelledOnly
<1>3. sched'[r].state # "enabled"
  BY <1>1 DEF Schedule
<1> QED BY <1>2, <1>3 DEF DropsOnly, Dropped

\* The expiry of history takes terminal jobs that are older than the retention period.
LEMMA TickLeaves ==
  ASSUME IInv, NEW p \in Procs, Tick(p), NEW i \in JobIds
  PROVE  Leaves(i)
<1>1. PICK ids \in [DueSchedules -> JobIds] :
        /\ NextIds(jobs, {ids[r] : r \in DueSchedules})
        /\ jobs' = WithoutJobs(Ticked(ids), Prunable(Ticked(ids), attempts, now - RETENTION))
  BY DEF Tick
<1> SUFFICES ASSUME jobs[i].state # "absent" PROVE Leaves(i)
  BY DEF Leaves, DropsOnly, GoesWhenOld
<1>2. Ticked(ids)[i] = jobs[i]
  <2>1. ~\E r \in DOMAIN ids : ids[r] = i
    BY <1>1, FreeId
  <2> QED BY <2>1 DEF Ticked
<1> DEFINE gone == Prunable(Ticked(ids), attempts, now - RETENTION)
<1>3. i \in gone => jobs[i].state \in Terminal /\ jobs[i].finished < now - RETENTION
  BY <1>2 DEF Prunable
<1>4. jobs'[i] = IF i \in gone THEN NoJob ELSE jobs[i]
  BY <1>1, <1>2 DEF WithoutJobs
<1> HIDE DEF gone
<1> QED BY <1>3, <1>4 DEF Leaves, DropsOnly, GoesWhenOld, NoJob, Terminal

\* A synchronous command drops the waiting work that it does itself.
LEMMA ImmediateLeaves ==
  ASSUME IInv, NEW p \in Procs, NEW r \in Repos, NEW kind \in {"check", "fetch"},
         Immediate(p, r, kind), NEW i \in JobIds
  PROVE  DropsOnly(i)
<1> DEFINE kinds == IF kind = "fetch" THEN Kinds ELSE {kind}
<1> DEFINE kept == Cancelled(RecoveredJobs, r, Origins, kinds, now)
<1>1. PICK k \in JobIds :
        /\ NextIds(kept, {k})
        /\ Take(p, Inserted(kept, k, r, kind, "manual", now), RecoveredAttempts, k)
  BY DEF Immediate
<1>2. /\ RecoveredJobs \in [JobIds -> Job] /\ QuietRows(RecoveredJobs)
      /\ PresentRows(RecoveredJobs) /\ now \in Nat
      /\ claims' = claims + 1 /\ claims' > claims /\ UNCHANGED sched
  BY <1>1, RecoverKeeps DEF Tables, Consistent, IInv, TypeOK, Take, Tokens, Immediate
<1>3. kept \in [JobIds -> Job] /\ kept[k].state = "absent"
  BY <1>1, <1>2, CancelledRows, FreeId DEF Resettled
<1>4. kept[i] # RecoveredJobs[i] => RecoveredJobs[i].repo = r /\ RecoveredJobs[i].kind \in kinds
  BY <1>2, CancelledOnly
<1>5. Steady(RecoveredJobs, kept)
  BY <1>2, CancelledSteady
<1> HIDE DEF kept
<1> DEFINE J == Inserted(kept, k, r, kind, "manual", now)
<1>6. /\ J \in [JobIds -> Job] /\ J[k].repo = r /\ J[k].kind = kind /\ J[k].origin = "manual"
      /\ \A m \in JobIds \ {k} : J[m] = kept[m]
  BY <1>2, <1>3, InsertedRow DEF Origins, Kinds
<1>7. Take(p, J, RecoveredAttempts, k)
  BY <1>1
<1> HIDE DEF J
<1>8. /\ k \in Running(jobs', r) /\ jobs'[k].kind = kind /\ jobs'[k].token = claims'
      /\ jobs'[k].origin = "manual"
      /\ \A m \in JobIds \ {k} : jobs'[m] = kept[m]
  <2> DEFINE row == J[k]
  <2> DEFINE row2 == [row EXCEPT !.state = "running", !.token = claims + 1,
                                 !.lease = now + LEASE_SECONDS]
  <2>1. jobs' = [J EXCEPT ![k] = row2]
    BY <1>6, <1>7 DEF Take, Claimed, Job
  <2>2. row \in Job /\ row.repo = r /\ row.kind = kind /\ row.origin = "manual"
    BY <1>6
  <2> HIDE DEF row
  <2>3. /\ row2.state = "running" /\ row2.repo = r /\ row2.kind = kind
        /\ row2.origin = "manual" /\ row2.token = claims + 1
    BY <2>2 DEF Job
  <2> HIDE DEF row2
  <2>4. jobs'[k] = row2 /\ \A m \in JobIds \ {k} : jobs'[m] = J[m]
    BY <1>6, <2>1
  <2> QED BY <1>2, <1>6, <2>3, <2>4 DEF Running
<1> SUFFICES ASSUME jobs[i].state \in {"pending", "running"}, jobs'[i].state = "cancelled"
             PROVE  Dropped(i)
  BY DEF DropsOnly
<1>9. i # k
  BY <1>8 DEF Running
<1>10. kept[i].state = "cancelled"
  BY <1>8, <1>9
<1>11. /\ RecoveredJobs[i].repo = jobs[i].repo /\ RecoveredJobs[i].kind = jobs[i].kind
       /\ RecoveredJobs[i].state = "cancelled" => Orphaned(jobs[i].origin, jobs[i].repo)
  BY RecoveredWork
<1>12. CASE kept[i] = RecoveredJobs[i]
  BY <1>2, <1>10, <1>11, <1>12 DEF Dropped, Orphaned
<1>13. CASE kept[i] # RecoveredJobs[i]
  BY <1>2, <1>4, <1>8, <1>11, <1>13 DEF Dropped
<1> QED BY <1>12, <1>13

\* How jobs leave: one step here per action.
LEMMA StepLeaves ==
  ASSUME IInv, [Next]_vars
  PROVE  \A i \in JobIds : Leaves(i)
<1> DEFINE AllLeave == \A i \in JobIds : Leaves(i)
<1>1. jobs \in [JobIds -> Job] /\ now \in Nat
  BY DEF IInv, TypeOK
<1>2. UNCHANGED jobs => AllLeave
  BY DEF Leaves, DropsOnly, GoesWhenOld
<1>3. Steady(jobs, jobs') /\ (\A i \in JobIds : DropsOnly(i)) => AllLeave
  BY DEF Steady, Leaves, GoesWhenOld
<1>4. ASSUME NEW r \in Repos, NEW kind \in Requests, Enqueue(r, kind) PROVE AllLeave
  <2>1. kind \in Kinds /\ "manual" \in Origins
    BY SchedulerAssumption DEF Origins
  <2>2. Steady(jobs, jobs') /\ Uncancelled(jobs, jobs')
    BY <1>1, <1>4, <2>1, EnqueuedSteady, EnqueuedUncancelled DEF Enqueue
  <2> QED BY <2>2, UncancelledLeaves
<1>5. ASSUME NEW r \in Repos, Unqueue(r) \/ DisableSchedule(r) PROVE AllLeave
  <2>1. Steady(jobs, jobs')
    BY <1>1, <1>5, CancelledSteady DEF Unqueue, DisableSchedule
  <2>2. \A i \in JobIds : DropsOnly(i)
    BY <1>5, UnqueuedLeaves, DisabledLeaves
  <2> QED BY <1>3, <2>1, <2>2
<1>6. ASSUME NEW p \in Procs, Tick(p) PROVE AllLeave
  BY <1>6, TickLeaves
<1>7. ASSUME NEW p \in Procs, RecoverOnly(p) PROVE AllLeave
  <2>1. jobs' = RecoveredJobs /\ UNCHANGED sched
    BY <1>7 DEF RecoverOnly
  <2>2. \A i \in JobIds : DropsOnly(i)
    BY <2>1, RecoveredWork DEF DropsOnly, Dropped, Orphaned
  <2> QED BY <1>3, <2>1, <2>2, RecoveredSteady
<1>8. ASSUME NEW p \in Procs, Claim(p) PROVE AllLeave
  <2>1. PICK j \in Claimable(RecoveredJobs, now) : Take(p, RecoveredJobs, RecoveredAttempts, j)
    BY <1>8 DEF Claim
  <2>2. /\ j \in JobIds /\ RecoveredJobs[j].state = "pending" /\ RecoveredJobs \in [JobIds -> Job]
        /\ UNCHANGED sched
    BY <1>8, RecoverKeeps DEF Claim, Claimable, Tables
  <2>3. Steady(jobs, jobs')
    BY <2>1, <2>2, TakenSteady, RecoveredSteady, SteadyTransitive
  <2>4. \A i \in JobIds : jobs'[i].state = "cancelled" => jobs'[i] = RecoveredJobs[i]
    <3> DEFINE row == RecoveredJobs[j]
    <3>1. row \in Job /\ \A i \in JobIds \ {j} : jobs'[i] = RecoveredJobs[i]
      BY <2>1, <2>2 DEF Take, Claimed
    <3>2. jobs'[j] = [row EXCEPT !.state = "running", !.token = claims + 1,
                                 !.lease = now + LEASE_SECONDS]
      BY <2>1, <2>2 DEF Take, Claimed, Job
    <3> HIDE DEF row
    <3>3. jobs'[j].state = "running"
      BY <3>1, <3>2 DEF Job
    <3> QED BY <3>1, <3>3
  <2>5. \A i \in JobIds : DropsOnly(i)
    BY <2>2, <2>4, RecoveredWork DEF DropsOnly, Dropped, Orphaned
  <2> QED BY <1>3, <2>3, <2>5
<1>9. ASSUME NEW r \in Repos, NEW p \in Procs, NEW kind \in Commands, Immediate(p, r, kind)
      PROVE  AllLeave
  <2>1. kind \in {"check", "fetch"} /\ kind \in Kinds
    BY SchedulerAssumption DEF Kinds
  <2> QED BY <1>3, <1>9, <2>1, ImmediateSteady, ImmediateLeaves
<1>10. ASSUME NEW p \in Procs, Heartbeat(p) PROVE AllLeave
  <2> DEFINE row == jobs[own[p].job]
  <2>1. row \in Job /\ \A i \in JobIds \ {own[p].job} : jobs'[i] = jobs[i]
    BY <1>1, <1>10, OwnedRow DEF Heartbeat
  <2>2. jobs'[own[p].job] = [row EXCEPT !.lease = now + LEASE_SECONDS]
    BY <1>1, <1>10, OwnedRow DEF Heartbeat, Job
  <2> HIDE DEF row
  <2>3. jobs'[own[p].job].state = row.state
    BY <2>1, <2>2 DEF Job
  <2> QED BY <2>1, <2>3 DEF Leaves, DropsOnly, GoesWhenOld, row, Dropped
<1>11. ASSUME NEW p \in Procs, NEW category \in Outcomes, Finish(p, category) PROVE AllLeave
  <2>1. category \in Categories BY SchedulerAssumption
  <2>2. PICK finished : FinishesTo(p, category, finished)
    BY <1>11, <2>1, FinishTables
  <2>3. /\ own[p].job \in JobIds /\ own[p].repo \in Repos /\ own[p].token # Null
        /\ jobs[own[p].job].repo = own[p].repo /\ jobs[own[p].job].token = own[p].token
    BY <1>11, OwnedRow DEF Finish, Owns, Idle
  <2>4. jobs[own[p].job].origin = own[p].origin
    BY <2>3 DEF IInv, OwnInv
  <2>5. Steady(finished, jobs') /\ Uncancelled(finished, jobs')
    <3>1. CASE jobs' = finished
      BY <3>1 DEF Steady, Uncancelled
    <3>2. CASE Enqueued(finished, jobs', own[p].repo, "fetch", "scheduled", now)
      BY <1>1, <2>2, <2>3, <3>2, EnqueuedSteady, EnqueuedUncancelled
         DEF FinishesTo, Kinds, Origins
    <3> QED BY <2>2, <3>1, <3>2 DEF FinishesTo
  <2>6. ASSUME NEW i \in JobIds PROVE DropsOnly(i)
    <3>1. CASE i = own[p].job
      BY <1>11, <2>2, <2>3, <2>4, <2>5, <3>1, FinishSchedules
         DEF FinishesTo, Uncancelled, DropsOnly, Dropped, Orphaned
    <3>2. CASE i # own[p].job
      BY <2>2, <2>5, <3>2 DEF FinishesTo, Uncancelled, DropsOnly
    <3> QED BY <3>1, <3>2
  <2>7. ASSUME NEW i \in JobIds PROVE GoesWhenOld(i)
    BY <2>2, <2>5 DEF FinishesTo, Settled, Terminal, Steady, GoesWhenOld
  <2> QED BY <2>6, <2>7 DEF Leaves
<1>12. ASSUME NEW p \in Procs, Interrupt(p) PROVE AllLeave
  <2> DEFINE c == own[p]
  <2> DEFINE js == {c.job}
  <2> DEFINE gone == IF Orphaned(c.origin, c.repo) THEN {c.job} ELSE {}
  <2>1. js \in SUBSET JobIds /\ jobs' = Interrupted(jobs, js, gone, now) /\ UNCHANGED sched
    BY <1>12, OwnedRow DEF Interrupt
  <2>2. /\ c.token # Null /\ c.job \in JobIds
        /\ jobs[c.job].repo = c.repo /\ jobs[c.job].token = c.token
    BY <1>12, OwnedRow DEF Interrupt, Owns, Idle
  <2>3. jobs[c.job].origin = c.origin
    BY <2>2 DEF IInv, OwnInv
  <2>4. \A i \in gone : i = c.job /\ Orphaned(jobs[i].origin, jobs[i].repo)
    BY <2>2, <2>3
  <2> HIDE DEF gone, js
  <2>5. Steady(jobs, jobs')
    BY <1>1, <2>1, InterruptedSteady
  <2>6. \A i \in JobIds : jobs'[i] # jobs[i] /\ jobs'[i].state = "cancelled" => i \in gone
    <3>1. \A i \in JobIds : LET J2 == Interrupted(jobs, js, gone, now)
                            IN  J2[i] # jobs[i] /\ J2[i].state = "cancelled" => i \in gone
      BY <1>1, InterruptedWork
    <3> QED BY <2>1, <3>1
  <2>7. \A i \in JobIds : DropsOnly(i)
    BY <2>1, <2>4, <2>6 DEF DropsOnly, Dropped, Orphaned
  <2> QED BY <1>3, <2>5, <2>7
<1>13. /\ ClockAdvances => UNCHANGED jobs
       /\ \A r \in Repos, interval \in Intervals : EnableSchedule(r, interval) => UNCHANGED jobs
       /\ \A p \in Procs :
            /\ MarkUncertain(p) \/ LoseClaim(p) \/ Crash(p) => UNCHANGED jobs
            /\ \A status \in Statuses : PublishLocal(p, status) \/ PublishRemote(p, status)
                                        => UNCHANGED jobs
  BY DEF ClockAdvances, EnableSchedule, MarkUncertain, LoseClaim, Crash, PublishLocal,
         PublishRemote, tables
<1> QED BY <1>2, <1>4, <1>5, <1>6, <1>7, <1>8, <1>9, <1>10, <1>11, <1>12, <1>13 DEF Next, vars

---------------------------------------------------------------------------
(* What becomes of a failure *)

\* A job with a problem that is neither ended well nor cancelled has one afterwards: the same
\* attempt, or the one that has just been closed.
LEMMA ProblemStays ==
  ASSUME IInv, IInv', Dated, Abreast, Moves, NEW a \in Tokens, JobError(jobs, attempts, a),
         jobs'[attempts[a].job].state \in {"pending", "running", "failed"}
  PROVE  \E b \in Tokens : /\ JobError(jobs', attempts', b)
                           /\ attempts'[b].job = attempts[a].job
                           /\ (b = a /\ attempts'[a] = attempts[a]) \/ Closes(b)
<1> DEFINE j == attempts[a].job
<1>1. j \in JobIds /\ j # Null /\ now # Null /\ attempts[a].finished # Null
  BY DEF IInv, TypeOK, Attempt, JobError, Null
<1>2. attempts'[a] = attempts[a]
  <2>1. AttemptMoves(a) BY DEF Moves
  <2> QED BY <1>1, <2>1 DEF AttemptMoves, Expires, Opens, Closes, Open
<1>3. ASSUME NEW c \in Tokens, attempts'[c].job = j, attempts'[c].finished # Null
      PROVE  attempts[c].job = j /\ (Closes(c) \/ attempts'[c] = attempts[c])
  <2>1. AttemptMoves(c) BY DEF Moves
  <2> QED BY <1>1, <1>3, <2>1 DEF AttemptMoves, Expires, NoAttempt, Opens, Closes
<1>4. CASE \E b \in Tokens : Closes(b) /\ attempts[b].job = j
  <2>1. PICK b \in Tokens : Closes(b) /\ attempts[b].job = j
    BY <1>4
  <2>2. /\ attempts'[b].job = j /\ attempts'[b].finished # Null
        /\ attempts'[b].outcome \in {"failed", "interrupted"}
    BY <1>1, <2>1 DEF Closes
  <2>3. \A c \in Tokens : attempts'[c].job = j /\ attempts'[c].finished # Null => c <= b
    BY <1>1, <1>3, <2>1 DEF Abreast, Closes
  <2> QED BY <1>1, <2>1, <2>2, <2>3 DEF JobError
<1>5. CASE ~\E b \in Tokens : Closes(b) /\ attempts[b].job = j
  <2>1. \A c \in Tokens : attempts'[c].job = j /\ attempts'[c].finished # Null =>
           attempts[c].job = j /\ attempts'[c] = attempts[c]
    BY <1>3, <1>5
  <2>2. JobError(jobs', attempts', a)
    BY <1>1, <1>2, <2>1 DEF JobError
  <2> QED BY <1>2, <2>2
<1> QED BY <1>4, <1>5

\* What becomes of an unresolved problem.
LEMMA StepErrors ==
  ASSUME IInv, IInv', Dated, Abreast, [Next]_vars, NEW a \in Tokens,
         Unresolved(jobs, attempts, a), ~Unresolved(jobs', attempts', a)
  PROVE  Evidence(a)
<1> DEFINE j == attempts[a].job
<1> DEFINE r == jobs[j].repo
<1>1. /\ JobError(jobs, attempts, a)
      /\ ~\E b \in Tokens : /\ Succeeded(attempts, b) /\ Later(attempts, b, a)
                            /\ jobs[attempts[b].job].repo = r
                            /\ attempts[b].kind = attempts[a].kind
  BY DEF Unresolved
<1>2. /\ Moves /\ j \in JobIds /\ jobs' \in [JobIds -> Job] /\ now \in Nat
      /\ jobs[j].state \in {"pending", "running", "failed"}
      /\ Leaves(j) /\ TerminalStays(j)
  BY <1>1, StepMoves, StepLeaves, StepStays DEF IInv, TypeOK, Attempt, JobError
<1>3. jobs'[j].state \in {"absent", "pending", "running", "succeeded", "failed", "cancelled"}
  BY <1>2 DEF Job, Terminal
<1>4. CASE jobs'[j].state = "cancelled"
  BY <1>2, <1>4 DEF Leaves, DropsOnly, TerminalStays, Terminal, Evidence
<1>5. CASE jobs'[j].state = "absent"
  BY <1>2, <1>5 DEF Leaves, GoesWhenOld, Terminal, Evidence
<1>6. CASE jobs'[j].state = "succeeded"
  <2>1. jobs'[j].repo = r
    BY <1>2, <1>6 DEF Moves, RowMoves
  <2>2. PICK b \in Tokens : /\ Succeeded(attempts', b) /\ ~Succeeded(attempts, b)
                            /\ attempts'[b].job = j
    BY <1>2, <1>6 DEF Moves, RowMoves
  <2> QED BY <2>1, <2>2 DEF Evidence
<1>7. CASE jobs'[j].state \in {"pending", "running", "failed"}
  <2>1. jobs'[j].repo = r
    BY <1>2, <1>7 DEF Moves, RowMoves
  <2>2. PICK b \in Tokens : /\ JobError(jobs', attempts', b) /\ attempts'[b].job = j
                            /\ (b = a /\ attempts'[a] = attempts[a]) \/ Closes(b)
    BY <1>1, <1>2, <1>7, ProblemStays
  <2>3. ASSUME NEW c \in Tokens, Succeeded(attempts', c), jobs'[attempts'[c].job].repo = r,
               attempts'[c].kind = attempts'[b].kind, Later(attempts', c, b)
        PROVE  b = a /\ attempts'[a] = attempts[a] /\ ~Succeeded(attempts, c)
    <3>1. CASE Succeeded(attempts, c)
      <4>1. attempts[c].job \in JobIds
        BY <3>1 DEF IInv, TypeOK, Attempt, Succeeded
      <4>2. attempts'[c] = attempts[c]
        <5>1. AttemptMoves(c) BY <1>2 DEF Moves
        <5> QED BY <2>3, <3>1, <5>1 DEF AttemptMoves, Expires, NoAttempt, Opens, Closes, Open,
                   Dated, Succeeded
      <4>3. jobs[attempts[c].job].state # "absent" /\ jobs'[attempts[c].job].state # "absent"
        BY <3>1, <4>1, <4>2 DEF IInv, Consistent, AttemptRows, Succeeded
      <4>4. jobs[attempts[c].job].repo = r
        BY <1>2, <2>3, <4>1, <4>2, <4>3 DEF Moves, RowMoves
      <4>5. CASE b = a /\ attempts'[a] = attempts[a]
        BY <1>1, <2>3, <3>1, <4>2, <4>4, <4>5 DEF Later
      <4>6. CASE Closes(b)
        <5>1. attempts'[b].finished = now /\ Open(attempts, b) /\ attempts[b].job = j
          BY <2>2, <4>6 DEF Closes
        <5>2. c <= b
          BY <3>1, <4>4, <5>1 DEF Abreast, Succeeded
        <5>3. attempts'[c].finished \in Nat /\ attempts'[c].finished <= now
          BY <4>2 DEF Dated, IInv, TypeOK, Attempt
        <5> QED BY <1>2, <2>3, <5>1, <5>2, <5>3 DEF Later, Tokens
      <4> QED BY <2>2, <4>5, <4>6
    <3>2. CASE ~Succeeded(attempts, c) /\ Closes(b)
      <4>1. Closes(c)
        <5>1. AttemptMoves(c) BY <1>2 DEF Moves
        <5> QED BY <2>3, <3>2, <5>1 DEF AttemptMoves, Expires, NoAttempt, Opens, Succeeded
      <4>2. /\ Open(attempts, b) /\ Open(attempts, c)
            /\ attempts[b].job = j /\ attempts[c].job = attempts'[c].job
        BY <2>2, <3>2, <4>1 DEF Closes
      <4>3. attempts[c].job \in JobIds /\ jobs[attempts[c].job].repo = r
        <5>1. attempts[c].job \in JobIds /\ jobs[attempts[c].job].state # "absent"
          BY <4>2 DEF IInv, TypeOK, Attempt, Open, Consistent, AttemptRows
        <5>2. jobs'[attempts[c].job].state # "absent"
          BY <2>3, <4>2 DEF IInv, Consistent, AttemptRows, Succeeded
        <5> QED BY <1>2, <2>3, <4>2, <5>1, <5>2 DEF Moves, RowMoves
      <4>4. b <= c /\ c <= b
        BY <4>2, <4>3 DEF Abreast, Open
      <4>5. b = c
        BY <4>4 DEF Tokens
      <4> QED BY <2>2, <2>3, <4>5 DEF JobError, Succeeded
    <3> QED BY <2>2, <3>1, <3>2
  <2>4. CASE \E c \in Tokens : /\ Succeeded(attempts', c) /\ jobs'[attempts'[c].job].repo = r
                               /\ attempts'[c].kind = attempts'[b].kind /\ Later(attempts', c, b)
    BY <2>3, <2>4 DEF Evidence
  <2>5. CASE ~\E c \in Tokens : /\ Succeeded(attempts', c) /\ jobs'[attempts'[c].job].repo = r
                                /\ attempts'[c].kind = attempts'[b].kind /\ Later(attempts', c, b)
    <3>1. Unresolved(jobs', attempts', b)
      BY <2>1, <2>2, <2>5 DEF Unresolved
    <3>2. Closes(b) /\ b # a
      BY <2>2, <3>1
    <3>3. Open(attempts, b) /\ attempts[b].job = j
      BY <2>2, <3>2 DEF Closes
    <3>4. a <= b
      BY <1>1, <3>3 DEF Abreast, JobError
    <3>5. b > a
      BY <3>2, <3>4 DEF Tokens
    <3> QED BY <2>2, <3>1, <3>5 DEF Evidence
  <2> QED BY <2>4, <2>5
<1> QED BY <1>3, <1>4, <1>5, <1>6, <1>7

\* A problem leaves the inventory only when a success of its repository and kind or of its
\* own job, a newer problem of that job, the expiry of history or the dropping of the job
\* takes it off: no success of another repository or kind, no retry, promotion, recovery or
\* claim of other work hides it.
THEOREM ErrorsNeedEvidenceAlways == Spec => ErrorsNeedEvidence
<1>1. IInv /\ IInv' /\ Dated /\ Abreast /\ [Next]_vars =>
        \A a \in Tokens :
          Unresolved(jobs, attempts, a) /\ ~Unresolved(jobs', attempts', a) => Evidence(a)
  BY StepErrors
<1> QED BY <1>1, Invariant, AlwaysDated, PTL DEF Spec, ErrorsNeedEvidence

\* The failed view shows a job until it succeeds, is cancelled or expires: another attempt, a
\* retry that runs and the success of another job do not hide it.
THEOREM FailureStaysVisibleAlways == Spec => FailureStaysVisible
<1>1. ASSUME IInv, IInv', Dated, Abreast, [Next]_vars,
             NEW j \in Selected("failed", Null), j \notin Selected("failed", Null)'
      PROVE  jobs'[j].state \in {"succeeded", "cancelled", "absent"}
  <2>1. j \in JobIds /\ \E a \in Tokens : JobError(jobs, attempts, a) /\ attempts[a].job = j
    BY <1>1 DEF Selected, Shows, Diagnostics, Exists
  <2>2. PICK a \in Tokens : JobError(jobs, attempts, a) /\ attempts[a].job = j
    BY <2>1
  <2>3. SUFFICES ASSUME jobs'[j].state \notin {"succeeded", "cancelled", "absent"}
                 PROVE  FALSE
    OBVIOUS
  <2>4. jobs'[j].state \in {"pending", "running", "failed"}
    BY <1>1, <2>1, <2>3 DEF IInv, TypeOK, Job, Terminal
  <2>5. PICK b \in Tokens : JobError(jobs', attempts', b) /\ attempts'[b].job = j
    BY <1>1, <2>2, <2>4, StepMoves, ProblemStays
  <2> QED BY <1>1, <2>1, <2>3, <2>5 DEF Selected, Shows, Diagnostics, Exists
<1>2. IInv /\ IInv' /\ Dated /\ Abreast /\ [Next]_vars =>
        \A j \in Selected("failed", Null) \ Selected("failed", Null)' :
          jobs'[j].state \in {"succeeded", "cancelled", "absent"}
  BY <1>1
<1> QED BY <1>2, Invariant, AlwaysDated, PTL DEF Spec, FailureStaysVisible

---------------------------------------------------------------------------
(* What the job inspection shows *)

LEMMA LeastNatural ==
  ASSUME NEW S \in SUBSET Nat, S # {}
  PROVE  \E m \in S : \A n \in S : m <= n
<1> DEFINE T == {0 .. n : n \in S}
<1> DEFINE R == StrictSubsetOrdering(Nat)
<1>1. IsWellFoundedOn(R, FiniteSubsetsOf(Nat))
  BY FS_StrictSubsetOrderingWellFounded
<1>2. T \subseteq FiniteSubsetsOf(Nat) /\ T # {}
  <2>1. ASSUME NEW t \in T PROVE t \in FiniteSubsetsOf(Nat)
    <3>1. PICK n \in S : t = 0 .. n
      OBVIOUS
    <3>2. t \subseteq Nat /\ IsFiniteSet(t)
      BY <3>1, FS_Interval
    <3> QED BY <3>2 DEF FiniteSubsetsOf
  <2> QED BY <2>1
<1>3. PICK x \in T : \A y \in T : <<y, x>> \notin R
  <2> HIDE DEF T, R
  <2> QED BY <1>1, <1>2, WFMin
<1>4. PICK m \in S : x = 0 .. m
  BY <1>3
<1>5. ASSUME NEW n \in S, n < m PROVE FALSE
  <2>1. 0 .. n \subseteq 0 .. m /\ m \in 0 .. m /\ m \notin 0 .. n
    BY <1>5
  <2>2. <<0 .. n, x>> \in R
    BY <1>4, <2>1 DEF StrictSubsetOrdering
  <2> QED BY <1>3, <2>2
<1> QED BY <1>5

\* blocking_job_id is the first of those that come before a job.
LEMMA BlockingFirst ==
  ASSUME NEW j \in JobIds
  PROVE  /\ Blocking(jobs, j) = {} => BlockingJob(j) = Null
         /\ Blocking(jobs, j) # {} =>
              /\ BlockingJob(j) \in Blocking(jobs, j) /\ BlockingJob(j) # Null
              /\ \A k \in Blocking(jobs, j) : BlockingJob(j) <= k
<1> DEFINE B == Blocking(jobs, j)
<1>1. B \in SUBSET Nat /\ Null \notin B
  BY NullRow DEF Blocking, JobIds
<1>2. BlockingJob(j) = IF B = {} THEN Null ELSE CHOOSE i \in B : \A k \in B : i <= k
  BY DEF BlockingJob
<1> HIDE DEF B
<1>3. B # {} => \E i \in B : \A k \in B : i <= k
  BY <1>1, LeastNatural
<1>4. B # {} => BlockingJob(j) \in B /\ \A k \in B : BlockingJob(j) <= k
  BY <1>2, <1>3
<1> QED BY <1>1, <1>2, <1>4 DEF B

\* Two steps along blocking_job_id come to the end: to the first job in line, and from there to
\* the running job that may have overtaken it.
LEMMA TwoStepsLead ==
  ASSUME IInv, NEW j \in Exists(jobs)
  PROVE  /\ Lead[j] \in Exists(jobs) /\ jobs[Lead[j]].repo = jobs[j].repo
         /\ Lead[Lead[Lead[j]]] = Lead[Lead[j]]
<1>1. PresentRows(jobs) /\ OneClaim(jobs)
  BY DEF IInv, Consistent
<1>2. ASSUME NEW i \in Exists(jobs)
      PROVE  /\ Lead[i] \in Exists(jobs) /\ jobs[Lead[i]].repo = jobs[i].repo
             /\ Lead[i] # i => Waits(i) /\ Lead[i] = BlockingJob(i)
             /\ jobs[i].state = "running" => Lead[i] = i
  <2>1. i \in JobIds
    BY DEF Exists
  <2>2. Lead[i] = IF Waits(i) THEN BlockingJob(i) ELSE i
    BY <2>1 DEF Lead
  <2>3. Waits(i) => BlockingJob(i) \in Blocking(jobs, i)
    BY <2>1, BlockingFirst DEF Waits
  <2> QED BY <2>1, <2>2, <2>3 DEF Blocking, Exists, Waits
<1> DEFINE m == Lead[j]
<1> DEFINE k == Lead[m]
<1>3. m \in Exists(jobs) /\ k \in Exists(jobs) /\ jobs[m].repo = jobs[j].repo
      /\ jobs[k].repo = jobs[j].repo /\ j \in JobIds /\ m \in JobIds /\ k \in JobIds
  BY <1>2 DEF Exists
<1>4. CASE m = j \/ k = m
  BY <1>3, <1>4
<1>5. CASE m # j /\ k # m
  <2>1. /\ Waits(j) /\ m = BlockingJob(j) /\ m \in Blocking(jobs, j)
        /\ \A i \in Blocking(jobs, j) : m <= i
    BY <1>2, <1>3, <1>5, BlockingFirst DEF Waits
  <2>2. Waits(m) /\ k \in Blocking(jobs, m)
    BY <1>2, <1>3, <1>5, BlockingFirst DEF Waits
  <2>3. jobs[k].state = "running"
    <3> SUFFICES ASSUME jobs[k].state # "running" PROVE FALSE
      OBVIOUS
    <3>1. k < m /\ jobs[k].state = "pending" /\ jobs[k].repo = jobs[m].repo
      BY <2>2 DEF Blocking
    <3>2. m < j
      BY <2>1, <2>2 DEF Blocking, Waits
    <3>3. k \in Blocking(jobs, j)
      BY <1>3, <3>1, <3>2 DEF Blocking, JobIds
    <3> QED BY <1>3, <2>1, <3>1, <3>3 DEF JobIds
  <2> QED BY <1>2, <1>3, <2>3
<1> QED BY <1>2, <1>3, <1>4, <1>5

\* Following the chain any number of times leads no further than following it twice.
LEMMA LedValue ==
  ASSUME IInv
  PROVE  \A n \in 0 .. MaxJobs :
           Led[n] = IF n = 0 THEN [j \in JobIds |-> j]
                    ELSE IF n = 1 THEN [j \in JobIds |-> Lead[j]]
                    ELSE [j \in JobIds |-> Lead[Lead[j]]]
<1> DEFINE one == [j \in JobIds |-> Lead[j]]
<1> DEFINE two == [j \in JobIds |-> Lead[Lead[j]]]
<1> DEFINE g == [n \in 0 .. MaxJobs |-> IF n = 0 THEN [j \in JobIds |-> j]
                                        ELSE IF n = 1 THEN one ELSE two]
<1> DEFINE Is(f) == f = [n \in 0 .. MaxJobs |->
                           IF n = 0 THEN [j \in JobIds |-> j]
                           ELSE [j \in JobIds |-> Lead[f[n - 1][j]]]]
<1>1. MaxJobs \in Nat
  BY JobTableAssumption
<1>2. \A j \in JobIds : Lead[j] \in JobIds /\ Lead[Lead[Lead[j]]] = Lead[Lead[j]]
  <2>1. ASSUME NEW j \in JobIds, j \notin Exists(jobs) PROVE Lead[j] = j
    BY <2>1 DEF Exists, Lead, Waits
  <2> QED BY <2>1, TwoStepsLead DEF Exists
<1> HIDE DEF Lead
<1>3. Is(g)
  <2> SUFFICES ASSUME NEW n \in 0 .. MaxJobs
               PROVE  g[n] = IF n = 0 THEN [j \in JobIds |-> j]
                             ELSE [j \in JobIds |-> Lead[g[n - 1][j]]]
    OBVIOUS
  <2>1. CASE n = 0
    BY <2>1
  <2>2. CASE n = 1
    <3>1. g[0] = [j \in JobIds |-> j] /\ g[1] = one
      BY <1>1, <2>2
    <3> HIDE DEF g
    <3> QED BY <2>2, <3>1
  <2>3. CASE n # 0 /\ n # 1
    <3>1. g[n] = two /\ n - 1 \in 0 .. MaxJobs /\ n - 1 # 0
      BY <1>1, <2>3
    <3>2. g[n - 1] = one \/ g[n - 1] = two
      BY <3>1
    <3> HIDE DEF g
    <3>3. \A j \in JobIds : Lead[g[n - 1][j]] = Lead[Lead[j]]
      BY <1>2, <3>2
    <3>4. [j \in JobIds |-> Lead[g[n - 1][j]]] = two
      BY <3>3
    <3> QED BY <2>3, <3>1, <3>4
  <2> QED BY <2>1, <2>2, <2>3
<1>4. \E f : Is(f)
  <2> HIDE DEF g, Is
  <2> QED BY <1>3
<1>5. Led = CHOOSE f : Is(f)
  BY DEF Led
<1>6. Is(Led)
  <2> HIDE DEF Is
  <2> QED BY <1>4, <1>5
<1>7. ASSUME NEW n \in 0 .. MaxJobs, Led[n] # g[n] PROVE FALSE
  <2> DEFINE S == {i \in 0 .. MaxJobs : Led[i] # g[i]}
  <2>1. S \in SUBSET Nat /\ S # {}
    BY <1>7
  <2>2. PICK m \in S : \A i \in S : m <= i
    <3> HIDE DEF S
    <3> QED BY <2>1, LeastNatural
  <2>3. m \in 0 .. MaxJobs /\ Led[m] # g[m]
    BY <2>2
  <2>4. m # 0 => m - 1 \in 0 .. MaxJobs /\ Led[m - 1] = g[m - 1]
    <3>1. m \in Nat /\ (m # 0 => m - 1 \in 0 .. MaxJobs) /\ ~(m <= m - 1)
      BY <1>1, <2>3
    <3> HIDE DEF g
    <3> QED BY <2>2, <3>1
  <2> HIDE DEF g, S
  <2>5. \A i \in 0 .. MaxJobs :
          /\ Led[i] = IF i = 0 THEN [j \in JobIds |-> j]
                      ELSE [j \in JobIds |-> Lead[Led[i - 1][j]]]
          /\ g[i] = IF i = 0 THEN [j \in JobIds |-> j]
                    ELSE [j \in JobIds |-> Lead[g[i - 1][j]]]
    BY <1>3, <1>6
  <2>6. CASE m = 0
    BY <2>3, <2>5, <2>6
  <2>7. CASE m # 0
    <3> DEFINE before == g[m - 1]
    <3>1. g[m] = [j \in JobIds |-> Lead[before[j]]]
      BY <2>3, <2>5, <2>7
    <3>2. Led[m] = [j \in JobIds |-> Lead[before[j]]]
      BY <2>3, <2>4, <2>5, <2>7
    <3> QED BY <2>3, <3>1, <3>2
  <2> QED BY <2>6, <2>7
<1> QED BY <1>7

\* Whoever asks why a job waits comes, over the jobs before it, to one that waits for no other
\* (progress).
THEOREM BlockersLeadAlways == Spec => []BlockersLead
<1>1. IInv => BlockersLead
  <2> SUFFICES ASSUME IInv, NEW j \in Exists(jobs)
               PROVE  LET last == Led[MaxJobs][j]
                      IN  Lead[last] = last /\ jobs[last].repo = jobs[j].repo
    BY DEF BlockersLead
  <2> DEFINE m == Lead[j]
  <2>1. j \in JobIds /\ MaxJobs \in Nat /\ MaxJobs # 0
    BY JobTableAssumption DEF Exists, JobIds
  <2>2. /\ m \in Exists(jobs) /\ jobs[m].repo = jobs[j].repo
        /\ Lead[m] \in Exists(jobs) /\ jobs[Lead[m]].repo = jobs[j].repo
        /\ Lead[Lead[m]] = Lead[m]
    <3>1. m \in Exists(jobs) /\ jobs[m].repo = jobs[j].repo /\ Lead[Lead[m]] = Lead[m]
      BY TwoStepsLead
    <3> HIDE DEF m
    <3> QED BY <3>1, TwoStepsLead
  <2>3. CASE MaxJobs = 1
    <3>1. Led[MaxJobs][j] = m
      BY <2>1, <2>3, LedValue
    <3>2. m = j
      BY <2>1, <2>2, <2>3 DEF Exists, JobIds
    <3> QED BY <3>1, <3>2
  <2>4. CASE MaxJobs # 1
    <3>1. MaxJobs \in 0 .. MaxJobs /\ MaxJobs # 0
      BY <2>1
    <3>2. Led[MaxJobs] = [i \in JobIds |-> Lead[Lead[i]]]
      BY <2>4, <3>1, LedValue
    <3>3. Led[MaxJobs][j] = Lead[m]
      BY <2>1, <3>2
    <3> QED BY <2>2, <3>3
  <2> QED BY <2>3, <2>4
<1>2. Spec => []IInv
  BY Invariant
<1> QED BY <1>1, <1>2, PTL

\* Two pending jobs are never level in the order of the queue, which the runnable view shows.
LEMMA RunnableOrder ==
  ASSUME IInv, NEW i \in JobIds, NEW j \in JobIds
  PROVE  /\ i # j => Above("runnable", i, j) \/ Above("runnable", j, i)
         /\ Above("runnable", i, j) => Precedes(jobs, i, j)
<1>1. /\ jobs[i].due \in Nat /\ jobs[j].due \in Nat
      /\ jobs[i].origin \in {"manual", "scheduled"}
      /\ jobs[j].origin \in {"manual", "scheduled"}
  BY DEF IInv, TypeOK, Job, Origins
<1>2. i \in Nat /\ j \in Nat
  BY DEF JobIds
<1> QED BY <1>1, <1>2 DEF Above, Precedes

\* Some job of a non-empty set is above all others: of its manual jobs, or else of all of them,
\* the first of those that are due first.
LEMMA FirstRunnable ==
  ASSUME IInv, NEW S \in SUBSET JobIds, S # {}
  PROVE  \E i \in S : \A j \in S : ~Above("runnable", j, i)
<1>1. /\ S \in SUBSET Nat
      /\ \A i \in S : jobs[i].due \in Nat
  BY DEF IInv, TypeOK, Job, JobIds
<1>2. PICK M \in SUBSET S : /\ M # {}
                            /\ \A i \in M, j \in S \ M :
                                 jobs[i].origin = "manual" /\ jobs[j].origin # "manual"
                            /\ \A i \in M, j \in M :
                                 jobs[i].origin = "manual" <=> jobs[j].origin = "manual"
  <2> DEFINE manual == {i \in S : jobs[i].origin = "manual"}
  <2>1. CASE manual = {}
    BY <2>1
  <2>2. CASE manual # {}
    <3>1. /\ manual \in SUBSET S
          /\ \A i \in manual, j \in S \ manual :
               jobs[i].origin = "manual" /\ jobs[j].origin # "manual"
          /\ \A i \in manual, j \in manual :
               jobs[i].origin = "manual" <=> jobs[j].origin = "manual"
      OBVIOUS
    <3> HIDE DEF manual
    <3> QED BY <2>2, <3>1
  <2> QED BY <2>1, <2>2
<1> DEFINE dues == {jobs[i].due : i \in M}
<1>3. PICK d \in dues : \A e \in dues : d <= e
  <2>1. dues \in SUBSET Nat /\ dues # {}
    BY <1>1, <1>2
  <2> HIDE DEF dues
  <2> QED BY <2>1, LeastNatural
<1> DEFINE due == {i \in M : jobs[i].due = d}
<1>4. PICK i \in due : \A j \in due : i <= j
  <2>1. due \in SUBSET Nat /\ due # {}
    BY <1>1, <1>3
  <2> HIDE DEF due
  <2> QED BY <2>1, LeastNatural
<1>5. i \in M /\ i \in S /\ jobs[i].due = d
  BY <1>4
<1>6. \A j \in M : d <= jobs[j].due /\ (jobs[j].due = d => i <= j)
  BY <1>3, <1>4
<1>7. ASSUME NEW j \in S, Above("runnable", j, i) PROVE FALSE
  <2>1. j \in M
    BY <1>2, <1>5, <1>7 DEF Above
  <2>2. \/ jobs[j].due < jobs[i].due
        \/ jobs[j].due = jobs[i].due /\ j < i
    BY <1>2, <1>5, <1>7, <2>1 DEF Above
  <2> QED BY <1>1, <1>5, <1>6, <2>1, <2>2
<1> QED BY <1>5, <1>7

\* The head of the runnable view is the job that a worker claims next; the view is empty when
\* there is nothing to claim (claims).
THEOREM RunnableIsClaimedNextAlways == Spec => []RunnableIsClaimedNext
<1>1. IInv => RunnableIsClaimedNext
  <2> SUFFICES ASSUME IInv
               PROVE  LET rows == Rows("runnable", Null)
                      IN  /\ rows = <<>> <=> Claimable(jobs, now) = {}
                          /\ \A j \in Claimable(jobs, now) :
                               rows[1] # j => Precedes(jobs, rows[1], j)
    BY DEF RunnableIsClaimedNext
  <2> DEFINE S == Selected("runnable", Null)
  <2> DEFINE rows == Rows("runnable", Null)
  <2>1. S = Claimable(jobs, now)
    <3>1. ASSUME NEW j \in JobIds
          PROVE  j \in S <=> j \in Claimable(jobs, now)
      <4>1. BlockingJob(j) # Null <=> Blocking(jobs, j) # {}
        BY BlockingFirst
      <4>2. now \in Nat /\ (j \in Exists(jobs) => jobs[j].due \in Nat)
        BY DEF IInv, TypeOK, Job
      <4> QED BY <4>1, <4>2 DEF Selected, Shows, Exists, Claimable
    <3>2. S \subseteq JobIds /\ Claimable(jobs, now) \subseteq JobIds
      BY DEF Selected, Exists, Claimable
    <3> QED BY <3>1, <3>2
  <2>2. S \in SUBSET JobIds /\ IsFiniteSet(S)
    <3>1. S \in SUBSET JobIds /\ IsFiniteSet(JobIds)
      BY JobTableAssumption, FS_Interval DEF Selected, Exists, JobIds
    <3> HIDE DEF S
    <3> QED BY <3>1, FS_Subset
  <2>3. rows = [n \in 1 .. Cardinality(S) |->
                  CHOOSE i \in S : Cardinality({k \in S : Above("runnable", k, i)}) = n - 1]
    BY DEF Rows, Ordered
  <2> HIDE DEF S, rows
  <2>4. CASE S = {}
    <3>1. rows = <<>>
      BY <2>3, <2>4, FS_EmptySet
    <3> QED BY <2>1, <2>4, <3>1 DEF rows
  <2>5. CASE S # {}
    <3> DEFINE above(i) == {k \in S : Above("runnable", k, i)}
    <3>1. Cardinality(S) \in Nat /\ Cardinality(S) # 0
      BY <2>2, <2>5, FS_CardinalityType, FS_EmptySet
    <3>2. \A i \in S : Cardinality(above(i)) = 0 <=> above(i) = {}
      <4>1. \A i \in S : above(i) \in SUBSET S
        OBVIOUS
      <4> HIDE DEF above
      <4> QED BY <2>2, <4>1, FS_Subset, FS_EmptySet
    <3>3. rows # <<>> /\ rows[1] = CHOOSE i \in S : Cardinality(above(i)) = 1 - 1
      <4>1. 1 \in DOMAIN rows
        BY <2>3, <3>1
      <4>2. 1 \notin DOMAIN <<>>
        OBVIOUS
      <4>3. rows[1] = CHOOSE i \in S : Cardinality(above(i)) = 1 - 1
        BY <2>3, <4>1
      <4> QED BY <4>1, <4>2, <4>3
    <3>4. PICK i \in S : Cardinality(above(i)) = 0
      BY <2>2, <2>5, <3>2, FirstRunnable
    <3>5. rows[1] \in S /\ Cardinality(above(rows[1])) = 0
      <4> HIDE DEF above
      <4>1. \E j \in S : Cardinality(above(j)) = 1 - 1
        BY <3>4
      <4>2. rows[1] \in S /\ Cardinality(above(rows[1])) = 1 - 1
        BY <3>3, <4>1
      <4> QED BY <4>2
    <3>6. \A j \in S : ~Above("runnable", j, rows[1])
      BY <3>2, <3>5
    <3>7. \A j \in S : rows[1] # j => Precedes(jobs, rows[1], j)
      BY <2>2, <3>5, <3>6, RunnableOrder
    <3> QED BY <2>1, <2>5, <3>3, <3>7 DEF rows
  <2> QED BY <2>4, <2>5
<1>2. Spec => []IInv
  BY Invariant
<1> QED BY <1>1, <1>2, PTL
=============================================================================
