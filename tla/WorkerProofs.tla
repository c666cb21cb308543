---------------------------- MODULE WorkerProofs ----------------------------
(***************************************************************************)
(* What the worker's runs check, for every number of workers and jobs, any *)
(* number of failed transactions and of killed workers: no two Git         *)
(* processes in one repository, nothing left behind an execution, no work  *)
(* after a stop, claims given back and a truthful row.                     *)
(*                                                                         *)
(* A worker's lock and its Git process are tied to pc, and job does not    *)
(* change while either holds the repository; so no second worker can be in *)
(* the part of the code that takes them.                                   *)
(***************************************************************************)
EXTENDS Worker, TLAPS

\* A repository is locked by a main thread, or by the Git process it started.
Holding(w) == lock[w] \/ git[w] = "running"

Exclusive ==
  \A v, w \in Workers : v # w /\ Holding(v) /\ Holding(w) => job[v] # job[w]

Executing == {"execute", "lock"} \cup Inside \cup {"join", "settle"}
Claimed   == {"mark"} \cup Executing

\* Where the main thread may be, given what it has and what its threads do.
Local(w) ==
  /\ lock[w] <=> pc[w] \in Inside
  /\ git[w] # "none" => \/ pc[w] \in {"poll", "kill", "reap"}
                        \/ (pc[w] = "crashed" /\ git[w] = "running")
  /\ pc[w] \in Claimed => job[w] \in Jobs
  /\ lease[w] # "off" => pc[w] \in {"lock", "join"} \cup Inside
  /\ pc[w] \in {"sign off"} \cup Gone => beat[w] \in {"failed", "ended"}

\* A stop is remembered by where it arrived, and bars the way from there.
Stopped(w) ==
  /\ stop[w] = "no job" => pc[w] \notin {"lock", "crashed"} \cup Inside
  /\ stop[w] = "job" => pc[w] \notin {"spawn", "poll", "kill", "reap", "crashed"}

\* The row between the first statement and the last.
Row(w) ==
  /\ row[w].state = "stopped" => pc[w] = "exited" /\ row[w].current = Null
  /\ pc[w] \notin Gone => row[w].state # "pruned"
  /\ pc[w] \in Executing => row[w].current = job[w]
  /\ git[w] # "none" => row[w].current = job[w]

Owns(w, j) == table[j].owner = w /\ ~table[j].expired

\* Without a fault, a claim that still counts is one its worker will settle.
Claims(w) ==
  faults = Faults =>
    /\ \A j \in Jobs : Owns(w, j) =>
         pc[w] = "crashed" \/ (pc[w] \in Claimed /\ job[w] = j)
    /\ lease[w] = "lost" => ~Owns(w, job[w])
    /\ cause[w] = "lost" /\ pc[w] \in Claimed => ~Owns(w, job[w])

Owned == \A j \in Jobs : table[j].owner # Null <=> table[j].state = "running"

\* The inductive invariant.
IInv ==
  /\ TypeOK /\ Exclusive /\ Owned
  /\ \A w \in Workers : Local(w) /\ Stopped(w) /\ Row(w) /\ Claims(w)

LEMMA InitHolds == Init => IInv
  <1> SUFFICES ASSUME Init PROVE IInv
    OBVIOUS
  <1>1. TypeOK
    <2>1. Faults \in 0..Faults /\ Crashes \in 0..Crashes
      <3>1. Faults \in Nat /\ Crashes \in Nat
        BY WorkerAssumption
      <3> QED BY <3>1
    <2> QED BY <2>1 DEF Init, TypeOK, Before, Causes, Released
  <1>2. Exclusive /\ Owned
    BY DEF Init, Exclusive, Holding, Owned, Released
  <1>3. ASSUME NEW w \in Workers PROVE Local(w) /\ Stopped(w) /\ Row(w) /\ Claims(w)
    BY <1>3, WorkerAssumption
    DEF Init, Local, Stopped, Row, Claims, Claimed, Executing, Inside, Gone, Released, Owns
  <1> QED BY <1>1, <1>2, <1>3 DEF IInv

----------------------------------------------------------------------------
(* Facts several actions use *)

\* Exclusion survives a step that takes no repository.
LEMMA ExclusiveKept ==
  ASSUME Exclusive,
         \A w \in Workers : Holding(w)' => Holding(w) /\ job'[w] = job[w]
  PROVE  Exclusive'
  BY DEF Exclusive

\* What bounds the steps that fail.
LEMMA Budgets ==
  ASSUME IInv
  PROVE  /\ Faults \in Nat /\ faults \in 0..Faults /\ faults \in Nat
         /\ Crashes \in Nat /\ crashes \in 0..Crashes
         /\ faults > 0 => faults - 1 \in 0..Faults /\ faults - 1 # Faults
         /\ crashes > 0 => crashes - 1 \in 0..Crashes
  <1>1. /\ Faults \in Nat /\ faults \in 0..Faults
        /\ Crashes \in Nat /\ crashes \in 0..Crashes
    BY WorkerAssumption DEF IInv, TypeOK
  <1> QED BY <1>1

\* A step of w that leaves the others, and the claims they own, alone.
Same(v) ==
  /\ pc'[v] = pc[v] /\ job'[v] = job[v] /\ cause'[v] = cause[v] /\ stop'[v] = stop[v]
  /\ beat'[v] = beat[v] /\ lease'[v] = lease[v] /\ git'[v] = git[v] /\ lock'[v] = lock[v]
  /\ row'[v] = row[v]

Kept(v) == \A j \in Jobs : Owns(v, j)' => Owns(v, j)

Only(w) == \A v \in Workers : v # w => Same(v)

LEMMA SameKeeps ==
  ASSUME IInv, NEW v \in Workers, Same(v), Kept(v), faults' = Faults => faults = Faults
  PROVE  Local(v)' /\ Stopped(v)' /\ Row(v)' /\ Claims(v)'
  <1>1. Local(v) /\ Stopped(v) /\ Row(v) /\ Claims(v)
    BY DEF IInv
  <1>2. Local(v)'
    BY <1>1 DEF Same, Local
  <1>3. Stopped(v)' /\ Row(v)'
    BY <1>1 DEF Same, Stopped, Row
  <1>4. lease[v] = "lost" => job[v] \in Jobs
    BY <1>1 DEF Local, Claimed, Executing
  <1>5. pc[v] \in Claimed => job[v] \in Jobs
    BY <1>1 DEF Local
  <1>6. Claims(v)'
    BY <1>1, <1>4, <1>5 DEF Same, Kept, Claims
  <1> QED BY <1>2, <1>3, <1>6

\* A claim that counts is settled later, or was lost already.
LEMMA ClaimsStep ==
  ASSUME IInv, NEW w \in Workers, Kept(w), faults' = Faults => faults = Faults,
         job'[w] = job[w],
         pc[w] = "crashed" => pc'[w] = "crashed",
         pc[w] \in Claimed /\ faults' = Faults => pc'[w] \in Claimed \cup {"crashed"},
         lease'[w] = "lost" \/ pc'[w] \in Claimed => job[w] \in Jobs,
         lease'[w] = "lost" => lease[w] = "lost" \/ (faults' = Faults => ~Owns(w, job[w])),
         cause'[w] = "lost" /\ pc'[w] \in Claimed =>
           \/ (cause[w] = "lost" /\ pc[w] \in Claimed) \/ lease[w] = "lost"
           \/ (faults' = Faults => ~Owns(w, job[w]))
  PROVE  Claims(w)'
  <1>1. Claims(w)
    BY DEF IInv
  <1> QED BY <1>1 DEF Claims, Kept

LEMMA StepKeeps ==
  ASSUME IInv, NEW w \in Workers, TypeOK', Exclusive', Owned', Only(w),
         \A v \in Workers : v # w => Kept(v),
         faults' = Faults => faults = Faults,
         Local(w)', Stopped(w)', Row(w)', Claims(w)'
  PROVE  IInv'
  BY SameKeeps DEF IInv, Only

\* Queue.validate asks what Owns says.
LEMMA ValidOwns ==
  ASSUME IInv, NEW w \in Workers, job[w] \in Jobs
  PROVE  Valid(w) <=> Owns(w, job[w])
  <1>1. w # Null
    BY WorkerAssumption
  <1>2. table[job[w]].owner = w => table[job[w]].state = "running"
    BY <1>1 DEF IInv, Owned
  <1> QED BY <1>2 DEF Valid, Owns

\* The outcomes of a guard: on to next, or the handler for a cause.
LEMMA GuardOutcomes ==
  ASSUME IInv, NEW w \in Workers, job[w] \in Jobs, NEW next, NEW handler,
         Guarded(w, next, handler)
  PROVE  \E to \in {next, handler} :
           /\ pc' = [pc EXCEPT ![w] = to]
           /\ stop[w] # Null => to = handler
           /\ cause' \in [Workers -> Causes]
           /\ \A v \in Workers : v # w => cause'[v] = cause[v]
           /\ faults' \in 0..Faults /\ faults' <= faults
           /\ cause'[w] = "lost" /\ cause[w] # "lost" =>
                lease[w] = "lost" \/ ~Owns(w, job[w])
  <1>1. PICK verdict \in Guard(w) :
          /\ IF verdict = "ok" THEN Go(w, next) /\ UNCHANGED cause ELSE Raise(w, verdict, handler)
          /\ faults' = IF verdict = "unexpected" THEN faults - 1 ELSE faults
    BY DEF Guarded
  <1>2. /\ verdict \in {"ok", "interrupted", "lost", "failed", "unexpected"}
        /\ verdict = "unexpected" => faults > 0
        /\ verdict = "lost" => lease[w] = "lost" \/ ~Valid(w)
        /\ stop[w] # Null => verdict # "ok"
    BY DEF Guard, Stopping
  <1>3. faults' \in 0..Faults /\ faults' <= faults
    BY <1>1, <1>2, Budgets
  <1>4. cause \in [Workers -> Causes]
    BY DEF IInv, TypeOK
  <1>5. CASE verdict = "ok"
    BY <1>1, <1>2, <1>3, <1>4, <1>5 DEF Go
  <1>6. CASE verdict # "ok"
    <2>1. pc' = [pc EXCEPT ![w] = handler] /\ cause' = [cause EXCEPT ![w] = verdict]
      BY <1>1, <1>6 DEF Go, Raise
    <2>2. cause' \in [Workers -> Causes] /\ cause'[w] = verdict
      BY <2>1, <1>2, <1>4 DEF Causes
    <2> QED BY <1>2, <1>3, <1>4, <2>1, <2>2, ValidOwns
  <1> QED BY <1>5, <1>6

\* A statement on the row of a worker that runs reaches it.
LEMMA RecordedRow ==
  ASSUME IInv, NEW w \in Workers, pc[w] \notin Gone,
         NEW state \in {"present", "stopped"}, NEW j \in Jobs \cup {Null},
         Recorded(w, state, j)
  PROVE  /\ row' \in [Workers -> [state: {"absent", "present", "stopped", "pruned"},
                                   current: Jobs \cup {Null}]]
         /\ row'[w].state = state /\ row'[w].current = j
         /\ \A v \in Workers : v # w => row'[v] = row[v]
  <1>1. row[w].state # "pruned"
    BY DEF IInv, Row
  <1>2. row' = [row EXCEPT ![w] = [state |-> state, current |-> j]]
    BY <1>1 DEF Recorded
  <1>3. row \in [Workers -> [state: {"absent", "present", "stopped", "pruned"},
                              current: Jobs \cup {Null}]]
    BY DEF IInv, TypeOK
  <1> QED BY <1>2, <1>3

----------------------------------------------------------------------------
(* The steps *)

LEMMA StartKeeps ==
  ASSUME IInv, NEW w \in Workers, Start(w)
  PROVE  IInv'
  <1> USE DEF Start, Go
  <1>h. Local(w) /\ Stopped(w) /\ Row(w) /\ Claims(w)
    BY DEF IInv
  <1>1. TypeOK'
    BY DEF IInv, TypeOK, Before, Inside, After, Gone, Causes
  <1>2. Exclusive'
    BY <1>h, ExclusiveKept DEF IInv, TypeOK, Holding, Local, Inside
  <1>3. Owned'
    BY DEF IInv, Owned
  <1>4. Only(w) /\ (faults' = Faults => faults = Faults)
    BY DEF IInv, TypeOK, Only, Same
  <1>5. \A v \in Workers : v # w => Kept(v)
    BY DEF Kept, Owns
  <1>6. Local(w)'
    BY <1>h DEF IInv, TypeOK, Local, Claimed, Executing, Inside, Gone
  <1>7. Stopped(w)'
    BY <1>h DEF IInv, TypeOK, Stopped, Local, Inside, Before, Gone
  <1>8. Row(w)'
    BY <1>h DEF IInv, TypeOK, Row, Local, Claimed, Executing, Inside, Gone
  <1>9. Claims(w)'
    <2>1. Kept(w)
      BY DEF Kept, Owns
    <2>2. /\ job'[w] = job[w] /\ (pc[w] = "crashed" => pc'[w] = "crashed")
          /\ pc[w] \in Claimed /\ faults' = Faults => pc'[w] \in Claimed \cup {"crashed"}
          /\ lease'[w] = "lost" \/ pc'[w] \in Claimed => job[w] \in Jobs
      BY <1>h DEF IInv, TypeOK, Local, Claimed, Executing, Inside
    <2>3. lease'[w] = "lost" => lease[w] = "lost"
      BY <1>h DEF IInv, TypeOK
    <2>4. cause'[w] = "lost" /\ pc'[w] \in Claimed =>
            \/ (cause[w] = "lost" /\ pc[w] \in Claimed) \/ lease[w] = "lost"
            \/ ~Owns(w, job[w])
      BY <1>h DEF IInv, TypeOK, Claimed, Executing, Inside
    <2> QED BY <1>4, <2>1, <2>2, <2>3, <2>4, ClaimsStep
  <1> QED BY <1>1, <1>2, <1>3, <1>4, <1>5, <1>6, <1>7, <1>8, <1>9, StepKeeps

LEMMA LeaveKeeps ==
  ASSUME IInv, NEW w \in Workers, Leave(w)
  PROVE  IInv'
  <1> USE DEF Leave, Go, Stopping
  <1>h. Local(w) /\ Stopped(w) /\ Row(w) /\ Claims(w)
    BY DEF IInv
  <1>1. TypeOK'
    BY DEF IInv, TypeOK, Before, Inside, After, Gone, Causes
  <1>2. Exclusive'
    BY <1>h, ExclusiveKept DEF IInv, TypeOK, Holding, Local, Inside
  <1>3. Owned'
    BY DEF IInv, Owned
  <1>4. Only(w) /\ (faults' = Faults => faults = Faults)
    BY DEF IInv, TypeOK, Only, Same
  <1>5. \A v \in Workers : v # w => Kept(v)
    BY DEF Kept, Owns
  <1>6. Local(w)'
    BY <1>h DEF IInv, TypeOK, Local, Claimed, Executing, Inside, Gone
  <1>7. Stopped(w)'
    BY <1>h DEF IInv, TypeOK, Stopped, Local, Inside, Before, Gone
  <1>8. Row(w)'
    BY <1>h DEF IInv, TypeOK, Row, Local, Claimed, Executing, Inside, Gone
  <1>9. Claims(w)'
    <2>1. Kept(w)
      BY DEF Kept, Owns
    <2>2. /\ job'[w] = job[w] /\ (pc[w] = "crashed" => pc'[w] = "crashed")
          /\ pc[w] \in Claimed /\ faults' = Faults => pc'[w] \in Claimed \cup {"crashed"}
          /\ lease'[w] = "lost" \/ pc'[w] \in Claimed => job[w] \in Jobs
      BY <1>h DEF IInv, TypeOK, Local, Claimed, Executing, Inside
    <2>3. lease'[w] = "lost" => lease[w] = "lost"
      BY <1>h DEF IInv, TypeOK
    <2>4. cause'[w] = "lost" /\ pc'[w] \in Claimed =>
            \/ (cause[w] = "lost" /\ pc[w] \in Claimed) \/ lease[w] = "lost"
            \/ ~Owns(w, job[w])
      BY <1>h DEF IInv, TypeOK, Claimed, Executing, Inside
    <2> QED BY <1>4, <2>1, <2>2, <2>3, <2>4, ClaimsStep
  <1> QED BY <1>1, <1>2, <1>3, <1>4, <1>5, <1>6, <1>7, <1>8, <1>9, StepKeeps

LEMMA LookAgainKeeps ==
  ASSUME IInv, NEW w \in Workers, LookAgain(w)
  PROVE  IInv'
  <1> USE DEF LookAgain, Go, Stopping
  <1>h. Local(w) /\ Stopped(w) /\ Row(w) /\ Claims(w)
    BY DEF IInv
  <1>1. TypeOK'
    BY DEF IInv, TypeOK, Before, Inside, After, Gone, Causes
  <1>2. Exclusive'
    BY <1>h, ExclusiveKept DEF IInv, TypeOK, Holding, Local, Inside
  <1>3. Owned'
    BY DEF IInv, Owned
  <1>4. Only(w) /\ (faults' = Faults => faults = Faults)
    BY DEF IInv, TypeOK, Only, Same
  <1>5. \A v \in Workers : v # w => Kept(v)
    BY DEF Kept, Owns
  <1>6. Local(w)'
    BY <1>h DEF IInv, TypeOK, Local, Claimed, Executing, Inside, Gone
  <1>7. Stopped(w)'
    BY <1>h DEF IInv, TypeOK, Stopped, Local, Inside, Before, Gone
  <1>8. Row(w)'
    BY <1>h DEF IInv, TypeOK, Row, Local, Claimed, Executing, Inside, Gone
  <1>9. Claims(w)'
    <2>1. Kept(w)
      BY DEF Kept, Owns
    <2>2. /\ job'[w] = job[w] /\ (pc[w] = "crashed" => pc'[w] = "crashed")
          /\ pc[w] \in Claimed /\ faults' = Faults => pc'[w] \in Claimed \cup {"crashed"}
          /\ lease'[w] = "lost" \/ pc'[w] \in Claimed => job[w] \in Jobs
      BY <1>h DEF IInv, TypeOK, Local, Claimed, Executing, Inside
    <2>3. lease'[w] = "lost" => lease[w] = "lost"
      BY <1>h DEF IInv, TypeOK
    <2>4. cause'[w] = "lost" /\ pc'[w] \in Claimed =>
            \/ (cause[w] = "lost" /\ pc[w] \in Claimed) \/ lease[w] = "lost"
            \/ ~Owns(w, job[w])
      BY <1>h DEF IInv, TypeOK, Claimed, Executing, Inside
    <2> QED BY <1>4, <2>1, <2>2, <2>3, <2>4, ClaimsStep
  <1> QED BY <1>1, <1>2, <1>3, <1>4, <1>5, <1>6, <1>7, <1>8, <1>9, StepKeeps

LEMMA ClaimKeeps ==
  ASSUME IInv, NEW w \in Workers, Claim(w)
  PROVE  IInv'
  <1> USE DEF Claim, Go
  <1>h. Local(w) /\ Stopped(w) /\ Row(w) /\ Claims(w)
    BY DEF IInv
  <1>0. PICK j \in Jobs :
          /\ table' = [Recovered EXCEPT ![j] = [state |-> "running", owner |-> w,
                                                expired |-> FALSE]]
          /\ job' = [job EXCEPT ![w] = j]
    BY DEF Claim
  <1>a. /\ table'[j].owner = w /\ table'[j].state = "running"
        /\ \A i \in Jobs : i # j => table'[i] = Recovered[i]
    BY <1>0 DEF Recovered
  <1>c. \A i \in Jobs : \/ (Recovered[i].owner = Null /\ Recovered[i].state = "pending")
                          \/ Recovered[i] = table[i]
    BY DEF Recovered, Released
  <1>b. table' \in [Jobs -> [state: {"pending", "running", "done"},
                              owner: Workers \cup {Null}, expired: BOOLEAN]]
    BY <1>0, <1>a DEF IInv, TypeOK, Recovered, Released
  <1>1. TypeOK'
    BY <1>0, <1>b DEF IInv, TypeOK, Before, Causes
  <1>2. Exclusive'
    BY <1>0, <1>h, ExclusiveKept DEF IInv, TypeOK, Holding, Local, Inside
  <1>3. Owned'
    <2> HIDE DEF Claim, Go
    <2>1. w # Null
      BY WorkerAssumption
    <2>2. \A i \in Jobs : Recovered[i].owner # Null <=> Recovered[i].state = "running"
      BY <1>c DEF IInv, Owned
    <2> QED BY <1>a, <2>1, <2>2 DEF Owned
  <1>4. Only(w) /\ (faults' = Faults => faults = Faults)
    BY <1>0 DEF IInv, TypeOK, Only, Same
  <1>5. \A v \in Workers : v # w => Kept(v)
    <2> HIDE DEF Claim, Go
    <2> SUFFICES ASSUME NEW v \in Workers, v # w, NEW i \in Jobs, Owns(v, i)' PROVE Owns(v, i)
      BY DEF Kept
    <2> QED BY <1>a, <1>c, WorkerAssumption DEF Owns
  <1>6. Local(w)'
    BY <1>0, <1>h DEF IInv, TypeOK, Local, Claimed, Executing, Inside, Gone
  <1>7. Stopped(w)'
    BY <1>h DEF IInv, TypeOK, Stopped, Local, Inside, Before, Gone
  <1>8. Row(w)'
    BY <1>h DEF IInv, TypeOK, Row, Local, Claimed, Executing, Inside, Gone
  <1>9. Claims(w)'
    <2>1. \A i \in Jobs : Owns(w, i)' => i = j \/ Owns(w, i)
      <3> HIDE DEF Claim, Go
      <3> QED BY <1>a, <1>c, WorkerAssumption DEF Owns
    <2>2. \A i \in Jobs : faults = Faults => ~Owns(w, i)
      BY <1>h DEF Claims, Claimed, Executing, Inside
    <2>3. pc'[w] = "mark" /\ cause'[w] = "ok" /\ job'[w] = j /\ lease'[w] # "lost"
      BY <1>0, <1>h DEF IInv, TypeOK, Local, Inside
    <2> QED BY <2>1, <2>2, <2>3, <1>4 DEF Claims, Claimed
  <1> QED BY <1>1, <1>2, <1>3, <1>4, <1>5, <1>6, <1>7, <1>8, <1>9, StepKeeps

LEMMA ClaimNothingKeeps ==
  ASSUME IInv, NEW w \in Workers, ClaimNothing(w)
  PROVE  IInv'
  <1> USE DEF ClaimNothing, Go, Recovered, Released
  <1>h. Local(w) /\ Stopped(w) /\ Row(w) /\ Claims(w)
    BY DEF IInv
  <1>1. TypeOK'
    <2>1. table' \in [Jobs -> [state: {"pending", "running", "done"},
                              owner: Workers \cup {Null}, expired: BOOLEAN]]
      BY DEF IInv, TypeOK
    <2> QED BY <2>1 DEF IInv, TypeOK, Before, After
  <1>2. Exclusive'
    BY <1>h, ExclusiveKept DEF IInv, TypeOK, Holding, Local, Inside
  <1>3. Owned'
    BY DEF IInv, Owned
  <1>4. Only(w) /\ (faults' = Faults => faults = Faults)
    BY DEF IInv, TypeOK, Only, Same
  <1>5. \A v \in Workers : v # w => Kept(v)
    BY WorkerAssumption DEF Kept, Owns
  <1>6. Local(w)'
    BY <1>h DEF IInv, TypeOK, Local, Claimed, Executing, Inside, Gone
  <1>7. Stopped(w)'
    BY <1>h DEF IInv, TypeOK, Stopped, Local, Inside, Before, Gone
  <1>8. Row(w)'
    BY <1>h DEF IInv, TypeOK, Row, Local, Claimed, Executing, Inside, Gone
  <1>9. Claims(w)'
    <2>1. Kept(w)
      BY WorkerAssumption DEF Kept, Owns
    <2>2. pc'[w] \notin Claimed \cup {"crashed"} /\ lease'[w] # "lost"
      BY <1>h DEF IInv, TypeOK, Local, Claimed, Executing, Inside
    <2>3. pc[w] \notin Claimed \cup {"crashed"}
      BY DEF Claimed, Executing, Inside
    <2> QED BY <1>h, <2>1, <2>2, <2>3 DEF Kept, Claims
  <1> QED BY <1>1, <1>2, <1>3, <1>4, <1>5, <1>6, <1>7, <1>8, <1>9, StepKeeps

LEMMA MarkKeeps ==
  ASSUME IInv, NEW w \in Workers, Mark(w)
  PROVE  IInv'
  <1> USE DEF Mark, Go
  <1>h. Local(w) /\ Stopped(w) /\ Row(w) /\ Claims(w)
    BY DEF IInv
  <1>0. /\ row' \in [Workers -> [state: {"absent", "present", "stopped", "pruned"},
                                   current: Jobs \cup {Null}]]
        /\ row'[w].state = "present" /\ row'[w].current = job[w]
        /\ \A v \in Workers : v # w => row'[v] = row[v]
    BY <1>h, RecordedRow DEF IInv, TypeOK, Local, Claimed, Gone
  <1>1. TypeOK'
    BY <1>0 DEF IInv, TypeOK, Before, Inside, After, Gone, Causes
  <1>2. Exclusive'
    BY <1>0, <1>h, ExclusiveKept DEF IInv, TypeOK, Holding, Local, Inside
  <1>3. Owned'
    BY DEF IInv, Owned
  <1>4. Only(w) /\ (faults' = Faults => faults = Faults)
    BY <1>0 DEF IInv, TypeOK, Only, Same
  <1>5. \A v \in Workers : v # w => Kept(v)
    BY DEF Kept, Owns
  <1>6. Local(w)'
    BY <1>0, <1>h DEF IInv, TypeOK, Local, Claimed, Executing, Inside, Gone
  <1>7. Stopped(w)'
    BY <1>0, <1>h DEF IInv, TypeOK, Stopped, Local, Inside, Before, Gone
  <1>8. Row(w)'
    BY <1>0, <1>h DEF IInv, TypeOK, Row, Local, Claimed, Executing, Inside, Gone
  <1>9. Claims(w)'
    <2>1. Kept(w)
      BY DEF Kept, Owns
    <2>2. /\ job'[w] = job[w] /\ (pc[w] = "crashed" => pc'[w] = "crashed")
          /\ pc[w] \in Claimed /\ faults' = Faults => pc'[w] \in Claimed \cup {"crashed"}
          /\ lease'[w] = "lost" \/ pc'[w] \in Claimed => job[w] \in Jobs
      BY <1>0, <1>h DEF IInv, TypeOK, Local, Claimed, Executing, Inside
    <2>3. lease'[w] = "lost" => lease[w] = "lost"
      BY <1>0, <1>h DEF IInv, TypeOK
    <2>4. cause'[w] = "lost" /\ pc'[w] \in Claimed =>
            \/ (cause[w] = "lost" /\ pc[w] \in Claimed) \/ lease[w] = "lost"
            \/ ~Owns(w, job[w])
      BY <1>0, <1>h DEF IInv, TypeOK, Claimed, Executing, Inside
    <2> QED BY <1>4, <2>1, <2>2, <2>3, <2>4, ClaimsStep
  <1> QED BY <1>1, <1>2, <1>3, <1>4, <1>5, <1>6, <1>7, <1>8, <1>9, StepKeeps

LEMMA UnmarkKeeps ==
  ASSUME IInv, NEW w \in Workers, Unmark(w)
  PROVE  IInv'
  <1> USE DEF Unmark, Go
  <1>h. Local(w) /\ Stopped(w) /\ Row(w) /\ Claims(w)
    BY DEF IInv
  <1>0. /\ row' \in [Workers -> [state: {"absent", "present", "stopped", "pruned"},
                                   current: Jobs \cup {Null}]]
        /\ row'[w].state = "present" /\ row'[w].current = Null
        /\ \A v \in Workers : v # w => row'[v] = row[v]
    BY <1>h, RecordedRow DEF IInv, TypeOK, Local, Claimed, Gone
  <1>1. TypeOK'
    BY <1>0 DEF IInv, TypeOK, Before, Inside, After, Gone, Causes
  <1>2. Exclusive'
    BY <1>0, <1>h, ExclusiveKept DEF IInv, TypeOK, Holding, Local, Inside
  <1>3. Owned'
    BY DEF IInv, Owned
  <1>4. Only(w) /\ (faults' = Faults => faults = Faults)
    BY <1>0 DEF IInv, TypeOK, Only, Same
  <1>5. \A v \in Workers : v # w => Kept(v)
    BY DEF Kept, Owns
  <1>6. Local(w)'
    BY <1>0, <1>h DEF IInv, TypeOK, Local, Claimed, Executing, Inside, Gone
  <1>7. Stopped(w)'
    <2>1. pc'[w] \in {"close", "head"}
      BY DEF IInv, TypeOK
    <2> QED BY <1>h, <2>1 DEF Stopped, Inside
  <1>8. Row(w)'
    BY <1>0, <1>h DEF IInv, TypeOK, Row, Local, Claimed, Executing, Inside, Gone
  <1>9. Claims(w)'
    <2>1. pc'[w] \in {"close", "head"} /\ lease'[w] # "lost"
      BY <1>h DEF IInv, TypeOK, Local, Inside
    <2>2. \A j \in Jobs : Owns(w, j)' <=> Owns(w, j)
      BY DEF Owns
    <2> QED BY <1>h, <2>1, <2>2 DEF Claims, Claimed, Executing, Inside
  <1> QED BY <1>1, <1>2, <1>3, <1>4, <1>5, <1>6, <1>7, <1>8, <1>9, StepKeeps

LEMMA CloseKeeps ==
  ASSUME IInv, NEW w \in Workers, Close(w)
  PROVE  IInv'
  <1> USE DEF Close, Go
  <1>h. Local(w) /\ Stopped(w) /\ Row(w) /\ Claims(w)
    BY DEF IInv
  <1>1. TypeOK'
    BY DEF IInv, TypeOK, Before, Inside, After, Gone, Causes
  <1>2. Exclusive'
    BY <1>h, ExclusiveKept DEF IInv, TypeOK, Holding, Local, Inside
  <1>3. Owned'
    BY DEF IInv, Owned
  <1>4. Only(w) /\ (faults' = Faults => faults = Faults)
    BY DEF IInv, TypeOK, Only, Same
  <1>5. \A v \in Workers : v # w => Kept(v)
    BY DEF Kept, Owns
  <1>6. Local(w)'
    BY <1>h DEF IInv, TypeOK, Local, Claimed, Executing, Inside, Gone
  <1>7. Stopped(w)'
    BY <1>h DEF IInv, TypeOK, Stopped, Local, Inside, Before, Gone
  <1>8. Row(w)'
    BY <1>h DEF IInv, TypeOK, Row, Local, Claimed, Executing, Inside, Gone
  <1>9. Claims(w)'
    <2>1. Kept(w)
      BY DEF Kept, Owns
    <2>2. /\ job'[w] = job[w] /\ (pc[w] = "crashed" => pc'[w] = "crashed")
          /\ pc[w] \in Claimed /\ faults' = Faults => pc'[w] \in Claimed \cup {"crashed"}
          /\ lease'[w] = "lost" \/ pc'[w] \in Claimed => job[w] \in Jobs
      BY <1>h DEF IInv, TypeOK, Local, Claimed, Executing, Inside
    <2>3. lease'[w] = "lost" => lease[w] = "lost"
      BY <1>h DEF IInv, TypeOK
    <2>4. cause'[w] = "lost" /\ pc'[w] \in Claimed =>
            \/ (cause[w] = "lost" /\ pc[w] \in Claimed) \/ lease[w] = "lost"
            \/ ~Owns(w, job[w])
      BY <1>h DEF IInv, TypeOK, Claimed, Executing, Inside
    <2> QED BY <1>4, <2>1, <2>2, <2>3, <2>4, ClaimsStep
  <1> QED BY <1>1, <1>2, <1>3, <1>4, <1>5, <1>6, <1>7, <1>8, <1>9, StepKeeps

LEMMA SignOffKeeps ==
  ASSUME IInv, NEW w \in Workers, SignOff(w)
  PROVE  IInv'
  <1> USE DEF SignOff, Go
  <1>h. Local(w) /\ Stopped(w) /\ Row(w) /\ Claims(w)
    BY DEF IInv
  <1>0. /\ row' \in [Workers -> [state: {"absent", "present", "stopped", "pruned"},
                                   current: Jobs \cup {Null}]]
        /\ row'[w].state = "stopped" /\ row'[w].current = Null
        /\ \A v \in Workers : v # w => row'[v] = row[v]
    BY <1>h, RecordedRow DEF IInv, TypeOK, Local, Claimed, Gone
  <1>1. TypeOK'
    BY <1>0 DEF IInv, TypeOK, Before, Inside, After, Gone, Causes
  <1>2. Exclusive'
    BY <1>0, <1>h, ExclusiveKept DEF IInv, TypeOK, Holding, Local, Inside
  <1>3. Owned'
    BY DEF IInv, Owned
  <1>4. Only(w) /\ (faults' = Faults => faults = Faults)
    BY <1>0 DEF IInv, TypeOK, Only, Same
  <1>5. \A v \in Workers : v # w => Kept(v)
    BY DEF Kept, Owns
  <1>6. Local(w)'
    BY <1>0, <1>h DEF IInv, TypeOK, Local, Claimed, Executing, Inside, Gone
  <1>7. Stopped(w)'
    <2>1. pc'[w] = "exited"
      BY DEF IInv, TypeOK
    <2> QED BY <1>h, <2>1 DEF Stopped, Inside
  <1>8. Row(w)'
    BY <1>0, <1>h DEF IInv, TypeOK, Row, Local, Claimed, Executing, Inside, Gone
  <1>9. Claims(w)'
    <2>1. Kept(w)
      BY DEF Kept, Owns
    <2>2. /\ job'[w] = job[w] /\ (pc[w] = "crashed" => pc'[w] = "crashed")
          /\ pc[w] \in Claimed /\ faults' = Faults => pc'[w] \in Claimed \cup {"crashed"}
          /\ lease'[w] = "lost" \/ pc'[w] \in Claimed => job[w] \in Jobs
      BY <1>0, <1>h DEF IInv, TypeOK, Local, Claimed, Executing, Inside
    <2>3. lease'[w] = "lost" => lease[w] = "lost"
      BY <1>0, <1>h DEF IInv, TypeOK
    <2>4. cause'[w] = "lost" /\ pc'[w] \in Claimed =>
            \/ (cause[w] = "lost" /\ pc[w] \in Claimed) \/ lease[w] = "lost"
            \/ ~Owns(w, job[w])
      BY <1>0, <1>h DEF IInv, TypeOK, Claimed, Executing, Inside
    <2> QED BY <1>4, <2>1, <2>2, <2>3, <2>4, ClaimsStep
  <1> QED BY <1>1, <1>2, <1>3, <1>4, <1>5, <1>6, <1>7, <1>8, <1>9, StepKeeps

LEMMA ExecuteKeeps ==
  ASSUME IInv, NEW w \in Workers, Execute(w)
  PROVE  IInv'
  <1> USE DEF Execute
  <1>h. Local(w) /\ Stopped(w) /\ Row(w) /\ Claims(w)
    BY DEF IInv
  <1>a. job[w] \in Jobs /\ Guarded(w, "lock", "settle")
    BY DEF IInv, Local, Claimed, Executing, Inside
  <1>0. PICK to \in {"lock", "settle"} :
          /\ pc' = [pc EXCEPT ![w] = to]
          /\ stop[w] # Null => to = "settle"
          /\ cause' \in [Workers -> Causes]
          /\ \A v \in Workers : v # w => cause'[v] = cause[v]
          /\ faults' \in 0..Faults /\ faults' <= faults
          /\ cause'[w] = "lost" /\ cause[w] # "lost" => lease[w] = "lost" \/ ~Owns(w, job[w])
    BY <1>a, GuardOutcomes
  <1>1. TypeOK'
    BY <1>0 DEF IInv, TypeOK, Before, Inside, After, Gone, Causes
  <1>2. Exclusive'
    BY <1>0, <1>h, ExclusiveKept DEF IInv, TypeOK, Holding, Local, Inside
  <1>3. Owned'
    BY DEF IInv, Owned
  <1>4. Only(w) /\ (faults' = Faults => faults = Faults)
    <2>1. Only(w)
      BY <1>0 DEF IInv, TypeOK, Only, Same
    <2> QED BY <1>0, <2>1, Budgets
  <1>5. \A v \in Workers : v # w => Kept(v)
    BY DEF Kept, Owns
  <1>6. Local(w)'
    BY <1>0, <1>h DEF IInv, TypeOK, Local, Claimed, Executing, Inside, Gone
  <1>7. Stopped(w)'
    BY <1>0, <1>h, WorkerAssumption DEF IInv, TypeOK, Stopped, Local, Inside, Before, Gone
  <1>8. Row(w)'
    BY <1>0, <1>h DEF IInv, TypeOK, Row, Local, Claimed, Executing, Inside, Gone
  <1>9. Claims(w)'
    <2>1. Kept(w)
      BY DEF Kept, Owns
    <2>2. /\ job'[w] = job[w] /\ (pc[w] = "crashed" => pc'[w] = "crashed")
          /\ pc[w] \in Claimed /\ faults' = Faults => pc'[w] \in Claimed \cup {"crashed"}
          /\ lease'[w] = "lost" \/ pc'[w] \in Claimed => job[w] \in Jobs
      BY <1>0, <1>h DEF IInv, TypeOK, Local, Claimed, Executing, Inside
    <2>3. lease'[w] = "lost" => lease[w] = "lost"
      BY <1>0, <1>h DEF IInv, TypeOK
    <2>4. cause'[w] = "lost" /\ pc'[w] \in Claimed =>
            \/ (cause[w] = "lost" /\ pc[w] \in Claimed) \/ lease[w] = "lost"
            \/ ~Owns(w, job[w])
      BY <1>0, <1>h DEF IInv, TypeOK, Claimed, Executing, Inside
    <2> QED BY <1>4, <2>1, <2>2, <2>3, <2>4, ClaimsStep
  <1> QED BY <1>1, <1>2, <1>3, <1>4, <1>5, <1>6, <1>7, <1>8, <1>9, StepKeeps

LEMMA LockKeeps ==
  ASSUME IInv, NEW w \in Workers, Lock(w)
  PROVE  IInv'
  <1> USE DEF Lock, Go, Raise
  <1>h. Local(w) /\ Stopped(w) /\ Row(w) /\ Claims(w)
    BY DEF IInv
  <1>0. /\ \/ /\ Holders(job[w]) = {} /\ pc' = [pc EXCEPT ![w] = "command"]
              /\ lock' = [lock EXCEPT ![w] = TRUE] /\ cause' = cause
           \/ /\ pc' = [pc EXCEPT ![w] = "join"] /\ lock' = lock
              /\ cause' = [cause EXCEPT ![w] = "failed"]
        /\ stop' = stop /\ job' = job /\ beat' = beat /\ lease' = lease /\ git' = git
    OBVIOUS
  <1>1. TypeOK'
    BY DEF IInv, TypeOK, Before, Inside, After, Gone, Causes
  <1>2. Exclusive'
    <2>1. CASE lock' = lock
      BY <1>0, <2>1, ExclusiveKept DEF IInv, Holding
    <2>2. CASE Holders(job[w]) = {} /\ lock' = [lock EXCEPT ![w] = TRUE]
      <3>1. \A v \in Workers : Holding(v) => job[v] # job[w]
        BY <2>2 DEF Holders, Holding
      <3>2. \A v \in Workers : v # w /\ Holding(v)' => Holding(v)
        BY <1>0, <2>2 DEF IInv, TypeOK, Holding
      <3> QED BY <1>0, <3>1, <3>2 DEF IInv, Exclusive
    <2> QED BY <1>0, <2>1, <2>2
  <1>3. Owned'
    BY DEF IInv, Owned
  <1>4. Only(w) /\ (faults' = Faults => faults = Faults)
    BY DEF IInv, TypeOK, Only, Same
  <1>5. \A v \in Workers : v # w => Kept(v)
    BY DEF Kept, Owns
  <1>6. Local(w)'
    <2>1. pc'[w] \in {"command", "join"} /\ (lock'[w] <=> pc'[w] = "command")
      BY <1>0, <1>h DEF IInv, TypeOK, Local, Inside
    <2> QED BY <1>0, <1>h, <2>1 DEF Local, Claimed, Executing, Inside, Gone
  <1>7. Stopped(w)'
    <2>1. pc'[w] \in {"command", "join"}
      BY <1>0 DEF IInv, TypeOK
    <2> QED BY <1>0, <1>h, <2>1 DEF Stopped, Inside
  <1>8. Row(w)'
    BY <1>h DEF IInv, TypeOK, Row, Local, Claimed, Executing, Inside, Gone
  <1>9. Claims(w)'
    <2>1. Kept(w)
      BY DEF Kept, Owns
    <2>2. /\ job'[w] = job[w] /\ (pc[w] = "crashed" => pc'[w] = "crashed")
          /\ pc[w] \in Claimed /\ faults' = Faults => pc'[w] \in Claimed \cup {"crashed"}
          /\ lease'[w] = "lost" \/ pc'[w] \in Claimed => job[w] \in Jobs
      BY <1>h DEF IInv, TypeOK, Local, Claimed, Executing, Inside
    <2>3. lease'[w] = "lost" => lease[w] = "lost"
      BY <1>h DEF IInv, TypeOK
    <2>4. cause'[w] = "lost" /\ pc'[w] \in Claimed =>
            \/ (cause[w] = "lost" /\ pc[w] \in Claimed) \/ lease[w] = "lost"
            \/ ~Owns(w, job[w])
      BY <1>h DEF IInv, TypeOK, Claimed, Executing, Inside
    <2> QED BY <1>4, <2>1, <2>2, <2>3, <2>4, ClaimsStep
  <1> QED BY <1>1, <1>2, <1>3, <1>4, <1>5, <1>6, <1>7, <1>8, <1>9, StepKeeps

LEMMA CommandKeeps ==
  ASSUME IInv, NEW w \in Workers, Command(w)
  PROVE  IInv'
  <1> USE DEF Command
  <1>h. Local(w) /\ Stopped(w) /\ Row(w) /\ Claims(w)
    BY DEF IInv
  <1>a. job[w] \in Jobs /\ Guarded(w, "spawn", "unlock")
    BY DEF IInv, Local, Claimed, Executing, Inside
  <1>0. PICK to \in {"spawn", "unlock"} :
          /\ pc' = [pc EXCEPT ![w] = to]
          /\ stop[w] # Null => to = "unlock"
          /\ cause' \in [Workers -> Causes]
          /\ \A v \in Workers : v # w => cause'[v] = cause[v]
          /\ faults' \in 0..Faults /\ faults' <= faults
          /\ cause'[w] = "lost" /\ cause[w] # "lost" => lease[w] = "lost" \/ ~Owns(w, job[w])
    BY <1>a, GuardOutcomes
  <1>1. TypeOK'
    BY <1>0 DEF IInv, TypeOK, Before, Inside, After, Gone, Causes
  <1>2. Exclusive'
    BY <1>0, <1>h, ExclusiveKept DEF IInv, TypeOK, Holding, Local, Inside
  <1>3. Owned'
    BY DEF IInv, Owned
  <1>4. Only(w) /\ (faults' = Faults => faults = Faults)
    <2>1. Only(w)
      BY <1>0 DEF IInv, TypeOK, Only, Same
    <2> QED BY <1>0, <2>1, Budgets
  <1>5. \A v \in Workers : v # w => Kept(v)
    BY DEF Kept, Owns
  <1>6. Local(w)'
    BY <1>0, <1>h DEF IInv, TypeOK, Local, Claimed, Executing, Inside, Gone
  <1>7. Stopped(w)'
    BY <1>0, <1>h, WorkerAssumption DEF IInv, TypeOK, Stopped, Local, Inside, Before, Gone
  <1>8. Row(w)'
    BY <1>0, <1>h DEF IInv, TypeOK, Row, Local, Claimed, Executing, Inside, Gone
  <1>9. Claims(w)'
    <2>1. Kept(w)
      BY DEF Kept, Owns
    <2>2. /\ job'[w] = job[w] /\ (pc[w] = "crashed" => pc'[w] = "crashed")
          /\ pc[w] \in Claimed /\ faults' = Faults => pc'[w] \in Claimed \cup {"crashed"}
          /\ lease'[w] = "lost" \/ pc'[w] \in Claimed => job[w] \in Jobs
      BY <1>0, <1>h DEF IInv, TypeOK, Local, Claimed, Executing, Inside
    <2>3. lease'[w] = "lost" => lease[w] = "lost"
      BY <1>0, <1>h DEF IInv, TypeOK
    <2>4. cause'[w] = "lost" /\ pc'[w] \in Claimed =>
            \/ (cause[w] = "lost" /\ pc[w] \in Claimed) \/ lease[w] = "lost"
            \/ ~Owns(w, job[w])
      BY <1>0, <1>h DEF IInv, TypeOK, Claimed, Executing, Inside
    <2> QED BY <1>4, <2>1, <2>2, <2>3, <2>4, ClaimsStep
  <1> QED BY <1>1, <1>2, <1>3, <1>4, <1>5, <1>6, <1>7, <1>8, <1>9, StepKeeps

LEMMA SpawnKeeps ==
  ASSUME IInv, NEW w \in Workers, Spawn(w)
  PROVE  IInv'
  <1> USE DEF Spawn, Go
  <1>h. Local(w) /\ Stopped(w) /\ Row(w) /\ Claims(w)
    BY DEF IInv
  <1>1. TypeOK'
    BY DEF IInv, TypeOK, Before, Inside, After, Gone, Causes
  <1>2. Exclusive'
    BY <1>h, ExclusiveKept DEF IInv, TypeOK, Holding, Local, Inside
  <1>3. Owned'
    BY DEF IInv, Owned
  <1>4. Only(w) /\ (faults' = Faults => faults = Faults)
    BY DEF IInv, TypeOK, Only, Same
  <1>5. \A v \in Workers : v # w => Kept(v)
    BY DEF Kept, Owns
  <1>6. Local(w)'
    BY <1>h DEF IInv, TypeOK, Local, Claimed, Executing, Inside, Gone
  <1>7. Stopped(w)'
    BY <1>h DEF IInv, TypeOK, Stopped, Local, Inside, Before, Gone
  <1>8. Row(w)'
    BY <1>h DEF IInv, TypeOK, Row, Local, Claimed, Executing, Inside, Gone
  <1>9. Claims(w)'
    <2>1. Kept(w)
      BY DEF Kept, Owns
    <2>2. /\ job'[w] = job[w] /\ (pc[w] = "crashed" => pc'[w] = "crashed")
          /\ pc[w] \in Claimed /\ faults' = Faults => pc'[w] \in Claimed \cup {"crashed"}
          /\ lease'[w] = "lost" \/ pc'[w] \in Claimed => job[w] \in Jobs
      BY <1>h DEF IInv, TypeOK, Local, Claimed, Executing, Inside
    <2>3. lease'[w] = "lost" => lease[w] = "lost"
      BY <1>h DEF IInv, TypeOK
    <2>4. cause'[w] = "lost" /\ pc'[w] \in Claimed =>
            \/ (cause[w] = "lost" /\ pc[w] \in Claimed) \/ lease[w] = "lost"
            \/ ~Owns(w, job[w])
      BY <1>h DEF IInv, TypeOK, Claimed, Executing, Inside
    <2> QED BY <1>4, <2>1, <2>2, <2>3, <2>4, ClaimsStep
  <1> QED BY <1>1, <1>2, <1>3, <1>4, <1>5, <1>6, <1>7, <1>8, <1>9, StepKeeps

LEMMA PollKeeps ==
  ASSUME IInv, NEW w \in Workers, Poll(w)
  PROVE  IInv'
  <1> USE DEF Poll
  <1>h. Local(w) /\ Stopped(w) /\ Row(w) /\ Claims(w)
    BY DEF IInv
  <1>a. job[w] \in Jobs /\ Guarded(w, "poll", "kill")
    BY DEF IInv, Local, Claimed, Executing, Inside
  <1>0. PICK to \in {"poll", "kill"} :
          /\ pc' = [pc EXCEPT ![w] = to]
          /\ stop[w] # Null => to = "kill"
          /\ cause' \in [Workers -> Causes]
          /\ \A v \in Workers : v # w => cause'[v] = cause[v]
          /\ faults' \in 0..Faults /\ faults' <= faults
          /\ cause'[w] = "lost" /\ cause[w] # "lost" => lease[w] = "lost" \/ ~Owns(w, job[w])
    BY <1>a, GuardOutcomes
  <1>1. TypeOK'
    BY <1>0 DEF IInv, TypeOK, Before, Inside, After, Gone, Causes
  <1>2. Exclusive'
    BY <1>0, <1>h, ExclusiveKept DEF IInv, TypeOK, Holding, Local, Inside
  <1>3. Owned'
    BY DEF IInv, Owned
  <1>4. Only(w) /\ (faults' = Faults => faults = Faults)
    <2>1. Only(w)
      BY <1>0 DEF IInv, TypeOK, Only, Same
    <2> QED BY <1>0, <2>1, Budgets
  <1>5. \A v \in Workers : v # w => Kept(v)
    BY DEF Kept, Owns
  <1>6. Local(w)'
    BY <1>0, <1>h DEF IInv, TypeOK, Local, Claimed, Executing, Inside, Gone
  <1>7. Stopped(w)'
    BY <1>0, <1>h DEF IInv, TypeOK, Stopped, Local, Inside, Before, Gone
  <1>8. Row(w)'
    BY <1>0, <1>h DEF IInv, TypeOK, Row, Local, Claimed, Executing, Inside, Gone
  <1>9. Claims(w)'
    <2>1. Kept(w)
      BY DEF Kept, Owns
    <2>2. /\ job'[w] = job[w] /\ (pc[w] = "crashed" => pc'[w] = "crashed")
          /\ pc[w] \in Claimed /\ faults' = Faults => pc'[w] \in Claimed \cup {"crashed"}
          /\ lease'[w] = "lost" \/ pc'[w] \in Claimed => job[w] \in Jobs
      BY <1>0, <1>h DEF IInv, TypeOK, Local, Claimed, Executing, Inside
    <2>3. lease'[w] = "lost" => lease[w] = "lost"
      BY <1>0, <1>h DEF IInv, TypeOK
    <2>4. cause'[w] = "lost" /\ pc'[w] \in Claimed =>
            \/ (cause[w] = "lost" /\ pc[w] \in Claimed) \/ lease[w] = "lost"
            \/ ~Owns(w, job[w])
      BY <1>0, <1>h DEF IInv, TypeOK, Claimed, Executing, Inside
    <2> QED BY <1>4, <2>1, <2>2, <2>3, <2>4, ClaimsStep
  <1> QED BY <1>1, <1>2, <1>3, <1>4, <1>5, <1>6, <1>7, <1>8, <1>9, StepKeeps

LEMMA CollectKeeps ==
  ASSUME IInv, NEW w \in Workers, Collect(w)
  PROVE  IInv'
  <1> USE DEF Collect
  <1>h. Local(w) /\ Stopped(w) /\ Row(w) /\ Claims(w)
    BY DEF IInv
  <1>a. job[w] \in Jobs /\ Guarded(w, "command", "kill")
    BY DEF IInv, Local, Claimed, Executing, Inside
  <1>0. PICK to \in {"command", "kill"} :
          /\ pc' = [pc EXCEPT ![w] = to]
          /\ stop[w] # Null => to = "kill"
          /\ cause' \in [Workers -> Causes]
          /\ \A v \in Workers : v # w => cause'[v] = cause[v]
          /\ faults' \in 0..Faults /\ faults' <= faults
          /\ cause'[w] = "lost" /\ cause[w] # "lost" => lease[w] = "lost" \/ ~Owns(w, job[w])
    BY <1>a, GuardOutcomes
  <1>1. TypeOK'
    BY <1>0 DEF IInv, TypeOK, Before, Inside, After, Gone, Causes
  <1>2. Exclusive'
    BY <1>0, <1>h, ExclusiveKept DEF IInv, TypeOK, Holding, Local, Inside
  <1>3. Owned'
    BY DEF IInv, Owned
  <1>4. Only(w) /\ (faults' = Faults => faults = Faults)
    <2>1. Only(w)
      BY <1>0 DEF IInv, TypeOK, Only, Same
    <2> QED BY <1>0, <2>1, Budgets
  <1>5. \A v \in Workers : v # w => Kept(v)
    BY DEF Kept, Owns
  <1>6. Local(w)'
    BY <1>0, <1>h DEF IInv, TypeOK, Local, Claimed, Executing, Inside, Gone
  <1>7. Stopped(w)'
    BY <1>0, <1>h DEF IInv, TypeOK, Stopped, Local, Inside, Before, Gone
  <1>8. Row(w)'
    BY <1>0, <1>h DEF IInv, TypeOK, Row, Local, Claimed, Executing, Inside, Gone
  <1>9. Claims(w)'
    <2>1. Kept(w)
      BY DEF Kept, Owns
    <2>2. /\ job'[w] = job[w] /\ (pc[w] = "crashed" => pc'[w] = "crashed")
          /\ pc[w] \in Claimed /\ faults' = Faults => pc'[w] \in Claimed \cup {"crashed"}
          /\ lease'[w] = "lost" \/ pc'[w] \in Claimed => job[w] \in Jobs
      BY <1>0, <1>h DEF IInv, TypeOK, Local, Claimed, Executing, Inside
    <2>3. lease'[w] = "lost" => lease[w] = "lost"
      BY <1>0, <1>h DEF IInv, TypeOK
    <2>4. cause'[w] = "lost" /\ pc'[w] \in Claimed =>
            \/ (cause[w] = "lost" /\ pc[w] \in Claimed) \/ lease[w] = "lost"
            \/ ~Owns(w, job[w])
      BY <1>0, <1>h DEF IInv, TypeOK, Claimed, Executing, Inside
    <2> QED BY <1>4, <2>1, <2>2, <2>3, <2>4, ClaimsStep
  <1> QED BY <1>1, <1>2, <1>3, <1>4, <1>5, <1>6, <1>7, <1>8, <1>9, StepKeeps

LEMMA KillKeeps ==
  ASSUME IInv, NEW w \in Workers, Kill(w)
  PROVE  IInv'
  <1> USE DEF Kill, Go
  <1>h. Local(w) /\ Stopped(w) /\ Row(w) /\ Claims(w)
    BY DEF IInv
  <1>1. TypeOK'
    BY DEF IInv, TypeOK, Before, Inside, After, Gone, Causes
  <1>2. Exclusive'
    BY <1>h, ExclusiveKept DEF IInv, TypeOK, Holding, Local, Inside
  <1>3. Owned'
    BY DEF IInv, Owned
  <1>4. Only(w) /\ (faults' = Faults => faults = Faults)
    BY DEF IInv, TypeOK, Only, Same
  <1>5. \A v \in Workers : v # w => Kept(v)
    BY DEF Kept, Owns
  <1>6. Local(w)'
    BY <1>h DEF IInv, TypeOK, Local, Claimed, Executing, Inside, Gone
  <1>7. Stopped(w)'
    BY <1>h DEF IInv, TypeOK, Stopped, Local, Inside, Before, Gone
  <1>8. Row(w)'
    BY <1>h DEF IInv, TypeOK, Row, Local, Claimed, Executing, Inside, Gone
  <1>9. Claims(w)'
    <2>1. Kept(w)
      BY DEF Kept, Owns
    <2>2. /\ job'[w] = job[w] /\ (pc[w] = "crashed" => pc'[w] = "crashed")
          /\ pc[w] \in Claimed /\ faults' = Faults => pc'[w] \in Claimed \cup {"crashed"}
          /\ lease'[w] = "lost" \/ pc'[w] \in Claimed => job[w] \in Jobs
      BY <1>h DEF IInv, TypeOK, Local, Claimed, Executing, Inside
    <2>3. lease'[w] = "lost" => lease[w] = "lost"
      BY <1>h DEF IInv, TypeOK
    <2>4. cause'[w] = "lost" /\ pc'[w] \in Claimed =>
            \/ (cause[w] = "lost" /\ pc[w] \in Claimed) \/ lease[w] = "lost"
            \/ ~Owns(w, job[w])
      BY <1>h DEF IInv, TypeOK, Claimed, Executing, Inside
    <2> QED BY <1>4, <2>1, <2>2, <2>3, <2>4, ClaimsStep
  <1> QED BY <1>1, <1>2, <1>3, <1>4, <1>5, <1>6, <1>7, <1>8, <1>9, StepKeeps

LEMMA ReapKeeps ==
  ASSUME IInv, NEW w \in Workers, Reap(w)
  PROVE  IInv'
  <1> USE DEF Reap, Go
  <1>h. Local(w) /\ Stopped(w) /\ Row(w) /\ Claims(w)
    BY DEF IInv
  <1>1. TypeOK'
    BY DEF IInv, TypeOK, Before, Inside, After, Gone, Causes
  <1>2. Exclusive'
    BY <1>h, ExclusiveKept DEF IInv, TypeOK, Holding, Local, Inside
  <1>3. Owned'
    BY DEF IInv, Owned
  <1>4. Only(w) /\ (faults' = Faults => faults = Faults)
    BY DEF IInv, TypeOK, Only, Same
  <1>5. \A v \in Workers : v # w => Kept(v)
    BY DEF Kept, Owns
  <1>6. Local(w)'
    BY <1>h DEF IInv, TypeOK, Local, Claimed, Executing, Inside, Gone
  <1>7. Stopped(w)'
    BY <1>h DEF IInv, TypeOK, Stopped, Local, Inside, Before, Gone
  <1>8. Row(w)'
    BY <1>h DEF IInv, TypeOK, Row, Local, Claimed, Executing, Inside, Gone
  <1>9. Claims(w)'
    <2>1. Kept(w)
      BY DEF Kept, Owns
    <2>2. /\ job'[w] = job[w] /\ (pc[w] = "crashed" => pc'[w] = "crashed")
          /\ pc[w] \in Claimed /\ faults' = Faults => pc'[w] \in Claimed \cup {"crashed"}
          /\ lease'[w] = "lost" \/ pc'[w] \in Claimed => job[w] \in Jobs
      BY <1>h DEF IInv, TypeOK, Local, Claimed, Executing, Inside
    <2>3. lease'[w] = "lost" => lease[w] = "lost"
      BY <1>h DEF IInv, TypeOK
    <2>4. cause'[w] = "lost" /\ pc'[w] \in Claimed =>
            \/ (cause[w] = "lost" /\ pc[w] \in Claimed) \/ lease[w] = "lost"
            \/ ~Owns(w, job[w])
      BY <1>h DEF IInv, TypeOK, Claimed, Executing, Inside
    <2> QED BY <1>4, <2>1, <2>2, <2>3, <2>4, ClaimsStep
  <1> QED BY <1>1, <1>2, <1>3, <1>4, <1>5, <1>6, <1>7, <1>8, <1>9, StepKeeps

LEMMA UnlockKeeps ==
  ASSUME IInv, NEW w \in Workers, Unlock(w)
  PROVE  IInv'
  <1> USE DEF Unlock, Go
  <1>h. Local(w) /\ Stopped(w) /\ Row(w) /\ Claims(w)
    BY DEF IInv
  <1>1. TypeOK'
    BY DEF IInv, TypeOK, Before, Inside, After, Gone, Causes
  <1>2. Exclusive'
    BY <1>h, ExclusiveKept DEF IInv, TypeOK, Holding, Local, Inside
  <1>3. Owned'
    BY DEF IInv, Owned
  <1>4. Only(w) /\ (faults' = Faults => faults = Faults)
    BY DEF IInv, TypeOK, Only, Same
  <1>5. \A v \in Workers : v # w => Kept(v)
    BY DEF Kept, Owns
  <1>6. Local(w)'
    BY <1>h DEF IInv, TypeOK, Local, Claimed, Executing, Inside, Gone
  <1>7. Stopped(w)'
    BY <1>h DEF IInv, TypeOK, Stopped, Local, Inside, Before, Gone
  <1>8. Row(w)'
    BY <1>h DEF IInv, TypeOK, Row, Local, Claimed, Executing, Inside, Gone
  <1>9. Claims(w)'
    <2>1. Kept(w)
      BY DEF Kept, Owns
    <2>2. /\ job'[w] = job[w] /\ (pc[w] = "crashed" => pc'[w] = "crashed")
          /\ pc[w] \in Claimed /\ faults' = Faults => pc'[w] \in Claimed \cup {"crashed"}
          /\ lease'[w] = "lost" \/ pc'[w] \in Claimed => job[w] \in Jobs
      BY <1>h DEF IInv, TypeOK, Local, Claimed, Executing, Inside
    <2>3. lease'[w] = "lost" => lease[w] = "lost"
      BY <1>h DEF IInv, TypeOK
    <2>4. cause'[w] = "lost" /\ pc'[w] \in Claimed =>
            \/ (cause[w] = "lost" /\ pc[w] \in Claimed) \/ lease[w] = "lost"
            \/ ~Owns(w, job[w])
      BY <1>h DEF IInv, TypeOK, Claimed, Executing, Inside
    <2> QED BY <1>4, <2>1, <2>2, <2>3, <2>4, ClaimsStep
  <1> QED BY <1>1, <1>2, <1>3, <1>4, <1>5, <1>6, <1>7, <1>8, <1>9, StepKeeps

LEMMA JoinKeeps ==
  ASSUME IInv, NEW w \in Workers, Join(w)
  PROVE  IInv'
  <1> USE DEF Join, Go
  <1>h. Local(w) /\ Stopped(w) /\ Row(w) /\ Claims(w)
    BY DEF IInv
  <1>1. TypeOK'
    BY DEF IInv, TypeOK, Before, Inside, After, Gone, Causes
  <1>2. Exclusive'
    BY <1>h, ExclusiveKept DEF IInv, TypeOK, Holding, Local, Inside
  <1>3. Owned'
    BY DEF IInv, Owned
  <1>4. Only(w) /\ (faults' = Faults => faults = Faults)
    BY DEF IInv, TypeOK, Only, Same
  <1>5. \A v \in Workers : v # w => Kept(v)
    BY DEF Kept, Owns
  <1>6. Local(w)'
    BY <1>h DEF IInv, TypeOK, Local, Claimed, Executing, Inside, Gone
  <1>7. Stopped(w)'
    BY <1>h DEF IInv, TypeOK, Stopped, Local, Inside, Before, Gone
  <1>8. Row(w)'
    BY <1>h DEF IInv, TypeOK, Row, Local, Claimed, Executing, Inside, Gone
  <1>9. Claims(w)'
    <2>1. Kept(w)
      BY DEF Kept, Owns
    <2>2. /\ job'[w] = job[w] /\ (pc[w] = "crashed" => pc'[w] = "crashed")
          /\ pc[w] \in Claimed /\ faults' = Faults => pc'[w] \in Claimed \cup {"crashed"}
          /\ lease'[w] = "lost" \/ pc'[w] \in Claimed => job[w] \in Jobs
      BY <1>h DEF IInv, TypeOK, Local, Claimed, Executing, Inside
    <2>3. lease'[w] = "lost" => lease[w] = "lost"
      BY <1>h DEF IInv, TypeOK
    <2>4. cause'[w] = "lost" /\ pc'[w] \in Claimed =>
            \/ (cause[w] = "lost" /\ pc[w] \in Claimed) \/ lease[w] = "lost"
            \/ ~Owns(w, job[w])
      BY <1>h DEF IInv, TypeOK, Claimed, Executing, Inside
    <2> QED BY <1>4, <2>1, <2>2, <2>3, <2>4, ClaimsStep
  <1> QED BY <1>1, <1>2, <1>3, <1>4, <1>5, <1>6, <1>7, <1>8, <1>9, StepKeeps

LEMMA SettleKeeps ==
  ASSUME IInv, NEW w \in Workers, Settle(w)
  PROVE  IInv'
  <1> USE DEF Settle, Go, Released
  <1>h. Local(w) /\ Stopped(w) /\ Row(w) /\ Claims(w)
    BY DEF IInv
  <1>a. job[w] \in Jobs
    BY <1>h DEF Local, Claimed, Executing
  <1>0. /\ table' \in [Jobs -> [state: {"pending", "running", "done"},
                              owner: Workers \cup {Null}, expired: BOOLEAN]]
        /\ \A j \in Jobs : j # job[w] => table'[j] = table[j]
        /\ \/ table'[job[w]].owner = Null /\ table'[job[w]].state \in {"pending", "done"}
           \/ table'[job[w]] = table[job[w]] /\ (cause[w] = "lost" \/ ~Valid(w))
    <2>1. table \in [Jobs -> [state: {"pending", "running", "done"},
                                owner: Workers \cup {Null}, expired: BOOLEAN]]
      BY DEF IInv, TypeOK
    <2>2. CASE cause[w] = "lost" \/ ~Valid(w)
      BY <2>1, <2>2
    <2>3. CASE ~(cause[w] = "lost" \/ ~Valid(w))
      <3>1. PICK state \in {"done", "pending"} :
              table' = [table EXCEPT ![job[w]] = [state |-> state, owner |-> Null, expired |-> FALSE]]
        BY <2>3
      <3> QED BY <1>a, <2>1, <3>1
    <2> QED BY <2>2, <2>3
  <1>1. TypeOK'
    BY <1>0 DEF IInv, TypeOK, After, Causes
  <1>2. Exclusive'
    BY <1>h, ExclusiveKept DEF IInv, TypeOK, Holding, Local, Inside
  <1>3. Owned'
    BY <1>a, <1>0 DEF IInv, Owned
  <1>4. Only(w) /\ (faults' = Faults => faults = Faults)
    BY DEF IInv, TypeOK, Only, Same
  <1>5. \A v \in Workers : v # w => Kept(v)
    <2> SUFFICES ASSUME NEW v \in Workers, v # w, NEW j \in Jobs, Owns(v, j)' PROVE Owns(v, j)
      BY DEF Kept
    <2> HIDE DEF Settle, Go, Released
    <2> QED BY <1>a, <1>0, WorkerAssumption DEF Owns
  <1>6. Local(w)'
    BY <1>h DEF IInv, TypeOK, Local, Claimed, Executing, Inside, Gone
  <1>7. Stopped(w)'
    BY <1>h DEF IInv, TypeOK, Stopped, Local, Inside, Before, Gone
  <1>8. Row(w)'
    BY <1>h DEF IInv, TypeOK, Row, Local, Claimed, Executing, Inside, Gone
  <1>9. Claims(w)'
    <2>1. pc'[w] = "unmark" /\ lease'[w] # "lost"
      BY <1>h DEF IInv, TypeOK, Local, Inside
    <2>2. faults = Faults => ~Owns(w, job[w])'
      <3>1. CASE table'[job[w]].owner = Null
        BY <1>a, <3>1, WorkerAssumption DEF Owns
      <3>2. CASE table'[job[w]] = table[job[w]] /\ cause[w] = "lost"
        BY <1>h, <3>2 DEF Claims, Claimed, Executing, Owns
      <3>3. CASE table'[job[w]] = table[job[w]] /\ ~Valid(w)
        BY <1>a, <3>3, ValidOwns DEF Owns
      <3> QED BY <1>0, <3>1, <3>2, <3>3
    <2>3. \A j \in Jobs : Owns(w, j)' => j = job[w] \/ Owns(w, j)
      BY <1>0 DEF Owns
    <2> QED BY <1>h, <2>1, <2>2, <2>3 DEF Claims, Claimed, Executing, Inside
  <1> QED BY <1>1, <1>2, <1>3, <1>4, <1>5, <1>6, <1>7, <1>8, <1>9, StepKeeps

LEMMA WorkEndsKeeps ==
  ASSUME IInv, NEW w \in Workers, NEW why, WorkEnds(w, why)
  PROVE  IInv'
  <1> USE DEF WorkEnds, Go, Raise
  <1>h. Local(w) /\ Stopped(w) /\ Row(w) /\ Claims(w)
    BY DEF IInv
  <1>1. TypeOK'
    BY DEF IInv, TypeOK, Before, Inside, After, Gone, Causes
  <1>2. Exclusive'
    BY <1>h, ExclusiveKept DEF IInv, TypeOK, Holding, Local, Inside
  <1>3. Owned'
    BY DEF IInv, Owned
  <1>4. Only(w) /\ (faults' = Faults => faults = Faults)
    BY DEF IInv, TypeOK, Only, Same
  <1>5. \A v \in Workers : v # w => Kept(v)
    BY DEF Kept, Owns
  <1>6. Local(w)'
    BY <1>h DEF IInv, TypeOK, Local, Claimed, Executing, Inside, Gone
  <1>7. Stopped(w)'
    BY <1>h DEF IInv, TypeOK, Stopped, Local, Inside, Before, Gone
  <1>8. Row(w)'
    BY <1>h DEF IInv, TypeOK, Row, Local, Claimed, Executing, Inside, Gone
  <1>9. Claims(w)'
    <2>1. Kept(w)
      BY DEF Kept, Owns
    <2>2. /\ job'[w] = job[w] /\ (pc[w] = "crashed" => pc'[w] = "crashed")
          /\ pc[w] \in Claimed /\ faults' = Faults => pc'[w] \in Claimed \cup {"crashed"}
          /\ lease'[w] = "lost" \/ pc'[w] \in Claimed => job[w] \in Jobs
      BY <1>h DEF IInv, TypeOK, Local, Claimed, Executing, Inside
    <2>3. lease'[w] = "lost" => lease[w] = "lost"
      BY <1>h DEF IInv, TypeOK
    <2>4. cause'[w] = "lost" /\ pc'[w] \in Claimed =>
            \/ (cause[w] = "lost" /\ pc[w] \in Claimed) \/ lease[w] = "lost"
            \/ ~Owns(w, job[w])
      BY <1>h DEF IInv, TypeOK, Claimed, Executing, Inside
    <2> QED BY <1>4, <2>1, <2>2, <2>3, <2>4, ClaimsStep
  <1> QED BY <1>1, <1>2, <1>3, <1>4, <1>5, <1>6, <1>7, <1>8, <1>9, StepKeeps

LEMMA TransactionFailsKeeps ==
  ASSUME IInv, NEW w \in Workers,
         NEW at \in {"head", "claim", "mark", "unmark", "settle", "sign off"},
         NEW handler \in {"close", "unmark", "exited"},
         at = "settle" <=> handler = "unmark", at = "sign off" <=> handler = "exited",
         TransactionFails(w, at, handler)
  PROVE  IInv'
  <1> USE DEF TransactionFails, Go, Raise, Stopping
  <1>h. Local(w) /\ Stopped(w) /\ Row(w) /\ Claims(w)
    BY DEF IInv
  <1>1. TypeOK'
    BY Budgets DEF IInv, TypeOK, Before, Inside, After, Gone, Causes
  <1>2. Exclusive'
    BY <1>h, ExclusiveKept DEF IInv, TypeOK, Holding, Local, Inside
  <1>3. Owned'
    BY DEF IInv, Owned
  <1>4. Only(w) /\ (faults' = Faults => faults = Faults)
    BY Budgets DEF IInv, TypeOK, Only, Same
  <1>5. \A v \in Workers : v # w => Kept(v)
    BY DEF Kept, Owns
  <1>6. Local(w)'
    BY <1>h DEF IInv, TypeOK, Local, Claimed, Executing, Inside, Gone
  <1>7. Stopped(w)'
    BY <1>h DEF IInv, TypeOK, Stopped, Local, Inside, Before, Gone
  <1>8. Row(w)'
    BY <1>h DEF IInv, TypeOK, Row, Local, Claimed, Executing, Inside, Gone
  <1>9. Claims(w)'
    <2>1. Kept(w)
      BY DEF Kept, Owns
    <2>2. /\ job'[w] = job[w] /\ (pc[w] = "crashed" => pc'[w] = "crashed")
          /\ pc[w] \in Claimed /\ faults' = Faults => pc'[w] \in Claimed \cup {"crashed"}
          /\ lease'[w] = "lost" \/ pc'[w] \in Claimed => job[w] \in Jobs
      BY <1>h, Budgets DEF IInv, TypeOK, Local, Claimed, Executing, Inside
    <2>3. lease'[w] = "lost" => lease[w] = "lost"
      BY <1>h DEF IInv, TypeOK
    <2>4. cause'[w] = "lost" /\ pc'[w] \in Claimed =>
            \/ (cause[w] = "lost" /\ pc[w] \in Claimed) \/ lease[w] = "lost"
            \/ ~Owns(w, job[w])
      BY <1>h DEF IInv, TypeOK, Claimed, Executing, Inside
    <2> QED BY <1>4, <2>1, <2>2, <2>3, <2>4, ClaimsStep
  <1> QED BY <1>1, <1>2, <1>3, <1>4, <1>5, <1>6, <1>7, <1>8, <1>9, StepKeeps

LEMMA BeatDueKeeps ==
  ASSUME IInv, NEW w \in Workers, BeatDue(w)
  PROVE  IInv'
  <1> USE DEF BeatDue, main
  <1>h. Local(w) /\ Stopped(w) /\ Row(w) /\ Claims(w)
    BY DEF IInv
  <1>1. TypeOK'
    BY DEF IInv, TypeOK, Before, Inside, After, Gone, Causes
  <1>2. Exclusive'
    BY <1>h, ExclusiveKept DEF IInv, TypeOK, Holding, Local, Inside
  <1>3. Owned'
    BY DEF IInv, Owned
  <1>4. Only(w) /\ (faults' = Faults => faults = Faults)
    BY DEF IInv, TypeOK, Only, Same
  <1>5. \A v \in Workers : v # w => Kept(v)
    BY DEF Kept, Owns
  <1>6. Local(w)'
    BY <1>h DEF IInv, TypeOK, Local, Claimed, Executing, Inside, Gone
  <1>7. Stopped(w)'
    BY <1>h DEF IInv, TypeOK, Stopped, Local, Inside, Before, Gone
  <1>8. Row(w)'
    BY <1>h DEF IInv, TypeOK, Row, Local, Claimed, Executing, Inside, Gone
  <1>9. Claims(w)'
    <2>1. Kept(w)
      BY DEF Kept, Owns
    <2>2. /\ job'[w] = job[w] /\ (pc[w] = "crashed" => pc'[w] = "crashed")
          /\ pc[w] \in Claimed /\ faults' = Faults => pc'[w] \in Claimed \cup {"crashed"}
          /\ lease'[w] = "lost" \/ pc'[w] \in Claimed => job[w] \in Jobs
      BY <1>h DEF IInv, TypeOK, Local, Claimed, Executing, Inside
    <2>3. lease'[w] = "lost" => lease[w] = "lost"
      BY <1>h DEF IInv, TypeOK
    <2>4. cause'[w] = "lost" /\ pc'[w] \in Claimed =>
            \/ (cause[w] = "lost" /\ pc[w] \in Claimed) \/ lease[w] = "lost"
            \/ ~Owns(w, job[w])
      BY <1>h DEF IInv, TypeOK, Claimed, Executing, Inside
    <2> QED BY <1>4, <2>1, <2>2, <2>3, <2>4, ClaimsStep
  <1> QED BY <1>1, <1>2, <1>3, <1>4, <1>5, <1>6, <1>7, <1>8, <1>9, StepKeeps

LEMMA BeatKeeps ==
  ASSUME IInv, NEW w \in Workers, Beat(w)
  PROVE  IInv'
  <1> USE DEF Beat, main
  <1>h. Local(w) /\ Stopped(w) /\ Row(w) /\ Claims(w)
    BY DEF IInv
  <1>1. TypeOK'
    BY DEF IInv, TypeOK, Before, Inside, After, Gone, Causes
  <1>2. Exclusive'
    BY <1>h, ExclusiveKept DEF IInv, TypeOK, Holding, Local, Inside
  <1>3. Owned'
    BY DEF IInv, Owned
  <1>4. Only(w) /\ (faults' = Faults => faults = Faults)
    BY DEF IInv, TypeOK, Only, Same
  <1>5. \A v \in Workers : v # w => Kept(v)
    BY DEF Kept, Owns
  <1>6. Local(w)'
    BY <1>h DEF IInv, TypeOK, Local, Claimed, Executing, Inside, Gone
  <1>7. Stopped(w)'
    BY <1>h DEF IInv, TypeOK, Stopped, Local, Inside, Before, Gone
  <1>8. Row(w)'
    BY <1>h DEF IInv, TypeOK, Row, Local, Claimed, Executing, Inside, Gone
  <1>9. Claims(w)'
    <2>1. Kept(w)
      BY DEF Kept, Owns
    <2>2. /\ job'[w] = job[w] /\ (pc[w] = "crashed" => pc'[w] = "crashed")
          /\ pc[w] \in Claimed /\ faults' = Faults => pc'[w] \in Claimed \cup {"crashed"}
          /\ lease'[w] = "lost" \/ pc'[w] \in Claimed => job[w] \in Jobs
      BY <1>h DEF IInv, TypeOK, Local, Claimed, Executing, Inside
    <2>3. lease'[w] = "lost" => lease[w] = "lost"
      BY <1>h DEF IInv, TypeOK
    <2>4. cause'[w] = "lost" /\ pc'[w] \in Claimed =>
            \/ (cause[w] = "lost" /\ pc[w] \in Claimed) \/ lease[w] = "lost"
            \/ ~Owns(w, job[w])
      BY <1>h DEF IInv, TypeOK, Claimed, Executing, Inside
    <2> QED BY <1>4, <2>1, <2>2, <2>3, <2>4, ClaimsStep
  <1> QED BY <1>1, <1>2, <1>3, <1>4, <1>5, <1>6, <1>7, <1>8, <1>9, StepKeeps

LEMMA BeatFailsKeeps ==
  ASSUME IInv, NEW w \in Workers, BeatFails(w)
  PROVE  IInv'
  <1> USE DEF BeatFails, main, Set
  <1>h. Local(w) /\ Stopped(w) /\ Row(w) /\ Claims(w)
    BY DEF IInv
  <1>1. TypeOK'
    BY Budgets DEF IInv, TypeOK, Before, Inside, After, Gone, Causes
  <1>2. Exclusive'
    BY <1>h, ExclusiveKept DEF IInv, TypeOK, Holding, Local, Inside
  <1>3. Owned'
    BY DEF IInv, Owned
  <1>4. Only(w) /\ (faults' = Faults => faults = Faults)
    BY Budgets DEF IInv, TypeOK, Only, Same
  <1>5. \A v \in Workers : v # w => Kept(v)
    BY DEF Kept, Owns
  <1>6. Local(w)'
    BY <1>h DEF IInv, TypeOK, Local, Claimed, Executing, Inside, Gone
  <1>7. Stopped(w)'
    BY <1>h, WorkerAssumption DEF IInv, TypeOK, Stopped, Local, Inside, Before, Gone
  <1>8. Row(w)'
    BY <1>h DEF IInv, TypeOK, Row, Local, Claimed, Executing, Inside, Gone
  <1>9. Claims(w)'
    <2>1. Kept(w)
      BY DEF Kept, Owns
    <2>2. /\ job'[w] = job[w] /\ (pc[w] = "crashed" => pc'[w] = "crashed")
          /\ pc[w] \in Claimed /\ faults' = Faults => pc'[w] \in Claimed \cup {"crashed"}
          /\ lease'[w] = "lost" \/ pc'[w] \in Claimed => job[w] \in Jobs
      BY <1>h, Budgets DEF IInv, TypeOK, Local, Claimed, Executing, Inside
    <2>3. lease'[w] = "lost" => lease[w] = "lost"
      BY <1>h DEF IInv, TypeOK
    <2>4. cause'[w] = "lost" /\ pc'[w] \in Claimed =>
            \/ (cause[w] = "lost" /\ pc[w] \in Claimed) \/ lease[w] = "lost"
            \/ ~Owns(w, job[w])
      BY <1>h DEF IInv, TypeOK, Claimed, Executing, Inside
    <2> QED BY <1>4, <2>1, <2>2, <2>3, <2>4, ClaimsStep
  <1> QED BY <1>1, <1>2, <1>3, <1>4, <1>5, <1>6, <1>7, <1>8, <1>9, StepKeeps

LEMMA BeatEndsKeeps ==
  ASSUME IInv, NEW w \in Workers, BeatEnds(w)
  PROVE  IInv'
  <1> USE DEF BeatEnds, main
  <1>h. Local(w) /\ Stopped(w) /\ Row(w) /\ Claims(w)
    BY DEF IInv
  <1>1. TypeOK'
    BY DEF IInv, TypeOK, Before, Inside, After, Gone, Causes
  <1>2. Exclusive'
    BY <1>h, ExclusiveKept DEF IInv, TypeOK, Holding, Local, Inside
  <1>3. Owned'
    BY DEF IInv, Owned
  <1>4. Only(w) /\ (faults' = Faults => faults = Faults)
    BY DEF IInv, TypeOK, Only, Same
  <1>5. \A v \in Workers : v # w => Kept(v)
    BY DEF Kept, Owns
  <1>6. Local(w)'
    BY <1>h DEF IInv, TypeOK, Local, Claimed, Executing, Inside, Gone
  <1>7. Stopped(w)'
    BY <1>h DEF IInv, TypeOK, Stopped, Local, Inside, Before, Gone
  <1>8. Row(w)'
    BY <1>h DEF IInv, TypeOK, Row, Local, Claimed, Executing, Inside, Gone
  <1>9. Claims(w)'
    <2>1. Kept(w)
      BY DEF Kept, Owns
    <2>2. /\ job'[w] = job[w] /\ (pc[w] = "crashed" => pc'[w] = "crashed")
          /\ pc[w] \in Claimed /\ faults' = Faults => pc'[w] \in Claimed \cup {"crashed"}
          /\ lease'[w] = "lost" \/ pc'[w] \in Claimed => job[w] \in Jobs
      BY <1>h DEF IInv, TypeOK, Local, Claimed, Executing, Inside
    <2>3. lease'[w] = "lost" => lease[w] = "lost"
      BY <1>h DEF IInv, TypeOK
    <2>4. cause'[w] = "lost" /\ pc'[w] \in Claimed =>
            \/ (cause[w] = "lost" /\ pc[w] \in Claimed) \/ lease[w] = "lost"
            \/ ~Owns(w, job[w])
      BY <1>h DEF IInv, TypeOK, Claimed, Executing, Inside
    <2> QED BY <1>4, <2>1, <2>2, <2>3, <2>4, ClaimsStep
  <1> QED BY <1>1, <1>2, <1>3, <1>4, <1>5, <1>6, <1>7, <1>8, <1>9, StepKeeps

LEMMA LeaseLostKeeps ==
  ASSUME IInv, NEW w \in Workers, LeaseLost(w)
  PROVE  IInv'
  <1> USE DEF LeaseLost, main
  <1>h. Local(w) /\ Stopped(w) /\ Row(w) /\ Claims(w)
    BY DEF IInv
  <1>1. TypeOK'
    BY Budgets DEF IInv, TypeOK, Before, Inside, After, Gone, Causes
  <1>2. Exclusive'
    BY <1>h, ExclusiveKept DEF IInv, TypeOK, Holding, Local, Inside
  <1>3. Owned'
    BY DEF IInv, Owned
  <1>4. Only(w) /\ (faults' = Faults => faults = Faults)
    BY Budgets DEF IInv, TypeOK, Only, Same
  <1>5. \A v \in Workers : v # w => Kept(v)
    BY DEF Kept, Owns
  <1>6. Local(w)'
    BY <1>h DEF IInv, TypeOK, Local, Claimed, Executing, Inside, Gone
  <1>7. Stopped(w)'
    BY <1>h DEF IInv, TypeOK, Stopped, Local, Inside, Before, Gone
  <1>8. Row(w)'
    BY <1>h DEF IInv, TypeOK, Row, Local, Claimed, Executing, Inside, Gone
  <1>9. Claims(w)'
    <2>1. Kept(w)
      BY DEF Kept, Owns
    <2>2. /\ job'[w] = job[w] /\ (pc[w] = "crashed" => pc'[w] = "crashed")
          /\ pc[w] \in Claimed /\ faults' = Faults => pc'[w] \in Claimed \cup {"crashed"}
          /\ lease'[w] = "lost" \/ pc'[w] \in Claimed => job[w] \in Jobs
      BY <1>h, Budgets DEF IInv, TypeOK, Local, Claimed, Executing, Inside
    <2>3. faults' = Faults => ~Owns(w, job[w])
      BY <1>h, Budgets, ValidOwns DEF Local, Claimed, Executing
    <2>4. cause'[w] = cause[w] /\ pc'[w] = pc[w]
      OBVIOUS
    <2> QED BY <1>4, <2>1, <2>2, <2>3, <2>4, ClaimsStep
  <1> QED BY <1>1, <1>2, <1>3, <1>4, <1>5, <1>6, <1>7, <1>8, <1>9, StepKeeps

LEMMA GitEndsKeeps ==
  ASSUME IInv, NEW w \in Workers, GitEnds(w)
  PROVE  IInv'
  <1> USE DEF GitEnds, main
  <1>h. Local(w) /\ Stopped(w) /\ Row(w) /\ Claims(w)
    BY DEF IInv
  <1>1. TypeOK'
    BY DEF IInv, TypeOK, Before, Inside, After, Gone, Causes
  <1>2. Exclusive'
    BY <1>h, ExclusiveKept DEF IInv, TypeOK, Holding, Local, Inside
  <1>3. Owned'
    BY DEF IInv, Owned
  <1>4. Only(w) /\ (faults' = Faults => faults = Faults)
    BY DEF IInv, TypeOK, Only, Same
  <1>5. \A v \in Workers : v # w => Kept(v)
    BY DEF Kept, Owns
  <1>6. Local(w)'
    BY <1>h DEF IInv, TypeOK, Local, Claimed, Executing, Inside, Gone
  <1>7. Stopped(w)'
    BY <1>h DEF IInv, TypeOK, Stopped, Local, Inside, Before, Gone
  <1>8. Row(w)'
    BY <1>h DEF IInv, TypeOK, Row, Local, Claimed, Executing, Inside, Gone
  <1>9. Claims(w)'
    <2>1. Kept(w)
      BY DEF Kept, Owns
    <2>2. /\ job'[w] = job[w] /\ (pc[w] = "crashed" => pc'[w] = "crashed")
          /\ pc[w] \in Claimed /\ faults' = Faults => pc'[w] \in Claimed \cup {"crashed"}
          /\ lease'[w] = "lost" \/ pc'[w] \in Claimed => job[w] \in Jobs
      BY <1>h DEF IInv, TypeOK, Local, Claimed, Executing, Inside
    <2>3. lease'[w] = "lost" => lease[w] = "lost"
      BY <1>h DEF IInv, TypeOK
    <2>4. cause'[w] = "lost" /\ pc'[w] \in Claimed =>
            \/ (cause[w] = "lost" /\ pc[w] \in Claimed) \/ lease[w] = "lost"
            \/ ~Owns(w, job[w])
      BY <1>h DEF IInv, TypeOK, Claimed, Executing, Inside
    <2> QED BY <1>4, <2>1, <2>2, <2>3, <2>4, ClaimsStep
  <1> QED BY <1>1, <1>2, <1>3, <1>4, <1>5, <1>6, <1>7, <1>8, <1>9, StepKeeps

LEMMA SignalKeeps ==
  ASSUME IInv, NEW w \in Workers, Signal(w)
  PROVE  IInv'
  <1> USE DEF Signal, main, Set
  <1>h. Local(w) /\ Stopped(w) /\ Row(w) /\ Claims(w)
    BY DEF IInv
  <1>1. TypeOK'
    BY DEF IInv, TypeOK, Before, Inside, After, Gone, Causes
  <1>2. Exclusive'
    BY <1>h, ExclusiveKept DEF IInv, TypeOK, Holding, Local, Inside
  <1>3. Owned'
    BY DEF IInv, Owned
  <1>4. Only(w) /\ (faults' = Faults => faults = Faults)
    BY DEF IInv, TypeOK, Only, Same
  <1>5. \A v \in Workers : v # w => Kept(v)
    BY DEF Kept, Owns
  <1>6. Local(w)'
    BY <1>h DEF IInv, TypeOK, Local, Claimed, Executing, Inside, Gone
  <1>7. Stopped(w)'
    <2>1. /\ pc'[w] = pc[w] /\ pc[w] # "crashed"
          /\ stop'[w] = IF pc[w] \in Before THEN "no job"
                         ELSE IF pc[w] \in {"spawn", "poll", "kill", "reap"} THEN "git"
                         ELSE "job"
      BY DEF IInv, TypeOK, Gone
    <2> HIDE DEF Signal, Set, main
    <2> QED BY <2>1 DEF Stopped, Inside, Before
  <1>8. Row(w)'
    BY <1>h DEF IInv, TypeOK, Row, Local, Claimed, Executing, Inside, Gone
  <1>9. Claims(w)'
    <2>1. Kept(w)
      BY DEF Kept, Owns
    <2>2. /\ job'[w] = job[w] /\ (pc[w] = "crashed" => pc'[w] = "crashed")
          /\ pc[w] \in Claimed /\ faults' = Faults => pc'[w] \in Claimed \cup {"crashed"}
          /\ lease'[w] = "lost" \/ pc'[w] \in Claimed => job[w] \in Jobs
      BY <1>h DEF IInv, TypeOK, Local, Claimed, Executing, Inside
    <2>3. lease'[w] = "lost" => lease[w] = "lost"
      BY <1>h DEF IInv, TypeOK
    <2>4. cause'[w] = "lost" /\ pc'[w] \in Claimed =>
            \/ (cause[w] = "lost" /\ pc[w] \in Claimed) \/ lease[w] = "lost"
            \/ ~Owns(w, job[w])
      BY <1>h DEF IInv, TypeOK, Claimed, Executing, Inside
    <2> QED BY <1>4, <2>1, <2>2, <2>3, <2>4, ClaimsStep
  <1> QED BY <1>1, <1>2, <1>3, <1>4, <1>5, <1>6, <1>7, <1>8, <1>9, StepKeeps

LEMMA CrashKeeps ==
  ASSUME IInv, NEW w \in Workers, Crash(w)
  PROVE  IInv'
  <1> USE DEF Crash, Go
  <1>h. Local(w) /\ Stopped(w) /\ Row(w) /\ Claims(w)
    BY DEF IInv
  <1>1. TypeOK'
    BY Budgets DEF IInv, TypeOK, Before, Inside, After, Gone, Causes
  <1>2. Exclusive'
    BY <1>h, ExclusiveKept DEF IInv, TypeOK, Holding, Local, Inside
  <1>3. Owned'
    BY DEF IInv, Owned
  <1>4. Only(w) /\ (faults' = Faults => faults = Faults)
    BY Budgets DEF IInv, TypeOK, Only, Same
  <1>5. \A v \in Workers : v # w => Kept(v)
    BY DEF Kept, Owns
  <1>6. Local(w)'
    BY <1>h DEF IInv, TypeOK, Local, Claimed, Executing, Inside, Gone
  <1>7. Stopped(w)'
    BY <1>h, WorkerAssumption DEF IInv, TypeOK, Stopped, Local, Inside, Before, Gone
  <1>8. Row(w)'
    BY <1>h DEF IInv, TypeOK, Row, Local, Claimed, Executing, Inside, Gone
  <1>9. Claims(w)'
    <2>1. Kept(w)
      BY DEF Kept, Owns
    <2>2. /\ job'[w] = job[w] /\ (pc[w] = "crashed" => pc'[w] = "crashed")
          /\ pc[w] \in Claimed /\ faults' = Faults => pc'[w] \in Claimed \cup {"crashed"}
          /\ lease'[w] = "lost" \/ pc'[w] \in Claimed => job[w] \in Jobs
      BY <1>h, Budgets DEF IInv, TypeOK, Local, Claimed, Executing, Inside
    <2>3. lease'[w] = "lost" => lease[w] = "lost"
      BY <1>h DEF IInv, TypeOK
    <2>4. cause'[w] = "lost" /\ pc'[w] \in Claimed =>
            \/ (cause[w] = "lost" /\ pc[w] \in Claimed) \/ lease[w] = "lost"
            \/ ~Owns(w, job[w])
      BY <1>h DEF IInv, TypeOK, Claimed, Executing, Inside
    <2> QED BY <1>4, <2>1, <2>2, <2>3, <2>4, ClaimsStep
  <1> QED BY <1>1, <1>2, <1>3, <1>4, <1>5, <1>6, <1>7, <1>8, <1>9, StepKeeps

LEMMA TickKeeps ==
  ASSUME IInv, NEW w \in Workers, Tick(w)
  PROVE  IInv'
  <1> USE DEF Tick, Go
  <1>0. PICK old \in SUBSET {v \in Workers : pc[v] \in Gone} :
          row' = [v \in Workers |-> IF v \in old THEN [row[v] EXCEPT !.state = "pruned"]
                                    ELSE row[v]]
    OBVIOUS
  <1>1. TypeOK'
    BY <1>0 DEF IInv, TypeOK, Before
  <1>2. Exclusive' /\ Owned'
    BY DEF IInv, Exclusive, Holding, Owned
  <1>3. ASSUME NEW v \in Workers PROVE Local(v)' /\ Stopped(v)'
    <2>1. Local(v) /\ Stopped(v)
      BY DEF IInv
    <2> QED BY <2>1 DEF IInv, TypeOK, Local, Stopped, Claimed, Executing, Inside, Gone
  <1>4. ASSUME NEW v \in Workers PROVE Row(v)'
    <2>1. Row(v) /\ Local(v)
      BY DEF IInv
    <2>2. row'[v].current = row[v].current
          /\ (row'[v].state = row[v].state \/ (row'[v].state = "pruned" /\ pc[v] \in Gone))
      BY <1>0 DEF IInv, TypeOK
    <2>3. (pc'[v] = pc[v] \/ pc'[v] = "ticked") /\ (pc[v] \in Gone => pc'[v] = pc[v])
      BY DEF IInv, TypeOK, Gone
    <2> QED BY <2>1, <2>2, <2>3 DEF Row, Local, Executing, Inside, Gone
  <1>5. ASSUME NEW v \in Workers PROVE Claims(v)'
    <2>1. Claims(v)
      BY DEF IInv
    <2>2. \A j \in Jobs : Owns(v, j)' <=> Owns(v, j)
      BY DEF Owns
    <2>3. pc'[v] = pc[v] \/ (pc[v] = "head" /\ pc'[v] = "ticked")
      BY DEF IInv, TypeOK
    <2>4. Owns(v, job[v])' <=> Owns(v, job[v])
      BY DEF Owns
    <2> QED BY <2>1, <2>2, <2>3, <2>4 DEF Claims, Claimed, Executing, Inside
  <1> QED BY <1>1, <1>2, <1>3, <1>4, <1>5 DEF IInv

LEMMA ExpireKeeps ==
  ASSUME IInv, NEW i \in Jobs, Expire(i)
  PROVE  IInv'
  <1> USE DEF Expire, main
  <1>1. table' = [table EXCEPT ![i].expired = TRUE]
    OBVIOUS
  <1>2. /\ table' \in [Jobs -> [state: {"pending", "running", "done"},
                                owner: Workers \cup {Null}, expired: BOOLEAN]]
        /\ \A j \in Jobs : /\ table'[j].owner = table[j].owner
                           /\ table'[j].state = table[j].state
                           /\ table[j].expired => table'[j].expired
    <2>1. table \in [Jobs -> [state: {"pending", "running", "done"},
                               owner: Workers \cup {Null}, expired: BOOLEAN]]
      BY DEF IInv, TypeOK
    <2> HIDE DEF Expire
    <2> QED BY <1>1, <2>1
  <1>3. TypeOK'
    BY <1>2 DEF IInv, TypeOK
  <1>4. Exclusive' /\ Owned'
    BY <1>2 DEF IInv, Exclusive, Holding, Owned
  <1>5. ASSUME NEW v \in Workers
        PROVE  Local(v)' /\ Stopped(v)' /\ Row(v)' /\ Claims(v)'
    BY <1>2, SameKeeps DEF Same, Kept, Owns
  <1> QED BY <1>3, <1>4, <1>5 DEF IInv

----------------------------------------------------------------------------
(* The invariant and what follows *)

LEMMA MainKeeps ==
  ASSUME IInv, NEW w \in Workers, Main(w)
  PROVE  IInv'
  BY StartKeeps, LeaveKeeps, TickKeeps, LookAgainKeeps, ClaimKeeps, ClaimNothingKeeps,
     MarkKeeps, UnmarkKeeps, CloseKeeps, SignOffKeeps, ExecuteKeeps, LockKeeps, CommandKeeps,
     SpawnKeeps, PollKeeps, CollectKeeps, KillKeeps, ReapKeeps, UnlockKeeps, JoinKeeps,
     SettleKeeps, WorkEndsKeeps
  DEF Main

LEMMA OthersKeep ==
  ASSUME IInv, NEW w \in Workers, MainFaults(w) \/ Threads(w) \/ GitEnds(w) \/ Signal(w) \/ Crash(w)
  PROVE  IInv'
  <1>1. CASE MainFaults(w)
    BY <1>1, TransactionFailsKeeps DEF MainFaults
  <1>2. CASE Threads(w)
    BY <1>2, BeatDueKeeps, BeatKeeps, BeatFailsKeeps, BeatEndsKeeps, LeaseLostKeeps DEF Threads
  <1> QED BY <1>1, <1>2, GitEndsKeeps, SignalKeeps, CrashKeeps

\* The invariant holds in every reachable state.
THEOREM WorkerInvariant == Spec => []IInv
  <1>1. IInv /\ [Next]_vars => IInv'
    <2> SUFFICES ASSUME IInv, [Next]_vars PROVE IInv'
      OBVIOUS
    <2>1. CASE Next
      BY <2>1, MainKeeps, OthersKeep, ExpireKeeps DEF Next
    <2>2. CASE UNCHANGED vars
      <3>1. TypeOK' /\ Exclusive' /\ Owned'
        BY <2>2 DEF vars, main, IInv, TypeOK, Exclusive, Holding, Owned
      <3>2. ASSUME NEW v \in Workers
            PROVE  Local(v)' /\ Stopped(v)' /\ Row(v)' /\ Claims(v)'
        BY <2>2, <3>2, SameKeeps DEF vars, main, Same, Kept, Owns
      <3> QED BY <3>1, <3>2 DEF IInv
    <2> QED BY <2>1, <2>2
  <1> QED BY <1>1, InitHolds, PTL DEF Spec

\* Every variable keeps its type.
THEOREM WorkerTypes == Spec => []TypeOK
  <1>1. IInv => TypeOK
    BY DEF IInv
  <1> QED BY <1>1, WorkerInvariant, PTL

\* No two Git processes are at work in one repository (operation.run).
THEOREM OneGitPerRepositoryAlways == Spec => []OneGitPerRepository
  <1>1. IInv => OneGitPerRepository
    BY DEF IInv, Exclusive, Holding, OneGitPerRepository
  <1> QED BY <1>1, WorkerInvariant, PTL

\* Past an execution no Git process and no lock is left (operation.run's handler).
THEOREM NothingLeftBehindAlways == Spec => []NothingLeftBehind
  <1>1. IInv => NothingLeftBehind
    BY DEF IInv, Local, NothingLeftBehind, After, Inside
  <1> QED BY <1>1, WorkerInvariant, PTL

\* A stop that arrives outside a Git command starts none.
THEOREM StopStartsNothingAlways == Spec => []StopStartsNothing
  <1>1. IInv => StopStartsNothing
    BY DEF IInv, Local, Stopped, StopStartsNothing, Inside
  <1> QED BY <1>1, WorkerInvariant, PTL

\* Unless a transaction failed, a worker that ended holds no claim that counts.
THEOREM ClaimIsGivenBackAlways == Spec => []ClaimIsGivenBack
  <1>1. IInv => ClaimIsGivenBack
    BY DEF IInv, Claims, Owns, ClaimIsGivenBack, Claimed, Executing, Inside
  <1> QED BY <1>1, WorkerInvariant, PTL

\* The worker's row tells what its threads and its Git process do.
THEOREM RowIsTruthfulAlways == Spec => []RowIsTruthful
  <1>1. IInv => RowIsTruthful
    <2> SUFFICES ASSUME IInv, NEW w \in Workers
                 PROVE  /\ row[w].state = "stopped" =>
                             /\ pc[w] = "exited" /\ beat[w] \in {"failed", "ended"}
                             /\ lease[w] = "off" /\ row[w].current = Null
                        /\ git[w] # "none" /\ row[w].state = "present" => row[w].current = job[w]
      BY DEF RowIsTruthful
    <2>1. Local(w) /\ Row(w)
      BY DEF IInv
    <2> QED BY <2>1 DEF Local, Row, Gone, Inside
  <1> QED BY <1>1, WorkerInvariant, PTL
=============================================================================
