-------------------------- MODULE IndexInitProofs --------------------------
(***************************************************************************)
(* Concurrent initializers produce one schema: for every number of         *)
(* processes, statements and retries.                                      *)
(***************************************************************************)
EXTENDS IndexInit, TLAPS

\* What is known of the database at each point of an initialization.
Known(p) ==
  /\ pc[p] \in {"needed", "begin"} => Uninitialized(db) \/ Whole(db)
  /\ pc[p] = "recheck" => work = db /\ (Uninitialized(db) \/ Whole(db))
  /\ pc[p] = "statements" => /\ Uninitialized(db)
                             /\ work = [db EXCEPT !.objects = work.objects]
  /\ pc[p] \in {"verify", "ready"} => Whole(db)
  /\ pc[p] \in {"begin", "recheck", "statements"} => db.wal

\* What the committed database can be: never a part of the schema.
Sound == /\ Supported(db) => Whole(db) /\ db.wal
         /\ db.version = 0 => db.objects = 0

\* The inductive invariant.
IInv ==
  /\ TypeOK
  /\ Sound
  /\ \A p \in Procs : Known(p)

\* A database is in exactly one of the three conditions, so the write transaction cannot find
\* anything else than the first look did.
LEMMA Conditions ==
  ASSUME NEW d \in Database
  PROVE  /\ ~(Uninitialized(d) /\ Supported(d))
         /\ Whole(d) => Supported(d)
         /\ Uninitialized(d) => ~d.foreign /\ d.version # OtherVersion
         /\ Whole(d) => d.version # OtherVersion
  BY IndexAssumption DEF Database, Uninitialized, Supported, Whole

LEMMA InitHolds == Init => IInv
  <1> SUFFICES ASSUME Init PROVE IInv
    OBVIOUS
  <1>1. db \in Database
    <2>1. ASSUME NEW v \in {0, SchemaVersion, OtherVersion}, NEW o \in 0..Statements,
                 NEW f \in BOOLEAN, NEW w \in BOOLEAN
          PROVE  Holding(v, o, f, w) \in Database
      BY DEF Database, Holding
    <2>2. 0 \in 0..Statements /\ Statements \in 0..Statements
      BY IndexAssumption
    <2> QED BY <2>1, <2>2 DEF Init, Empty
  <1>2. TypeOK
    BY <1>1, IndexAssumption DEF Init, TypeOK, Ended
  <1>3. Sound
    BY IndexAssumption DEF Init, Sound, Supported, Whole, Empty, Holding
  <1>4. \A p \in Procs : Known(p)
    BY DEF Init, Known
  <1> QED BY <1>2, <1>3, <1>4 DEF IInv


-----------------------------------------------------------------------------
(* The steps *)

LEMMA CreateFileHolds ==
  ASSUME IInv, NEW p \in Procs, CreateFile(p)
  PROVE  IInv'
  <1>1. TypeOK'
    BY DEF IInv, TypeOK, CreateFile, Goto, Ended
  <1>2. \A q \in Procs : Known(q)'
    BY DEF IInv, TypeOK, Known, CreateFile, Goto, Uninitialized, Whole
  <1>3. Sound'
    BY DEF Sound, IInv, CreateFile, Supported, Whole
  <1> QED BY <1>1, <1>2, <1>3 DEF IInv

LEMMA LookHolds ==
  ASSUME IInv, NEW p \in Procs, Look(p)
  PROVE  IInv'
  <1>1. TypeOK'
    BY DEF IInv, TypeOK, Look, Ended
  <1>2. \A q \in Procs : Known(q)'
    BY DEF IInv, TypeOK, Known, Look, Uninitialized, Whole, Supported, Sound
  <1>3. Sound'
    BY DEF Sound, IInv, Look, Supported, Whole
  <1> QED BY <1>1, <1>2, <1>3 DEF IInv

LEMMA EndLookHolds ==
  ASSUME IInv, NEW p \in Procs, EndLook(p)
  PROVE  IInv'
  BY DEF IInv, TypeOK, EndLook, Known, Uninitialized, Whole, Supported, Sound

LEMMA SetJournalHolds ==
  ASSUME IInv, NEW p \in Procs, SetJournal(p)
  PROVE  IInv'
  <1>1. db' = [db EXCEPT !.wal = TRUE] /\ db' \in Database
    BY DEF IInv, TypeOK, SetJournal, Database
  <1>2. /\ db'.version = db.version /\ db'.objects = db.objects /\ db'.foreign = db.foreign
        /\ (db.wal => db' = db) /\ db'.wal
    BY <1>1 DEF IInv, TypeOK, Database
  <1>3. TypeOK'
    BY <1>1 DEF IInv, TypeOK, SetJournal, Goto, Ended
  <1>4. Sound'
    BY <1>2 DEF Sound, IInv, Supported, Whole
  <1>5. \A q \in Procs : Known(q)'
    <2> SUFFICES ASSUME NEW q \in Procs PROVE Known(q)'
      OBVIOUS
    <2>1. pc'[q] \in {"recheck", "statements"} => db' = db /\ pc'[q] = pc[q]
      BY <1>2, IndexAssumption DEF IInv, TypeOK, SetJournal, Goto, JournalFree
    <2>2. /\ Uninitialized(db') <=> Uninitialized(db)
          /\ Whole(db') <=> Whole(db)
      BY <1>2 DEF Uninitialized, Whole
    <2>3. work' = work
      BY DEF SetJournal
    <2>4. /\ pc'[q] = "begin" => pc[q] \in {"needed", "begin"}
          /\ pc'[q] # "begin" => pc'[q] = pc[q]
      BY DEF IInv, TypeOK, SetJournal, Goto
    <2>5. CASE pc'[q] \in {"recheck", "statements"}
      <3>1. db' = db /\ work' = work /\ pc'[q] = pc[q]
        BY <2>1, <2>3, <2>5
      <3>2. Known(q)
        BY DEF IInv
      <3> QED BY <3>1, <3>2, <2>2 DEF Known
    <2>6. CASE pc'[q] \notin {"recheck", "statements"}
      BY <1>2, <2>2, <2>4, <2>6 DEF IInv, Known
    <2> QED BY <2>5, <2>6
  <1> QED BY <1>3, <1>4, <1>5 DEF IInv

LEMMA BeginHolds ==
  ASSUME IInv, NEW p \in Procs, BeginImmediate(p)
  PROVE  IInv'
  <1>1. TypeOK'
    BY IndexAssumption DEF IInv, TypeOK, BeginImmediate, Goto, Ended
  <1>2. \A q \in Procs : Known(q)'
    BY IndexAssumption DEF IInv, TypeOK, Known, BeginImmediate, Goto, Uninitialized, Whole
  <1>3. Sound'
    BY DEF Sound, IInv, BeginImmediate, Supported, Whole
  <1> QED BY <1>1, <1>2, <1>3 DEF IInv

LEMMA RecheckHolds ==
  ASSUME IInv, NEW p \in Procs, Recheck(p)
  PROVE  IInv'
  <1>1. Known(p) /\ work = db /\ writer = p
    BY DEF IInv, TypeOK, Recheck, Known
  <1>2. TypeOK'
    BY <1>1, IndexAssumption DEF IInv, TypeOK, Recheck, Ended
  <1>3. \A q \in Procs : Known(q)'
    BY <1>1 DEF IInv, TypeOK, Known, Recheck, Uninitialized, Whole, Supported, Database, Sound
  <1>4. Sound'
    BY DEF Sound, IInv, Recheck, Supported, Whole
  <1> QED BY <1>2, <1>3, <1>4 DEF IInv

LEMMA CreateObjectHolds ==
  ASSUME IInv, NEW p \in Procs, CreateObject(p)
  PROVE  IInv'
  <1>1. Known(p) /\ writer = p /\ Uninitialized(db) /\ ~Supported(work) /\ work \in Database
    BY IndexAssumption DEF IInv, TypeOK, CreateObject, Known, Uninitialized, Supported, Database
  <1>2. work' = [work EXCEPT !.objects = work.objects + 1] /\ work.objects < Statements
    BY <1>1 DEF CreateObject
  <1>3. work' \in Database
    BY <1>1, <1>2, IndexAssumption DEF Database
  <1>4. UNCHANGED <<pc, writer, exists, db, readers, retries>>
    BY <1>1 DEF CreateObject
  <1>5. TypeOK'
    BY <1>3, <1>4 DEF IInv, TypeOK
  <1>6. \A q \in Procs : pc[q] = "statements" => q = p
    BY <1>1 DEF IInv, TypeOK
  <1>7. \A q \in Procs : pc[q] # "recheck"
    BY <1>1, IndexAssumption DEF IInv, TypeOK, CreateObject
  <1>8. work' = [db EXCEPT !.objects = work'.objects]
    BY <1>1, <1>2, IndexAssumption DEF Known, CreateObject, Database, IInv, TypeOK
  <1>9. \A q \in Procs : Known(q)'
    BY <1>1, <1>4, <1>6, <1>7, <1>8 DEF IInv, Known, Uninitialized, Whole
  <1>10. Sound'
    BY <1>4 DEF Sound, IInv, Supported, Whole
  <1> QED BY <1>5, <1>9, <1>10 DEF IInv

LEMMA CommitHolds ==
  ASSUME IInv, NEW p \in Procs, Commit(p)
  PROVE  IInv' /\ Whole(db')
  <1>1. /\ Known(p) /\ writer = p /\ work \in Database /\ work.objects = Statements
        /\ work.wal
    BY DEF IInv, TypeOK, Commit, Goto, Known, Database
  <1>2. db' = [work EXCEPT !.version = SchemaVersion] /\ work' = db'
    BY DEF Commit
  <1>3. db' \in Database /\ Whole(db') /\ db'.wal
    BY <1>1, <1>2, IndexAssumption DEF Database, Whole
  <1>4. TypeOK'
    BY <1>1, <1>2, <1>3, IndexAssumption DEF IInv, TypeOK, Commit, Goto, Ended
  <1>5. \A q \in Procs : pc'[q] \notin {"recheck", "statements"}
    BY <1>1, IndexAssumption DEF IInv, TypeOK, Commit, Goto
  <1>6. \A q \in Procs : Known(q)'
    BY <1>3, <1>5 DEF Known, Whole, Uninitialized
  <1>7. Sound'
    BY <1>3, IndexAssumption DEF Sound, Whole
  <1> QED BY <1>3, <1>4, <1>6, <1>7 DEF IInv

\* Ending, retrying, beginning and dying take no new knowledge along.
LEMMA OtherStepsHold ==
  ASSUME IInv, NEW p \in Procs,
         Verify(p) \/ Busy(p) \/ Initialize(p) \/ OpenExisting(p) \/ Crash(p)
  PROVE  IInv'
  <1>1. UNCHANGED <<db, work>>
    BY DEF Verify, Busy, Initialize, OpenExisting, Crash
  <1>2. /\ \A q \in Procs \ {p} : pc'[q] = pc[q]
        /\ pc'[p] \in {"ready", "refused", "look", "timeout", "create", "idle"}
        /\ pc'[p] = "ready" => Supported(db)
        /\ pc' \in [Procs -> Ended \cup {"idle", "create", "look", "needed", "begin", "recheck",
                                         "statements", "verify"}]
    BY DEF IInv, TypeOK, Verify, Busy, Initialize, OpenExisting, Crash, Ended
  <1>3. \A q \in Procs : Known(q)'
    BY <1>1, <1>2 DEF IInv, Known, Uninitialized, Whole, Supported, Sound
  <1>4. TypeOK'
    <2>1. CASE Crash(p)
      BY <2>1, <1>2, IndexAssumption DEF IInv, TypeOK, Crash
    <2>2. CASE Busy(p)
      BY <2>2, <1>2, IndexAssumption DEF IInv, TypeOK, Busy, Blocked
    <2>3. CASE Verify(p) \/ Initialize(p) \/ OpenExisting(p)
      BY <2>3, <1>2 DEF IInv, TypeOK, Verify, Initialize, OpenExisting
    <2> QED BY <2>1, <2>2, <2>3
  <1>5. Sound'
    BY <1>1 DEF Sound, IInv, Supported, Whole
  <1> QED BY <1>3, <1>4, <1>5 DEF IInv

LEMMA NextHolds == IInv /\ [Next]_vars => IInv'
  <1> SUFFICES ASSUME IInv, [Next]_vars PROVE IInv'
    OBVIOUS
  <1>1. CASE UNCHANGED vars
    BY <1>1 DEF vars, IInv, TypeOK, Known, Uninitialized, Whole, Supported, Sound
  <1>2. ASSUME NEW p \in Procs, Step(p) \/ Initialize(p) \/ OpenExisting(p) \/ Crash(p)
        PROVE  IInv'
    BY <1>2, CreateFileHolds, LookHolds, EndLookHolds, SetJournalHolds, BeginHolds, RecheckHolds,
       CreateObjectHolds, CommitHolds, OtherStepsHold DEF Step
  <1> QED BY <1>1, <1>2 DEF Next

-----------------------------------------------------------------------------
(* The theorems *)

\* The invariant holds of every behaviour.
THEOREM IndexInvariant == Spec => []IInv
  BY InitHolds, NextHolds, PTL DEF Spec

\* The variables keep their types and one process at most creates the schema (index.py:199).
THEOREM IndexTypes == Spec => []TypeOK
  <1>1. IInv => TypeOK
    BY DEF IInv
  <1> QED BY <1>1, IndexInvariant, PTL

\* Whoever got an index has a complete schema (index.py:202).
THEOREM ReadyIsWhole == Spec => []ReadyMeansWhole
  <1>1. IInv => ReadyMeansWhole
    BY DEF IInv, Known, ReadyMeansWhole
  <1> QED BY <1>1, IndexInvariant, PTL

\* No initializer is refused because of another one (index.py:200).
THEOREM OnlyRefusedForCause == Spec => RefusedForCause
  <1>1. ASSUME IInv, [Next]_vars
        PROVE  [\A p \in Procs : pc[p] # "idle" /\ pc[p] # "refused" /\ pc'[p] = "refused"
                                   => db.foreign \/ db.version = OtherVersion]_vars
    <2> SUFFICES ASSUME NEW q \in Procs, pc[q] # "idle", pc[q] # "refused", pc'[q] = "refused",
                        NEW p \in Procs, Step(p) \/ Initialize(p) \/ OpenExisting(p) \/ Crash(p)
                 PROVE  db.foreign \/ db.version = OtherVersion
      BY <1>1 DEF Next
    <2>1. q = p /\ pc \in [Procs -> Ended \cup {"idle", "create", "look", "needed", "begin",
                                                 "recheck", "statements", "verify"}]
      BY <1>1 DEF IInv, TypeOK, Step, CreateFile, Look, EndLook, SetJournal, BeginImmediate, Recheck,
         CreateObject, Commit, Verify, Busy, Initialize, OpenExisting, Crash, Goto
    <2>2. Look(p) \/ Recheck(p) \/ CreateObject(p) \/ Verify(p)
      BY <2>1 DEF Step, CreateFile, EndLook, SetJournal, BeginImmediate,
         Commit, Busy, Initialize, OpenExisting, Crash, Goto
    <2>3. Known(p) /\ db \in Database /\ work \in Database
      BY <1>1 DEF IInv, TypeOK
    <2>4. CASE Look(p)
      BY <2>1, <2>3, <2>4, <1>1, IndexAssumption
         DEF Look, Supported, Uninitialized, Database, IInv, Sound
    <2>5. CASE Recheck(p)
      BY <2>1, <2>3, <2>5 DEF Recheck, Known, Supported, Whole, Uninitialized
    <2>6. CASE CreateObject(p)
      BY <2>1, <2>3, <2>6, IndexAssumption
         DEF CreateObject, Known, Supported, Uninitialized, Database
    <2>7. CASE Verify(p)
      BY <2>1, <2>3, <2>7 DEF Verify, Known, Whole, Supported
    <2> QED BY <2>2, <2>4, <2>5, <2>6, <2>7
  <1> QED BY <1>1, IndexInvariant, PTL DEF Spec, RefusedForCause

\* Whatever is in the file stays in it (docs/guarantees.md:330).
THEOREM ContentIsKept == Spec => ContentKept
  <1>1. ASSUME IInv, [Next]_vars
        PROVE  [~Uninitialized(db) => db' = db]_vars
    <2> SUFFICES ASSUME ~Uninitialized(db),
                        NEW p \in Procs, Step(p) \/ Initialize(p) \/ OpenExisting(p) \/ Crash(p)
                 PROVE  db' = db
      BY <1>1 DEF Next
    <2>1. CASE SetJournal(p)
      <3>1. db.wal /\ db \in Database
        BY <1>1, <2>1 DEF SetJournal, Goto, IInv, TypeOK, Known, Sound, Whole, Supported
      <3>2. db' = [db EXCEPT !.wal = TRUE]
        BY <2>1 DEF SetJournal
      <3> QED BY <3>1, <3>2 DEF Database
    <2>2. CASE Commit(p)
      BY <1>1, <2>2 DEF Commit, Goto, IInv, Known
    <2> QED BY <2>1, <2>2 DEF Step, CreateFile, Look, EndLook, BeginImmediate, Recheck,
         CreateObject, Verify, Busy, Initialize, OpenExisting, Crash
  <1> QED BY <1>1, IndexInvariant, PTL DEF Spec, ContentKept
=============================================================================
