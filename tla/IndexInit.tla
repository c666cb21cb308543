----------------------------- MODULE IndexInit -----------------------------
(***************************************************************************)
(* Opening the inventory database (index.py): commands, workers and the    *)
(* web server call Index.initialize, possibly all at once and on a file    *)
(* that does not exist yet; queries call Index(read_only), which never     *)
(* creates anything.                                                       *)
(*                                                                         *)
(* SQLite is external and modelled by the locks the code runs into: a read *)
(* transaction holds a shared lock, leaving the rollback journal needs     *)
(* every other connection out, one connection writes, statements become    *)
(* visible when they are committed and a killed process's transaction is   *)
(* rolled back.  A lock that is not free is reported at once (timeout=0);  *)
(* the code retries until its deadline, which may pass at any retry.       *)
(***************************************************************************)
EXTENDS Naturals, FiniteSets

CONSTANTS Procs,         \* processes that open the index
          Statements,    \* number of statements of the schema
          SchemaVersion, OtherVersion,
          MaxRetries,    \* bound: retries of one process
          None

ASSUME IndexAssumption == /\ Statements \in Nat \ {0} /\ MaxRetries \in Nat
                          /\ SchemaVersion \in Nat \ {0} /\ OtherVersion \in Nat \ {0}
                          /\ SchemaVersion # OtherVersion
                          /\ None \notin Procs

VARIABLES exists,   \* the file exists
          db,       \* the committed database
          work,     \* the database as the open write transaction sees it
          readers,  \* connections in a read transaction
          writer,   \* the connection in a write transaction
          pc,
          retries

vars == <<exists, db, work, readers, writer, pc, retries>>

-----------------------------------------------------------------------------
(* A database: user_version, how many of the schema's objects there are, whether there are others,
   and whether it is in write-ahead mode. *)

Database == [version : {0, SchemaVersion, OtherVersion}, objects : 0..Statements,
             foreign : BOOLEAN, wal : BOOLEAN]

Holding(version, objects, foreign, wal) ==
  [version |-> version, objects |-> objects, foreign |-> foreign, wal |-> wal]

Empty == Holding(0, 0, FALSE, FALSE)

Supported(d) == d.version = SchemaVersion
Uninitialized(d) == d.version = 0 /\ d.objects = 0 /\ ~d.foreign
Whole(d) == d.version = SchemaVersion /\ d.objects = Statements

Goto(p, from, to) == pc[p] = from /\ pc' = [pc EXCEPT ![p] = to]

\* How an opening ends: with an index, refused because of what the file holds (or is missing), or
\* at the deadline.
Ended == {"ready", "refused", "timeout"}

-----------------------------------------------------------------------------
(* Index.initialize *)

\* Mutant of CreateFile: an existing file is emptied.
TruncateFile(p) ==
  /\ Goto(p, "create", "look")
  /\ exists' = TRUE /\ db' = Empty
  /\ UNCHANGED <<work, readers, writer, retries>>

\* The file is created exclusively, so that an existing one is never emptied.
CreateFile(p) ==
  /\ Goto(p, "create", "look")
  /\ exists' = TRUE
  /\ UNCHANGED <<db, work, readers, writer, retries>>

\* Mutant of Look: whatever has no version is taken for an interrupted initialization.
LookAtVersion(p) ==
  /\ pc[p] = "look"
  /\ pc' = [pc EXCEPT ![p] = IF Supported(db) THEN "verify"
                             ELSE IF db.version = 0 THEN "needed" ELSE "refused"]
  /\ readers' = readers \cup {p}
  /\ UNCHANGED <<exists, db, work, writer, retries>>

\* The first look, in a read transaction.
Look(p) ==
  /\ pc[p] = "look"
  /\ \/ Supported(db) /\ pc' = [pc EXCEPT ![p] = "verify"]
     \/ Uninitialized(db) /\ pc' = [pc EXCEPT ![p] = "needed"]
     \/ ~Supported(db) /\ ~Uninitialized(db) /\ pc' = [pc EXCEPT ![p] = "refused"]
  /\ readers' = IF pc'[p] = "refused" THEN readers ELSE readers \cup {p}
  /\ UNCHANGED <<exists, db, work, writer, retries>>

\* The read transaction ends.
EndLook(p) ==
  /\ p \in readers
  /\ readers' = readers \ {p}
  /\ UNCHANGED <<exists, db, work, writer, pc, retries>>

JournalFree(p) == db.wal \/ (readers \subseteq {p} /\ writer = None)

\* Mutant of SetJournal: the file is converted whatever it is.
SetJournalFirst(p) ==
  /\ pc[p] \in {"look", "needed"} /\ JournalFree(p)
  /\ pc' = [pc EXCEPT ![p] = IF @ = "needed" THEN "begin" ELSE @]
  /\ db' = [db EXCEPT !.wal = TRUE]
  /\ UNCHANGED <<exists, work, readers, writer, retries>>

SetJournal(p) ==
  /\ Goto(p, "needed", "begin") /\ p \notin readers
  /\ JournalFree(p)
  /\ db' = [db EXCEPT !.wal = TRUE]
  /\ UNCHANGED <<exists, work, readers, writer, retries>>

\* Mutant of BeginImmediate: the write transaction begins as a read transaction would.
BeginDeferred(p) ==
  /\ Goto(p, "begin", "recheck")
  /\ writer' = p /\ work' = db
  /\ UNCHANGED <<exists, db, readers, retries>>

BeginImmediate(p) ==
  /\ Goto(p, "begin", "recheck") /\ writer = None
  /\ writer' = p /\ work' = db
  /\ UNCHANGED <<exists, db, readers, retries>>

\* Mutant of Recheck: what the first look saw is believed.
RecheckSkipped(p) ==
  /\ Goto(p, "recheck", "statements")
  /\ UNCHANGED <<exists, db, work, readers, writer, retries>>

\* Another process may have committed the schema while this one waited for the lock.
Recheck(p) ==
  /\ pc[p] = "recheck"
  /\ \/ /\ Supported(work)
        /\ pc' = [pc EXCEPT ![p] = "verify"] /\ writer' = None
     \/ /\ Uninitialized(work)
        /\ pc' = [pc EXCEPT ![p] = "statements"] /\ UNCHANGED writer
     \/ /\ ~Supported(work) /\ ~Uninitialized(work)
        /\ pc' = [pc EXCEPT ![p] = "refused"] /\ writer' = None
  /\ UNCHANGED <<exists, db, work, readers, retries>>

\* Mutant of CreateObject: every statement is committed on its own, as a script would be.
CreateObjectCommitted(p) ==
  /\ pc[p] = "statements" /\ work.objects < Statements
  /\ work' = [work EXCEPT !.objects = @ + 1] /\ db' = work'
  /\ UNCHANGED <<exists, readers, writer, pc, retries>>

\* One statement of the schema; it fails when its object is there already.
CreateObject(p) ==
  /\ pc[p] = "statements"
  /\ \/ work.objects < Statements /\ work' = [work EXCEPT !.objects = @ + 1]
        /\ UNCHANGED <<pc, writer>>
     \/ Supported(work) /\ pc' = [pc EXCEPT ![p] = "refused"] /\ writer' = None /\ UNCHANGED work
  /\ UNCHANGED <<exists, db, readers, retries>>

\* Mutant of Commit: the version is stamped before all statements have run.
CommitEarly(p) ==
  /\ Goto(p, "statements", "verify") /\ ~Supported(work)
  /\ db' = [work EXCEPT !.version = SchemaVersion] /\ work' = db'
  /\ writer' = None
  /\ UNCHANGED <<exists, readers, retries>>

Commit(p) ==
  /\ Goto(p, "statements", "verify") /\ work.objects = Statements /\ ~Supported(work)
  /\ db' = [work EXCEPT !.version = SchemaVersion] /\ work' = db'
  /\ writer' = None
  /\ UNCHANGED <<exists, readers, retries>>

\* The index is opened again, to use it.
Verify(p) ==
  /\ pc[p] = "verify" /\ p \notin readers
  /\ pc' = [pc EXCEPT ![p] = IF Supported(db) THEN "ready" ELSE "refused"]
  /\ UNCHANGED <<exists, db, work, readers, writer, retries>>

Blocked(p) ==
  /\ p \notin readers
  /\ \/ pc[p] = "needed" /\ ~JournalFree(p)
     \/ pc[p] = "begin" /\ writer # None

\* Mutant of Busy: a lock that is not free ends the command.
BusyFails(p) ==
  /\ Blocked(p)
  /\ pc' = [pc EXCEPT ![p] = "refused"]
  /\ UNCHANGED <<exists, db, work, readers, writer, retries>>

\* Mutant of Busy: there is no deadline.
BusyForever(p) ==
  /\ Blocked(p)
  /\ pc' = [pc EXCEPT ![p] = "look"]
  /\ UNCHANGED <<exists, db, work, readers, writer, retries>>

\* A lock is not free: everything starts over with a new connection, or the deadline has passed.
Busy(p) ==
  /\ Blocked(p)
  /\ \/ /\ retries[p] < MaxRetries
        /\ pc' = [pc EXCEPT ![p] = "look"] /\ retries' = [retries EXCEPT ![p] = @ + 1]
     \/ pc' = [pc EXCEPT ![p] = "timeout"] /\ UNCHANGED retries
  /\ UNCHANGED <<exists, db, work, readers, writer>>

-----------------------------------------------------------------------------
(* Index(path, read_only) *)

OpenExisting(p) ==
  /\ pc[p] = "idle"
  /\ pc' = [pc EXCEPT ![p] = IF exists /\ Supported(db) THEN "ready" ELSE "refused"]
  /\ UNCHANGED <<exists, db, work, readers, writer, retries>>

Initialize(p) ==
  /\ pc[p] = "idle"
  /\ pc' = [pc EXCEPT ![p] = IF exists THEN "look" ELSE "create"]
  /\ UNCHANGED <<exists, db, work, readers, writer, retries>>

\* A process is killed: its transaction is rolled back and its locks are gone.
Crash(p) ==
  /\ pc[p] \notin Ended \cup {"idle"}
  /\ pc' = [pc EXCEPT ![p] = "idle"] /\ retries' = [retries EXCEPT ![p] = MaxRetries]
  /\ readers' = readers \ {p}
  /\ writer' = IF writer = p THEN None ELSE writer
  /\ UNCHANGED <<exists, db, work>>

-----------------------------------------------------------------------------
\* No file, an empty one left by a killed initializer, a ready index, one of another version, or a
\* database of another program.
Init ==
  /\ exists \in BOOLEAN
  /\ db \in {Empty, Holding(0, 0, FALSE, TRUE), Holding(SchemaVersion, Statements, FALSE, TRUE),
             Holding(OtherVersion, 0, TRUE, TRUE), Holding(0, 0, TRUE, FALSE)}
  /\ ~exists => db = Empty
  /\ work = db /\ readers = {} /\ writer = None
  /\ pc = [p \in Procs |-> "idle"] /\ retries = [p \in Procs |-> 0]

Step(p) ==
  \/ CreateFile(p) \/ Look(p) \/ EndLook(p) \/ SetJournal(p) \/ BeginImmediate(p)
  \/ Recheck(p) \/ CreateObject(p) \/ Commit(p) \/ Verify(p) \/ Busy(p)

Next == \E p \in Procs : Step(p) \/ Initialize(p) \/ OpenExisting(p) \/ Crash(p)

\* A process that has begun goes on.
Fairness == \A p \in Procs : WF_vars(Step(p))

Spec == Init /\ [][Next]_vars /\ Fairness

-----------------------------------------------------------------------------
(* Properties *)

\* The variables have their types; the write lock is held exactly by the process that creates the
\* schema.
TypeOK ==
  /\ exists \in BOOLEAN /\ db \in Database /\ work \in Database
  /\ readers \subseteq Procs /\ writer \in Procs \cup {None}
  /\ pc \in [Procs -> Ended \cup {"idle", "create", "look", "needed", "begin", "recheck",
                                  "statements", "verify"}]
  /\ retries \in [Procs -> 0..MaxRetries]
  /\ \A p \in Procs : writer = p <=> pc[p] \in {"recheck", "statements"}

\* No process, an initializer or a query, ever gets an index whose schema is not complete: the
\* statements and the version become visible together (index.py:202).
ReadyMeansWhole == \A p \in Procs : pc[p] = "ready" => Whole(db)

\* Concurrent initializers produce one schema: an initializer is refused only because the file
\* holds something else, never because of what another initializer did or left behind
\* (docs/guarantees.md:323).
RefusedForCause ==
  [][\A p \in Procs : pc[p] # "idle" /\ pc[p] # "refused" /\ pc'[p] = "refused"
                        => db.foreign \/ db.version = OtherVersion]_vars

\* A database that is not empty is kept as it is, whoever opens it: a ready index is neither
\* created again nor emptied, and one of another version or another program keeps its journal mode.
ContentKept == [][~Uninitialized(db) => db' = db]_vars

\* Every process ends, also when the one it waits for is killed.
InitializersEnd == \A p \in Procs : pc[p] # "idle" ~> pc[p] \in Ended \cup {"idle"}

\* What a killed initializer left is finished by the next one.
LeftoverFinished ==
  \A p \in Procs : pc[p] = "look" /\ Uninitialized(db)
                     ~> Whole(db) \/ pc[p] \in {"idle", "timeout"}
=============================================================================
