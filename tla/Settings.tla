------------------------------ MODULE Settings ------------------------------
(***************************************************************************)
(* The settings file config.toml (config.py): the ordered list of archive  *)
(* roots, whose first entry is the root new repositories are bound to.     *)
(*                                                                         *)
(* Commands add a root while others read the list.  A writer serialises    *)
(* with writers on a lock of the directory; a reader takes no lock.  The   *)
(* new list goes to a temporary file that is flushed, synchronised and     *)
(* renamed over the old one.  Covered: the interleaving of the steps, a    *)
(* write that fails, a process that is killed and a power failure, after   *)
(* which the directory holds the last or an earlier file and a file that   *)
(* was never synchronised may be empty or cut off.  Not covered: edits by  *)
(* hand while a command runs; the file may have been edited before.        *)
(***************************************************************************)
EXTENDS Naturals, SequencesExt

CONSTANTS Procs,     \* processes that run commands
          Names,     \* spellings of directories
          Resolve,   \* Resolve[n]: the directory that spelling n names
          Writable,  \* directories that exist and may be written
          MaxCalls,  \* bound: commands a process runs
          None

ASSUME SettingsAssumption == /\ Resolve \in [Names -> Names]
                             /\ \A n \in Names : Resolve[Resolve[n]] = Resolve[n]
                             /\ Writable \subseteq Names
                             /\ MaxCalls \in Nat /\ None \notin Procs

VARIABLES file,     \* the file that the name config.toml refers to
          durable,  \* the file the name refers to on the disk itself
          temp,     \* temp[p]: the temporary file of p
          lock,     \* the process that holds the lock of the directory
          pc, arg,  \* where p is, and the root it adds
          held,     \* held[p]: the list p loaded, or the file p has opened
          calls,    \* calls[p]: commands p has started
          acked,    \* roots whose command reported that they are configured
          due,      \* due[p]: what was acknowledged when p began to read
          outages   \* power failures

vars == <<file, durable, temp, lock, pc, arg, held, calls, acked, due, outages>>

-----------------------------------------------------------------------------
(* A file lists spellings, or is one that the parser refuses. *)

Absent  == [kind |-> "absent"]
Refused == [kind |-> "refused", synced |-> TRUE]
Listed(names, synced) == [kind |-> "listed", names |-> names, synced |-> synced]

\* Each spelling is resolved and every directory kept once, at the place of its first mention.
ParseArchiveDirs(names) ==
  LET mentions == {i \in DOMAIN names :
                     \A k \in DOMAIN names : Resolve[names[k]] = Resolve[names[i]] => i <= k}
      nth(n) == CHOOSE i \in mentions : Cardinality({k \in mentions : k < i}) = n - 1
  IN  [n \in 1 .. Cardinality(mentions) |-> Resolve[names[nth(n)]]]

Readable(f) == f.kind # "refused"
Dirs(f) == IF f.kind = "listed" THEN ParseArchiveDirs(f.names) ELSE <<>>

\* What a power failure leaves of a file: all of it once it is synchronised, else maybe nothing
\* or a part, which no TOML parser accepts.
Remains(f) ==
  IF f.kind = "absent" \/ f.synced THEN {f}
  ELSE {f, Listed(<<>>, TRUE), Refused}

Goto(p, from, to) == pc[p] = from /\ pc' = [pc EXCEPT ![p] = to]

-----------------------------------------------------------------------------
(* add_archive_dir *)

\* The directory is checked before the lock is taken.
NormalizeArchiveDir(p, n) ==
  /\ Goto(p, "idle", "locking") /\ calls[p] < MaxCalls
  /\ Resolve[n] \in Writable
  /\ calls' = [calls EXCEPT ![p] = @ + 1]
  /\ arg' = [arg EXCEPT ![p] = Resolve[n]]
  /\ UNCHANGED <<file, durable, temp, lock, held, acked, due, outages>>

\* Mutant of Lock: two processes in the transaction at once.
LockIgnored(p) ==
  /\ Goto(p, "locking", "loading")
  /\ lock' = p
  /\ UNCHANGED <<file, durable, temp, arg, held, calls, acked, due, outages>>

Lock(p) ==
  /\ Goto(p, "locking", "loading") /\ lock = None
  /\ lock' = p
  /\ UNCHANGED <<file, durable, temp, arg, held, calls, acked, due, outages>>

\* Mutant of Load: a file that cannot be parsed counts as an empty list.
LoadTolerant(p) ==
  /\ Goto(p, "loading", "changing")
  /\ held' = [held EXCEPT ![p] = Dirs(file)]
  /\ UNCHANGED <<file, durable, temp, lock, arg, calls, acked, due, outages>>

Load(p) ==
  /\ Goto(p, "loading", "changing") /\ Readable(file)
  /\ held' = [held EXCEPT ![p] = Dirs(file)]
  /\ UNCHANGED <<file, durable, temp, lock, arg, calls, acked, due, outages>>

Report(p) ==
  /\ acked' = acked \cup {arg[p]}
  /\ lock' = None

AlreadyConfigured(p) ==
  /\ Goto(p, "changing", "idle") /\ Contains(held[p], arg[p])
  /\ Report(p)
  /\ UNCHANGED <<file, durable, temp, arg, held, calls, due, outages>>

\* Mutant of CreateTemporary: the list is rewritten in place.
TruncateInPlace(p) ==
  /\ Goto(p, "changing", "writing") /\ ~Contains(held[p], arg[p])
  /\ file' = Listed(<<>>, FALSE) /\ temp' = [temp EXCEPT ![p] = Listed(<<>>, FALSE)]
  /\ UNCHANGED <<durable, lock, arg, held, calls, acked, due, outages>>

CreateTemporary(p) ==
  /\ Goto(p, "changing", "writing") /\ ~Contains(held[p], arg[p])
  /\ temp' = [temp EXCEPT ![p] = Listed(<<>>, FALSE)]
  /\ UNCHANGED <<file, durable, lock, arg, held, calls, acked, due, outages>>

Write(p) ==
  /\ Goto(p, "writing", "syncing")
  /\ temp' = [temp EXCEPT ![p] = Listed(Append(held[p], arg[p]), FALSE)]
  /\ UNCHANGED <<file, durable, lock, arg, held, calls, acked, due, outages>>

\* Mutant of Fsync: the temporary file is renamed before its content is on the disk.
FsyncForgotten(p) ==
  /\ Goto(p, "syncing", "replacing")
  /\ UNCHANGED <<file, durable, temp, lock, arg, held, calls, acked, due, outages>>

Fsync(p) ==
  /\ Goto(p, "syncing", "replacing")
  /\ temp' = [temp EXCEPT ![p].synced = TRUE]
  /\ UNCHANGED <<file, durable, lock, arg, held, calls, acked, due, outages>>

Replace(p) ==
  /\ Goto(p, "replacing", "saved")
  /\ file' = temp[p] /\ temp' = [temp EXCEPT ![p] = Absent]
  /\ UNCHANGED <<durable, lock, arg, held, calls, acked, due, outages>>

Saved(p) ==
  /\ Goto(p, "saved", "idle")
  /\ Report(p)
  /\ UNCHANGED <<file, durable, temp, arg, held, calls, due, outages>>

\* Mutant of Fails: an error leaves the directory locked.
FailsLocked(p) ==
  /\ pc[p] = "loading" /\ ~Readable(file)
  /\ pc' = [pc EXCEPT ![p] = "locking"]
  /\ UNCHANGED <<file, durable, temp, lock, arg, held, calls, acked, due, outages>>

\* A file the parser refuses, or an error while saving: the temporary file is removed and the
\* lock released.
Fails(p) ==
  /\ \/ pc[p] = "loading" /\ ~Readable(file)
     \/ pc[p] \in {"changing", "writing", "syncing", "replacing"} /\ ~Contains(held[p], arg[p])
  /\ pc' = [pc EXCEPT ![p] = "idle"]
  /\ temp' = [temp EXCEPT ![p] = Absent] /\ lock' = None
  /\ UNCHANGED <<file, durable, arg, held, calls, acked, due, outages>>

-----------------------------------------------------------------------------
(* list_archive_dirs: no lock; an open file stays the one that was opened. *)

Exists(p) ==
  /\ Goto(p, "idle", "opening") /\ calls[p] < MaxCalls
  /\ file # Absent
  /\ calls' = [calls EXCEPT ![p] = @ + 1] /\ due' = [due EXCEPT ![p] = acked]
  /\ UNCHANGED <<file, durable, temp, lock, arg, held, acked, outages>>

Open(p) ==
  /\ Goto(p, "opening", "reading")
  /\ held' = [held EXCEPT ![p] = file]
  /\ UNCHANGED <<file, durable, temp, lock, arg, calls, acked, due, outages>>

Read(p) ==
  /\ Goto(p, "reading", "idle")
  /\ UNCHANGED <<file, durable, temp, lock, arg, held, calls, acked, due, outages>>

-----------------------------------------------------------------------------
(* Faults *)

Idle(ps) == pc' = [p \in Procs |-> IF p \in ps THEN "idle" ELSE pc[p]]

\* A killed process loses its lock and leaves its temporary file, which nobody reads.
Crash(p) ==
  /\ pc[p] # "idle"
  /\ Idle({p}) /\ temp' = [temp EXCEPT ![p] = Absent]
  /\ lock' = IF lock = p THEN None ELSE lock
  /\ UNCHANGED <<file, durable, arg, held, calls, acked, due, outages>>

\* The operating system writes the directory back.
Writeback ==
  /\ durable # file
  /\ durable' = file
  /\ UNCHANGED <<file, temp, lock, pc, arg, held, calls, acked, due, outages>>

PowerFailure ==
  /\ outages = 0
  /\ \E f \in Remains(durable) \cup Remains(file) : file' = f /\ durable' = f
  /\ Idle(Procs) /\ temp' = [p \in Procs |-> Absent] /\ lock' = None
  /\ acked' = {} /\ due' = [p \in Procs |-> {}]
  /\ outages' = outages + 1
  /\ UNCHANGED <<arg, held, calls>>

-----------------------------------------------------------------------------
\* No file yet, one of an earlier session, or one edited by hand: spelled differently, with a
\* directory twice, or refused by the parser.
InitialFiles ==
  {Absent, Refused} \cup {Listed(s, TRUE) : s \in UNION {[1..k -> Names] : k \in 0..2}}

Init ==
  /\ file \in InitialFiles /\ durable = file
  /\ temp = [p \in Procs |-> Absent] /\ lock = None
  /\ pc = [p \in Procs |-> "idle"] /\ arg = [p \in Procs |-> None]
  /\ held = [p \in Procs |-> <<>>] /\ calls = [p \in Procs |-> 0]
  /\ acked = {} /\ due = [p \in Procs |-> {}] /\ outages = 0

Step(p) ==
  \/ Lock(p) \/ Load(p) \/ AlreadyConfigured(p) \/ CreateTemporary(p) \/ Write(p)
  \/ Fsync(p) \/ Replace(p) \/ Saved(p) \/ Fails(p) \/ Open(p) \/ Read(p)

Next ==
  \/ \E p \in Procs : \/ \E n \in Names : NormalizeArchiveDir(p, n)
                      \/ Exists(p) \/ Step(p) \/ Crash(p)
  \/ Writeback \/ PowerFailure

\* A command that has begun goes on; a process that waits for the lock is woken in the end,
\* because every process runs finitely many commands.
Fairness == \A p \in Procs : WF_vars(Step(p))

Spec == Init /\ [][Next]_vars /\ Fairness

-----------------------------------------------------------------------------
(* Properties *)

\* The variables have their types; the lock is held exactly by the process in the transaction.
TypeOK ==
  /\ file.kind \in {"absent", "refused", "listed"}
  /\ lock \in Procs \cup {None}
  /\ \A p \in Procs : lock = p <=> pc[p] \in {"loading", "changing", "writing", "syncing",
                                             "replacing", "saved"}

\* Two commands that add different roots at the same time both take effect: what a command
\* reported as configured stays in the file, however the commands interleave or die (config.py:60
\* promises serialised read-modify-write).
NoLostUpdate == acked \subseteq ToSet(Dirs(file))

\* The first root is the one new repositories are bound to, so the list only grows at its end; a
\* power failure alone may take back its last entries, and what it leaves is a list that the disk
\* held before, not an empty or cut off one (config.py:91 synchronises before it renames).
OnlyGrows ==
  [][\/ IsPrefix(Dirs(file), Dirs(file'))
     \/ /\ outages' > outages /\ Dirs(file') = Dirs(durable)
        /\ IsPrefix(Dirs(file'), Dirs(file))]_vars

\* A file that a user broke while editing is reported and left as it is, never replaced by a list
\* that holds only the new root; and no command or power failure breaks a good one.
RefusedStays == [][Readable(file) <=> Readable(file')]_vars

\* A reader without the lock gets every root that was configured when it began.
ReadsAreCurrent ==
  \A p \in Procs : pc[p] = "reading" => due[p] \subseteq ToSet(Dirs(held[p]))

\* Every command ends, also one that waits for a lock whose holder died.
CommandsEnd == \A p \in Procs : pc[p] # "idle" ~> pc[p] = "idle"
=============================================================================
