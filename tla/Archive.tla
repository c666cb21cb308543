------------------------------- MODULE Archive -------------------------------
(***************************************************************************)
(* One repository's directory, what the inventory says of it, and the      *)
(* operations on both: fetch (with and without adoption), conversion to a  *)
(* bundle, check, clean and audit --fix.                                   *)
(*                                                                         *)
(* An operation is a sequence of steps.  Every step that changes the disk  *)
(* is an action of its own, so the process may crash, and its claim may be *)
(* lost, between any two of them.  The fence of a claimed job (the guard   *)
(* before a step, the validation inside a write to the index) is checked   *)
(* where the code checks it: at the end of the step before, so that the    *)
(* claim may lapse between the guard and the step it guards, and again in  *)
(* every write to the index.  Git children inherit the lock: they outlive  *)
(* a killed process and finish what they do.                               *)
(*                                                                         *)
(* Contents are versions of the remote, numbered as the remote changes.    *)
(***************************************************************************)
EXTENDS Naturals, FiniteSets

CONSTANTS
  Procs,         \* worker executions and command line processes
  Generations,   \* names of bundle files
  None,          \* no process, no generation
  Operations,    \* the operations that may be started
  Suppliable,    \* may the user supply a mirror in an unowned directory?
  MaxVersion     \* bound on the versions of the remote

ASSUME ArchiveAssumption ==
  /\ None \notin Procs \cup Generations
  /\ Operations \subseteq {"fetch", "adopt", "convert", "check", "clean", "audit"}
  /\ Suppliable \in BOOLEAN
  /\ MaxVersion \in Nat \ {0}

VARIABLES
  disk,     \* the repository's directory
  inv,      \* its row of table repositories
  remote,   \* the current version of the remote
  claim,    \* the process whose job is running, as the index sees it
  lock,     \* the process that holds the directory's lock
  pc,       \* the next step of each process
  job       \* what each process does and remembers

vars == <<disk, inv, remote, claim, lock, pc, job>>

Versions == 0 .. MaxVersion
Nothing == [refs |-> 0, head |-> 0]
Contents == [refs: Versions, head: Versions]

Disk == [dir: {"none", "supplied", "owned"},   \* owned: .lock was published
         mirror: {"none", "partial", "whole"}, content: Contents,
         marker: BOOLEAN, source: BOOLEAN, staging: BOOLEAN,
         gens: [Generations -> Contents], manifest: Generations \cup {None}]

Inventory == [reconcile: BOOLEAN, format: {"git", "bundle"}, seen: Contents,
              state: {"unknown", "absent", "ready", "missing", "incomplete"}]

Job == [op: {"none", "fetch", "adopt", "convert", "check", "clean", "audit"},
        format: {"git", "bundle"}, state: {"unknown", "absent", "ready", "missing", "incomplete"},
        got: Versions, gen: Generations \cup {None}]

NoJob == [op |-> "none", format |-> "git", state |-> "unknown", got |-> 0, gen |-> None]

Early == {"mark", "open", "absent", "prepare", "adoptMarker", "adoptSource", "adoptLock", "bind"}
Children == {"cloning", "fetching"}
Orphans == {"orphanClone", "orphanFetch"}
Steps == {"idle", "clone", "synchronise", "complete", "unclone", "update", "updated",
          "stage", "rename", "select", "publishBundle", "retire", "retiring", "unstage",
          "convert", "cleanMark", "clean", "dropGens", "cleanRest", "publish",
          "error", "leave", "quit", "finish"} \cup Early \cup Children \cup Orphans

TypeOK ==
  /\ disk \in Disk /\ inv \in Inventory /\ remote \in Versions
  /\ claim \in Procs \cup {None} /\ lock \in Procs \cup {None}
  /\ pc \in [Procs -> Steps] /\ job \in [Procs -> Job]

Init ==
  /\ \E supplied \in {FALSE, Suppliable} :
       disk = [dir |-> IF supplied THEN "supplied" ELSE "none",
               mirror |-> IF supplied THEN "whole" ELSE "none",
               content |-> IF supplied THEN [refs |-> 1, head |-> 1] ELSE Nothing,
               marker |-> FALSE, source |-> FALSE, staging |-> FALSE,
               gens |-> [g \in Generations |-> Nothing], manifest |-> None]
  /\ inv = [reconcile |-> FALSE, format |-> "git", state |-> "unknown", seen |-> Nothing]
  /\ remote = 1
  /\ claim = None /\ lock = None
  /\ pc = [p \in Procs |-> "idle"]
  /\ job = [p \in Procs |-> NoJob]

---------------------------------------------------------------------------
(* The directory *)

Stored(d) == {g \in Generations : d.gens[g] # Nothing}

Bundled(d) == d.manifest # None

HasImportState(d) ==
  d.mirror # "none" \/ d.marker \/ Bundled(d) \/ d.staging \/ Stored(d) # {}

\* What validate_git_mirror_layout may answer: a half-removed mirror may still
\* have every entry it looks for.
LayoutValid(d) ==
  IF d.mirror = "partial" THEN BOOLEAN ELSE {d.mirror = "whole"}

\* A part of a mirror: a torn one, or one that verifies but has lost its refs.
Parts(d) == {[d EXCEPT !.mirror = m, !.content = Nothing] : m \in {"partial", "whole"}}

\* shutil.rmtree of the mirror, which a crash may interrupt.
MirrorRemoved(d) ==
  IF d.mirror = "whole" THEN Parts(d) ELSE {[d EXCEPT !.mirror = "none"]}

\* Mutant of Released: whatever else is there.
ReleasedAnyway(d) == [d EXCEPT !.source = FALSE]

Released(d) == [d EXCEPT !.source = @ /\ HasImportState(d)]

\* absent_fields
Absent(state) == IF state \in {"ready", "missing"} THEN "missing" ELSE "absent"

\* observe_local for a record of that state and format.
Observed(d, state, format) ==
  LET found(s, f, c) == [reconcile |-> FALSE, state |-> s, format |-> f, seen |-> c]
  IN  IF Bundled(d)
      THEN IF d.gens[d.manifest] # Nothing /\ d.source
           THEN found("ready", "bundle", d.gens[d.manifest])
           ELSE found("incomplete", "bundle", Nothing)
      ELSE IF format = "bundle" THEN found("incomplete", inv.format, Nothing)
      ELSE IF d.mirror = "none" /\ ~d.marker
      THEN found(IF Stored(d) # {} \/ d.staging THEN "incomplete" ELSE Absent(state),
                 inv.format, Nothing)
      ELSE IF d.mirror = "whole" /\ d.marker /\ d.source
      THEN found("ready", "git", d.content)
      ELSE found("incomplete", inv.format, Nothing)

---------------------------------------------------------------------------
(* Claims, guards and failures *)

Jobs == {"fetch", "adopt", "convert", "check"}
Fetching(p) == job[p].op \in {"fetch", "adopt"}

\* The guard of a claimed job; clean and audit run without a claim.
Fenced(p) == job[p].op \in Jobs => claim = p

\* Where an exception takes process p: a clone that is not complete is cleared,
\* a fetch publishes what it left behind, and every lock is released.
Exit(p) == IF pc[p] \in {"synchronise", "complete"} THEN "unclone"
           ELSE IF Fetching(p) /\ pc[p] \notin Early THEN "error"
           ELSE "quit"

\* The step ends, and the guard before the next one is passed, or is not.
Goto(p, step) == pc' = [pc EXCEPT ![p] = IF Fenced(p) THEN step ELSE Exit(p)]

\* A step that only changes the directory, and the guard before the next one.
Disks(p, from, d, step) ==
  /\ pc[p] = from
  /\ disk' = d
  /\ Goto(p, step)
  /\ UNCHANGED <<inv, remote, claim, lock, job>>

\* One whose next step the code takes without looking at the claim again.
Continues(p, from, d, step) ==
  /\ pc[p] = from
  /\ disk' = d
  /\ pc' = [pc EXCEPT ![p] = step]
  /\ UNCHANGED <<inv, remote, claim, lock, job>>

\* A write to the index: refused, and the operation ended, when the claim is lost.
Writes(p, from, row, step) ==
  /\ pc[p] = from
  /\ inv' = IF Fenced(p) THEN row ELSE inv
  /\ Goto(p, step)
  /\ UNCHANGED <<disk, remote, claim, lock, job>>

\* Mutant of Publication: the snapshot is left out of the update.
PublicationWithoutRefs(p) ==
  [f \in {"reconcile", "state", "format"} |-> Observed(disk, job[p].state, job[p].format)[f]]

Publication(p) == Observed(disk, job[p].state, job[p].format)

\* Any step under the lock may raise: a check that refuses, a Git command, the
\* disk or the deadline.
Fails(p) ==
  /\ pc[p] \in Steps \ ({"idle", "mark", "open", "absent", "unclone", "error", "leave",
                         "quit", "finish"} \cup Orphans)
  /\ pc' = [pc EXCEPT ![p] = Exit(p)]
  /\ UNCHANGED <<disk, inv, remote, claim, lock, job>>

---------------------------------------------------------------------------
(* Starting and opening *)

\* A job is claimed and its row read; clean and audit read theirs without a claim.
Begin(p, op) ==
  /\ pc[p] = "idle"
  /\ op \in Jobs => claim = None
  /\ claim' = IF op \in Jobs THEN p ELSE claim
  /\ job' = [job EXCEPT ![p] = [NoJob EXCEPT !.op = op, !.state = inv.state,
                                             !.format = inv.format]]
  /\ pc' = [pc EXCEPT ![p] = IF op \in {"fetch", "adopt"} THEN "mark" ELSE "open"]
  /\ UNCHANGED <<disk, inv, remote, lock>>

\* Mutant of Mark: the fetch trusts that it will publish.
MarkNothing(p) == Writes(p, "mark", inv, "open")

\* fetch_locked asks for reconciliation before it holds any lock.
Mark(p) == Writes(p, "mark", [inv EXCEPT !.reconcile = TRUE], "open")

OpenBusy(p) ==
  /\ pc[p] = "open" /\ lock # None
  /\ pc' = [pc EXCEPT ![p] = "finish"]
  /\ UNCHANGED <<disk, inv, remote, claim, lock, job>>

\* A fetch creates the directory and its lock; the others find nothing to lock.
OpenAbsent(p) ==
  /\ pc[p] = "open" /\ lock = None /\ disk.dir = "none"
  /\ IF Fetching(p) /\ job[p].format # "bundle"
     THEN /\ disk' = [disk EXCEPT !.dir = "owned"]
          /\ lock' = p
          /\ Goto(p, "bind")
     ELSE /\ pc' = [pc EXCEPT ![p] = IF job[p].op \in {"check", "audit"} THEN "absent"
                                     ELSE "finish"]
          /\ UNCHANGED <<disk, lock>>
  /\ UNCHANGED <<inv, remote, claim, job>>

\* A directory without a lock file: only an explicit adoption goes on.
OpenSupplied(p) ==
  /\ pc[p] = "open" /\ lock = None /\ disk.dir = "supplied"
  /\ IF job[p].op = "adopt" /\ job[p].format # "bundle"
     THEN lock' = p /\ Goto(p, "adoptMarker")
     ELSE lock' = lock /\ pc' = [pc EXCEPT ![p] = "finish"]
  /\ inv' = IF job[p].op = "check" /\ Fenced(p)
            THEN [inv EXCEPT !.state = "incomplete", !.reconcile = TRUE] ELSE inv
  /\ UNCHANGED <<disk, remote, claim, job>>

OpenOwned(p) ==
  /\ pc[p] = "open" /\ lock = None /\ disk.dir = "owned"
  /\ lock' = p
  /\ Goto(p, IF Fetching(p) THEN "prepare"
             ELSE IF job[p].op = "convert" THEN "convert"
             ELSE IF job[p].op = "clean" THEN "cleanMark" ELSE "publish")
  /\ UNCHANGED <<disk, inv, remote, claim, job>>

\* check and audit --fix publish that there is nothing, with no lock held.
PublishAbsent(p) ==
  Writes(p, "absent", [inv EXCEPT !.state = Absent(job[p].state), !.seen = Nothing,
                                  !.reconcile = FALSE], "finish")

---------------------------------------------------------------------------
(* Fetching: preparation, adoption and the first clone *)

\* require_selected_format and prepare_import, in an owned directory.  An adoption
\* verifies the mirror: nothing torn passes.
Prepare(p) ==
  /\ pc[p] = "prepare"
  /\ LET initialized == disk.marker /\ disk.source
         adopting == job[p].op = "adopt"
         next == IF Bundled(disk) THEN IF adopting THEN "quit" ELSE "bind"
                 ELSE IF job[p].format = "bundle" THEN "quit"
                 ELSE IF disk.mirror = "none"
                 THEN IF adopting /\ HasImportState(disk) THEN "quit" ELSE "bind"
                 ELSE IF initialized /\ ~adopting THEN "bind"
                 ELSE IF adopting /\ disk.mirror = "whole" /\ Stored(disk) = {} /\ ~disk.staging
                 THEN "adoptMarker" ELSE "quit"
     IN  Goto(p, next)
  /\ UNCHANGED <<disk, inv, remote, claim, lock, job>>

\* Completion comes first, so that cleanup cannot delete the verified mirror.
AdoptMarker(p) == Continues(p, "adoptMarker", [disk EXCEPT !.marker = TRUE], "adoptSource")

AdoptSource(p) == Disks(p, "adoptSource", [disk EXCEPT !.source = TRUE], "adoptLock")

AdoptLock(p) == Disks(p, "adoptLock", [disk EXCEPT !.dir = "owned"], "bind")

\* The source is bound before anything is stored, and the row is read again.
Bind(p) ==
  /\ pc[p] = "bind" /\ (HasImportState(disk) => disk.source)
  /\ disk' = [disk EXCEPT !.source = TRUE]
  /\ job' = [job EXCEPT ![p].state = inv.state, ![p].format = inv.format]
  /\ Goto(p, IF Bundled(disk) THEN "stage"
             ELSE IF disk.marker THEN IF disk.mirror = "none" THEN "error" ELSE "update"
             ELSE IF disk.mirror = "none" THEN "clone" ELSE "error")
  /\ UNCHANGED <<inv, remote, claim, lock>>

Clone(p) ==
  /\ pc[p] = "clone"
  /\ disk' \in {disk} \cup Parts(disk)
  /\ job' = [job EXCEPT ![p].got = remote]
  /\ pc' = [pc EXCEPT ![p] = "cloning"]
  /\ UNCHANGED <<inv, remote, claim, lock>>

\* The mirror that a Git child leaves when it ends: the refs it was offered when
\* it asked, and for a clone a HEAD that Git chose.
Cloned(p) == {[disk EXCEPT !.mirror = "whole", !.content = [refs |-> v, head |-> 0]]
              : v \in job[p].got .. remote}
Fetched(p) == {[disk EXCEPT !.content.refs = v] : v \in job[p].got .. remote}

CloneDone(p) ==
  /\ pc[p] = "cloning"
  /\ disk' \in Cloned(p)
  /\ Goto(p, "synchronise")
  /\ UNCHANGED <<inv, remote, claim, lock, job>>

\* Git exits with an error, and what it cloned is cleared.
CloneFails(p) ==
  /\ pc[p] = "cloning"
  /\ pc' = [pc EXCEPT ![p] = "unclone"]
  /\ UNCHANGED <<disk, inv, remote, claim, lock, job>>

\* The HEAD now advertised is published, if it is that of the refs cloned.
Synchronise(p) ==
  /\ disk.content.refs = remote
  /\ Disks(p, "synchronise", [disk EXCEPT !.content.head = remote], "complete")

\* The marker, if the remote still advertises that HEAD.
Complete(p) ==
  /\ disk.content.head = remote
  /\ Disks(p, "complete", [disk EXCEPT !.marker = TRUE], "publish")

\* Mutant of Unclone: although the marker was linked before the write failed.
UncloneMarked(p) ==
  /\ pc[p] = "unclone"
  /\ IF disk.mirror = "none"
     THEN disk' = disk /\ pc' = [pc EXCEPT ![p] = "error"]
     ELSE disk' \in MirrorRemoved(disk) /\ pc' = pc
  /\ UNCHANGED <<inv, remote, claim, lock, job>>

\* _clear_incomplete_mirror
Unclone(p) ==
  /\ pc[p] = "unclone"
  /\ IF disk.marker \/ disk.mirror = "none"
     THEN disk' = disk /\ pc' = [pc EXCEPT ![p] = "error"]
     ELSE disk' \in MirrorRemoved(disk) /\ pc' = pc
  /\ UNCHANGED <<inv, remote, claim, lock, job>>

Update(p) ==
  /\ pc[p] = "update" /\ TRUE \in LayoutValid(disk)
  /\ job' = [job EXCEPT ![p].got = remote]
  /\ Goto(p, "fetching")
  /\ UNCHANGED <<disk, inv, remote, claim, lock>>

FetchDone(p) ==
  /\ pc[p] = "fetching"
  /\ disk' \in Fetched(p)
  /\ Goto(p, "updated")
  /\ UNCHANGED <<inv, remote, claim, lock, job>>

\* HEAD follows only while the remote advertises what it did before the fetch.
Updated(p) ==
  /\ job[p].got = remote
  /\ Disks(p, "updated", [disk EXCEPT !.content.head = remote], "publish")

---------------------------------------------------------------------------
(* Bundles: materialize, retire and cleanup *)

\* A conversion marks the row before it looks at more than the format.
Convert(p) ==
  /\ job[p].format = "bundle" => Bundled(disk)
  /\ Writes(p, "convert", [inv EXCEPT !.reconcile = TRUE], "stage")

\* Staging is emptied, and filled: a bundle is restored and, for a fetch, brought
\* up to date in it; a conversion, which needs a complete mirror, writes the next one there.
Stage(p) ==
  /\ pc[p] = "stage"
  /\ disk.source
  /\ IF Bundled(disk) THEN disk.manifest \in Stored(disk)
     ELSE disk.marker /\ TRUE \in LayoutValid(disk)
  /\ disk' = [disk EXCEPT !.staging = TRUE]
  /\ job' = [job EXCEPT ![p].got = remote]
  /\ Goto(p, IF Bundled(disk) /\ ~Fetching(p) THEN "publishBundle" ELSE "rename")
  /\ UNCHANGED <<inv, remote, claim, lock>>

\* An empty mirror is not published as a bundle.
Rename(p) ==
  /\ pc[p] = "rename" /\ (Bundled(disk) \/ disk.content # Nothing)
  /\ \E g \in Generations \ Stored(disk) :
       /\ disk' = [disk EXCEPT !.gens[g] = IF Bundled(disk)
                                           THEN [refs |-> job[p].got, head |-> job[p].got]
                                           ELSE disk.content]
       /\ job' = [job EXCEPT ![p].gen = g]
  /\ Goto(p, "select")
  /\ UNCHANGED <<inv, remote, claim, lock>>

Select(p) == Disks(p, "select", [disk EXCEPT !.manifest = job[p].gen], "publishBundle")

PublishBundle(p) == Writes(p, "publishBundle", Publication(p), "retire")

\* The mirror about to be removed must still look like one.
Retire(p) ==
  /\ disk.mirror # "none" => TRUE \in LayoutValid(disk)
  /\ Disks(p, "retire", disk, "retiring")

\* Generations go first, in no order that matters, then the mirror, then the marker.
Retiring(p) ==
  LET old == Stored(disk) \ {disk.manifest}
      left == IF old # {} THEN {[disk EXCEPT !.gens[g] = Nothing] : g \in old}
              ELSE IF disk.mirror # "none" THEN MirrorRemoved(disk)
              ELSE {[disk EXCEPT !.marker = FALSE]}
  IN  \E d \in left :
        IF d.marker \/ d.mirror # "none" \/ Stored(d) # {d.manifest}
        THEN Disks(p, "retiring", d, "retiring")
        ELSE Continues(p, "retiring", d, "unstage")

Unstage(p) ==
  Disks(p, "unstage", [disk EXCEPT !.staging = FALSE],
        IF job[p].op = "clean" THEN "cleanRest"
        ELSE IF Fetching(p) THEN "publish" ELSE "quit")

---------------------------------------------------------------------------
(* Clean *)

\* The row is read under the lock; a missing manifest is refused.
CleanMark(p) ==
  /\ pc[p] = "cleanMark" /\ (inv.format = "bundle" => Bundled(disk))
  /\ job' = [job EXCEPT ![p].state = inv.state, ![p].format = inv.format]
  /\ inv' = [inv EXCEPT !.reconcile = TRUE]
  /\ Goto(p, "clean")
  /\ UNCHANGED <<disk, remote, claim, lock>>

Clean(p) ==
  LET bundled == Bundled(disk)
      extra == bundled /\ (Stored(disk) # {disk.manifest} \/ disk.mirror # "none" \/ disk.marker)
  IN  /\ pc[p] = "clean"
      /\ bundled \/ Stored(disk) # {} \/ disk.staging => disk.source
      /\ bundled => disk.manifest \in Stored(disk)
      /\ ~bundled /\ Stored(disk) # {} => disk.marker /\ TRUE \in LayoutValid(disk)
      /\ Disks(p, "clean", [disk EXCEPT !.staging = @ \/ extra],
               IF extra THEN "retire"
               ELSE IF ~bundled /\ Stored(disk) # {} THEN "dropGens" ELSE "unstage")

\* Bundles that no manifest selects, beside the complete mirror they came from.
DropGens(p) ==
  \E g \in Stored(disk) :
    Disks(p, "dropGens", [disk EXCEPT !.gens[g] = Nothing],
          IF Stored(disk) = {g} THEN "unstage" ELSE "dropGens")

CleanRest(p) ==
  IF disk.mirror # "none" /\ ~disk.marker
  THEN \E d \in MirrorRemoved(disk) : Disks(p, "cleanRest", d, "cleanRest")
  ELSE Disks(p, "cleanRest",
             Released([disk EXCEPT !.marker = @ /\ (disk.mirror # "none" \/ Bundled(disk))]),
             "publish")

---------------------------------------------------------------------------
(* Publication and the end of an operation *)

Publish(p) == Writes(p, "publish", Publication(p), IF Fetching(p) THEN "leave" ELSE "quit")

\* The failed fetch publishes what it left, unless that fails too.
ErrorPublish(p) ==
  /\ pc[p] = "error"
  /\ inv' \in {inv} \cup {row \in {Publication(p)} : Fenced(p)}
  /\ pc' = [pc EXCEPT ![p] = "leave"]
  /\ UNCHANGED <<disk, remote, claim, lock, job>>

\* release_unused_source
Leave(p) ==
  /\ pc[p] = "leave"
  /\ disk' = Released(disk)
  /\ pc' = [pc EXCEPT ![p] = "quit"]
  /\ UNCHANGED <<inv, remote, claim, lock, job>>

Quit(p) ==
  /\ pc[p] = "quit"
  /\ lock' = IF lock = p THEN None ELSE lock
  /\ pc' = [pc EXCEPT ![p] = "finish"]
  /\ UNCHANGED <<disk, inv, remote, claim, job>>

\* The job's claim ends with its attempt; an interruption asks for reconciliation.
Finish(p) ==
  /\ pc[p] = "finish"
  /\ LET owner == job[p].op \in Jobs /\ claim = p
     IN  /\ claim' = IF owner THEN None ELSE claim
         /\ \E interrupted \in {FALSE, owner} :
              inv' = [inv EXCEPT !.reconcile = @ \/ interrupted]
  /\ pc' = [pc EXCEPT ![p] = "idle"]
  /\ job' = [job EXCEPT ![p] = NoJob]
  /\ UNCHANGED <<disk, remote, lock>>

---------------------------------------------------------------------------
(* The environment *)

RemoteChanges ==
  /\ remote < MaxVersion
  /\ remote' = remote + 1
  /\ UNCHANGED <<disk, inv, claim, lock, pc, job>>

\* Mutant of Crash: Git children do not inherit the lock.
CrashFreesLock(p) ==
  LET child == pc[p] \in Children
      orphan == IF pc[p] = "cloning" THEN "orphanClone" ELSE "orphanFetch"
  IN  /\ pc[p] \notin {"idle"} \cup Orphans
      /\ pc' = [pc EXCEPT ![p] = IF child THEN orphan ELSE "idle"]
      /\ job' = [job EXCEPT ![p] = IF child THEN job[p] ELSE NoJob]
      /\ lock' = IF lock = p THEN None ELSE lock
      /\ UNCHANGED <<disk, inv, remote, claim>>

\* The process is killed.  A Git child lives on and keeps the lock.
Crash(p) ==
  LET child == pc[p] \in Children
      orphan == IF pc[p] = "cloning" THEN "orphanClone" ELSE "orphanFetch"
  IN  /\ pc[p] \notin {"idle"} \cup Orphans
      /\ pc' = [pc EXCEPT ![p] = IF child THEN orphan ELSE "idle"]
      /\ job' = [job EXCEPT ![p] = IF child THEN job[p] ELSE NoJob]
      /\ lock' = IF lock = p /\ ~child THEN None ELSE lock
      /\ UNCHANGED <<disk, inv, remote, claim>>

\* The child of a killed process does its work, or fails.
OrphanEnds(p) ==
  /\ \/ pc[p] = "orphanClone" /\ disk' \in Cloned(p) \cup {disk, [disk EXCEPT !.mirror = "none"]}
     \/ pc[p] = "orphanFetch" /\ disk' \in Fetched(p) \cup {disk}
  /\ pc' = [pc EXCEPT ![p] = "idle"]
  /\ job' = [job EXCEPT ![p] = NoJob]
  /\ lock' = IF lock = p THEN None ELSE lock
  /\ UNCHANGED <<inv, remote, claim>>

\* Recovery of an expired claim, whether or not its process still runs.
Lapse ==
  /\ claim # None
  /\ claim' = None
  /\ inv' = [inv EXCEPT !.reconcile = TRUE]
  /\ UNCHANGED <<disk, remote, lock, pc, job>>

Opens(p) == OpenBusy(p) \/ OpenAbsent(p) \/ OpenSupplied(p) \/ OpenOwned(p)
Fetches(p) == Mark(p) \/ Prepare(p) \/ AdoptMarker(p) \/ AdoptSource(p) \/ AdoptLock(p) \/ Bind(p)
Clones(p) == Clone(p) \/ CloneDone(p) \/ CloneFails(p) \/ Synchronise(p) \/ Complete(p) \/ Unclone(p)
Updates(p) == Update(p) \/ FetchDone(p) \/ Updated(p)
Bundles(p) == \/ Convert(p) \/ Stage(p) \/ Rename(p) \/ Select(p) \/ PublishBundle(p)
              \/ Retire(p) \/ Retiring(p) \/ Unstage(p)
Cleans(p) == CleanMark(p) \/ Clean(p) \/ DropGens(p) \/ CleanRest(p)
Ends(p) == PublishAbsent(p) \/ Publish(p) \/ ErrorPublish(p) \/ Leave(p) \/ Quit(p) \/ Finish(p)

Next ==
  \/ \E p \in Procs :
       \/ \E op \in Operations : Begin(p, op)
       \/ Opens(p) \/ Fetches(p) \/ Clones(p) \/ Updates(p) \/ Bundles(p) \/ Cleans(p) \/ Ends(p)
       \/ Fails(p) \/ Crash(p) \/ OrphanEnds(p)
  \/ RemoteChanges
  \/ Lapse

Spec == Init /\ [][Next]_vars

---------------------------------------------------------------------------
(* Properties *)

\* The newest refs the archive is committed to keep: those of the selected
\* bundle, or of a mirror that is complete or that the user supplied.
Held(d) ==
  IF Bundled(d) THEN d.gens[d.manifest].refs
  ELSE IF d.mirror = "whole" /\ (d.marker \/ d.dir = "supplied") THEN d.content.refs
  ELSE 0

\* What is held is never lost and never goes back to older refs: not by a failed
\* fetch or conversion, by cleanup, by a crash at any step or by a Git child that
\* outlives its process (publication before retirement, inherited locks).
HeldNeverLost == [][Held(disk') >= Held(disk)]_vars

\* What says that the archive is complete is never there without the archive: a
\* completion marker without a manifest means a whole mirror, and a manifest
\* names a bundle that is stored.
CompleteMeansWhole ==
  /\ disk.marker /\ ~Bundled(disk) => disk.mirror = "whole"
  /\ Bundled(disk) => disk.manifest \in Stored(disk)

\* An owned directory that holds anything of an archive is bound to its source,
\* so that no later command can take it for another repository's.
SourceBound == disk.dir = "owned" /\ HasImportState(disk) => disk.source

\* When nothing is running, and no reconciliation is asked for, the inventory
\* says what an observation of the directory would say now.
InventoryTrusted ==
  ~inv.reconcile /\ lock = None /\ claim = None
    /\ disk.dir # "supplied" /\ inv.state # "unknown"
    => inv = Observed(disk, inv.state, inv.format)

\* Whatever cleanup left beside a selected bundle, the next cleanup accepts: the
\* layout check before the mirror's removal does not refuse what is left of it.
LeftoversCleanable ==
  lock = None /\ Bundled(disk) /\ disk.mirror # "none" => FALSE \notin LayoutValid(disk)

=============================================================================
