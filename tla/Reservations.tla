---------------------------- MODULE Reservations ----------------------------
(***************************************************************************)
(* How operations and scans reserve nested directories of one archive root *)
(* (archive_storage.py:36-84 and 277-415).                                 *)
(*                                                                         *)
(* An operation walks down to its directory under the lock of the root,    *)
(* reserving each ancestor shared and its directory exclusively, without   *)
(* ever waiting for a reservation; then it opens or publishes the          *)
(* directory's lock file and releases the root.  A directory that holds    *)
(* something but no lock file is published only after its verification,    *)
(* for which the root is released and taken again.  A scan (audit,         *)
(* clean --all) walks without the root lock.                               *)
(*                                                                         *)
(* Covered: every interleaving of two walks, a crash at any step, and Git  *)
(* children that inherit the reservations of a killed process.  Not        *)
(* covered: what happens inside a directory (module Archive), symbolic     *)
(* links, and removal of directories by the user.                          *)
(***************************************************************************)
EXTENDS Naturals, SequencesExt

CONSTANTS Procs,
          Paths,           \* directories below the root, as sequences of names
          Mirror,          \* the name NAME.git that every container gives to its mirror
          ContainerDepth,  \* least depth of a container: 3 in the code
          MaxCalls,        \* bound: operations and scans of a process
          None

ASSUME ReservationsAssumption ==
  /\ ContainerDepth \in Nat \ {0} /\ MaxCalls \in Nat
  /\ None \notin Procs /\ None \notin Paths
  /\ \A d \in Paths : d \in Seq(ToSet(d)) \ {<<>>} /\ (Len(d) > 1 => Front(d) \in Paths)

VARIABLES dirs,      \* directories that exist
          owned,     \* those with a lock file
          mirrors,   \* those that are mirrors which somebody put there
          root,      \* the process that holds the lock of the root
          pc, kind, target,
          depth,     \* depth[p]: how many components of its target p has reserved
          calls

vars == <<dirs, owned, mirrors, root, pc, kind, target, depth, calls>>

\* fetch creates directories; fetch --adopt and audit --adopt verify and publish what they find;
\* the others open only what is there.  A scan takes no exclusive reservation.
Kinds == {"fetch", "fetchAdopt", "auditAdopt", "open", "scan"}
Creates(p) == kind[p] \in {"fetch", "fetchAdopt"}
Prepares(p) == kind[p] \in {"fetch", "fetchAdopt", "auditAdopt"}
Adopts(p) == kind[p] \in {"fetchAdopt", "auditAdopt"}

-----------------------------------------------------------------------------
(* Directories and reservations *)

Children(d) == {e \in dirs : Len(e) = Len(d) + 1 /\ IsPrefix(d, e)}
Nonempty(d) == d \in owned \/ d \in mirrors \/ Children(d) # {}
Boundary(d) == d \in owned
MirrorOf(d) == Append(d, Mirror)

Related(d, e) == IsPrefix(d, e) \/ IsPrefix(e, d)
Reached(p) == SubSeq(target[p], 1, depth[p])
Entering(p) == SubSeq(target[p], 1, depth[p] + 1)
Final(p) == depth[p] + 1 = Len(target[p])

Reserves(p, d) == /\ pc[p] # "idle" /\ d # <<>> /\ IsPrefix(d, target[p]) /\ Len(d) <= depth[p]
ReservesExclusively(p, d) == Reserves(p, d) /\ d = target[p] /\ kind[p] # "scan"

\* Mutant of Available: ancestors are not reserved, only the directory itself.
AvailableTarget(p, d) ==
  \A q \in Procs \ {p} : ~(Final(p) /\ ReservesExclusively(q, d))

\* Mutant of Available: every reservation is exclusive.
AvailableAlone(p, d) == \A q \in Procs \ {p} : ~Reserves(q, d)

\* flock: exclusive against everything, shared against exclusive.
Available(p, d) ==
  \A q \in Procs \ {p} : /\ ~ReservesExclusively(q, d)
                         /\ Final(p) /\ kind[p] # "scan" => ~Reserves(q, d)

Goto(p, from, to) == pc[p] = from /\ pc' = [pc EXCEPT ![p] = to]

Holding(p) == pc[p] \notin {"idle", "root"}

-----------------------------------------------------------------------------
(* The walk *)

\* An operation first waits for the root lock.
Begin(p, k, d) ==
  /\ Goto(p, "idle", IF k = "scan" THEN "enter" ELSE "root") /\ calls[p] < MaxCalls
  /\ Len(d) >= ContainerDepth \/ k = "scan"
  /\ kind' = [kind EXCEPT ![p] = k] /\ target' = [target EXCEPT ![p] = d]
  /\ depth' = [depth EXCEPT ![p] = 0] /\ calls' = [calls EXCEPT ![p] = @ + 1]
  /\ UNCHANGED <<dirs, owned, mirrors, root>>

LockRoot(p) ==
  /\ Goto(p, "root", "enter") /\ root = None
  /\ root' = p
  /\ UNCHANGED <<dirs, owned, mirrors, kind, target, depth, calls>>

\* Whatever raises an error, or finds nothing to open, releases everything.
Release(p) ==
  /\ pc' = [pc EXCEPT ![p] = "idle"]
  /\ kind' = [kind EXCEPT ![p] = "open"] /\ target' = [target EXCEPT ![p] = <<>>]
  /\ depth' = [depth EXCEPT ![p] = 0]
  /\ root' = IF root = p THEN None ELSE root
  /\ UNCHANGED calls

Exists(p) == Entering(p) \in dirs
Conflict(p) ==
  \/ depth[p] >= ContainerDepth /\ Boundary(Reached(p))
  \/ ~Final(p) /\ depth[p] + 1 >= ContainerDepth /\ Boundary(Entering(p))

\* Mutant of EnterChild: a boundary is looked for only before it is reserved.
EnterChildUnlocked(p) ==
  /\ Goto(p, "enter", "reserve")
  /\ Final(p) \/ depth[p] + 1 < ContainerDepth \/ ~Boundary(Entering(p))
  /\ Exists(p) \/ Creates(p)
  /\ dirs' = dirs \cup {Entering(p)}
  /\ UNCHANGED <<owned, mirrors, root, kind, target, depth, calls>>

\* The next component is opened, or created, unless the walk is inside a container.
EnterChild(p) ==
  /\ Goto(p, "enter", "reserve")
  /\ ~Conflict(p)
  /\ Exists(p) \/ Creates(p)
  /\ dirs' = dirs \cup {Entering(p)}
  /\ UNCHANGED <<owned, mirrors, root, kind, target, depth, calls>>

\* The walk is inside a container, or the directory does not exist.
EnterFails(p) ==
  /\ pc[p] = "enter"
  /\ Conflict(p) \/ ~(Exists(p) \/ Creates(p))
  /\ Release(p)
  /\ UNCHANGED <<dirs, owned, mirrors>>

Reserve(p) ==
  /\ pc[p] = "reserve" /\ Available(p, Entering(p))
  /\ depth' = [depth EXCEPT ![p] = @ + 1]
  /\ pc' = [pc EXCEPT ![p] = IF ~Final(p) THEN "enter"
                             ELSE IF kind[p] = "scan" THEN "scan" ELSE "claim"]
  /\ UNCHANGED <<dirs, owned, mirrors, root, kind, target, calls>>

Busy(p) ==
  /\ pc[p] = "reserve" /\ ~Available(p, Entering(p))
  /\ Release(p)
  /\ UNCHANGED <<dirs, owned, mirrors>>

-----------------------------------------------------------------------------
(* The lock file *)

\* Mutant of ClaimOwned: the root stays locked during the work.
ClaimOwnedRooted(p) ==
  /\ Goto(p, "claim", "work") /\ Boundary(target[p])
  /\ UNCHANGED <<dirs, owned, mirrors, root, kind, target, depth, calls>>

\* A lock file is there: its lock is free, for the directory is reserved exclusively.
ClaimOwned(p) ==
  /\ Goto(p, "claim", "work") /\ Boundary(target[p])
  /\ root' = None
  /\ UNCHANGED <<dirs, owned, mirrors, kind, target, depth, calls>>

\* Mutant of ClaimEmpty: whatever is in the directory.
ClaimAny(p) ==
  /\ Goto(p, "claim", "work") /\ Creates(p) /\ ~Boundary(target[p])
  /\ owned' = owned \cup {target[p]} /\ root' = None
  /\ UNCHANGED <<dirs, mirrors, kind, target, depth, calls>>

\* A new, empty directory gets one.
ClaimEmpty(p) ==
  /\ Goto(p, "claim", "work") /\ Creates(p) /\ ~Nonempty(target[p])
  /\ owned' = owned \cup {target[p]} /\ root' = None
  /\ UNCHANGED <<dirs, mirrors, kind, target, depth, calls>>

\* Mutant of ClaimDeferred: the archive waits for the verification.
ClaimRooted(p) ==
  /\ Goto(p, "claim", "verify")
  /\ Prepares(p) /\ ~Boundary(target[p]) /\ Nonempty(target[p])
  /\ UNCHANGED <<dirs, owned, mirrors, root, kind, target, depth, calls>>

\* Something else is there: it is verified first, and the others go on.
ClaimDeferred(p) ==
  /\ Goto(p, "claim", "verify")
  /\ Prepares(p) /\ ~Boundary(target[p]) /\ Nonempty(target[p])
  /\ root' = None
  /\ UNCHANGED <<dirs, owned, mirrors, kind, target, depth, calls>>

\* There is no lock file to open: the operation is told that there is no repository.
ClaimNothing(p) ==
  /\ Goto(p, "claim", "work")
  /\ ~Creates(p) /\ ~Boundary(target[p])
  /\ Prepares(p) => ~Nonempty(target[p])
  /\ root' = None
  /\ UNCHANGED <<dirs, owned, mirrors, kind, target, depth, calls>>

\* Mutant of Verify: what lies below the mirror is not looked at.
VerifyMirror(p) ==
  /\ Goto(p, "verify", "publish")
  /\ Adopts(p) /\ MirrorOf(target[p]) \in mirrors /\ Children(target[p]) = {MirrorOf(target[p])}
  /\ UNCHANGED <<dirs, owned, mirrors, root, kind, target, depth, calls>>

\* Adoption requires a mirror, nothing beside it and no container below it.
Verify(p) ==
  /\ Goto(p, "verify", "publish")
  /\ Adopts(p) /\ MirrorOf(target[p]) \in mirrors /\ Children(target[p]) = {MirrorOf(target[p])}
  /\ \A c \in owned : ~IsPrefix(target[p], c)
  /\ UNCHANGED <<dirs, owned, mirrors, root, kind, target, depth, calls>>

VerifyFails(p) ==
  /\ pc[p] = "verify"
  /\ Release(p)
  /\ UNCHANGED <<dirs, owned, mirrors>>

LockRootAgain(p) ==
  /\ Goto(p, "publish", "link") /\ root = None
  /\ root' = p
  /\ UNCHANGED <<dirs, owned, mirrors, kind, target, depth, calls>>

PublishLock(p) ==
  /\ Goto(p, "link", "work")
  /\ owned' = owned \cup {target[p]} /\ root' = None
  /\ UNCHANGED <<dirs, mirrors, kind, target, depth, calls>>

-----------------------------------------------------------------------------
(* Work and its end *)

\* A clone creates the mirror of a container; clean and the retirement after a conversion remove it.
Work(p) ==
  /\ pc[p] = "work" /\ target[p] \in owned /\ MirrorOf(target[p]) \in Paths
  /\ \/ Creates(p) /\ dirs' = dirs \cup {MirrorOf(target[p])} /\ UNCHANGED mirrors
     \/ /\ dirs' = {d \in dirs : ~IsPrefix(MirrorOf(target[p]), d)}
        /\ mirrors' = {d \in mirrors : ~IsPrefix(MirrorOf(target[p]), d)}
  /\ UNCHANGED <<owned, root, pc, kind, target, depth, calls>>

Done(p) ==
  /\ pc[p] \in {"work", "scan"}
  /\ Release(p)
  /\ UNCHANGED <<dirs, owned, mirrors>>

\* The deadline, a lost claim or a shutdown ends the wait for the root.
GuardFails(p) ==
  /\ pc[p] \in {"root", "publish"}
  /\ Release(p)
  /\ UNCHANGED <<dirs, owned, mirrors>>

\* A killed process loses everything, but for the reservations that a Git child inherited.
Crash(p) ==
  /\ Holding(p) /\ pc[p] # "orphan"
  /\ Release(p)
  /\ UNCHANGED <<dirs, owned, mirrors>>

\* Mutant of CrashOrphan: the reservations are not inherited.
CrashChildUnlocked(p) ==
  /\ pc[p] \in {"verify", "work"}
  /\ pc' = [pc EXCEPT ![p] = "orphan"] /\ depth' = [depth EXCEPT ![p] = 0]
  /\ UNCHANGED <<dirs, owned, mirrors, root, kind, target, calls>>

CrashOrphan(p) ==
  /\ pc[p] \in {"verify", "work"} /\ kind[p] # "scan"
  /\ pc' = [pc EXCEPT ![p] = "orphan"]
  /\ UNCHANGED <<dirs, owned, mirrors, root, kind, target, depth, calls>>

OrphanEnds(p) ==
  /\ pc[p] = "orphan"
  /\ Release(p)
  /\ UNCHANGED <<dirs, owned, mirrors>>

-----------------------------------------------------------------------------
\* The directories are closed upwards; containers are terminal; somebody may have put a mirror
\* anywhere but into or above a container.
Init ==
  /\ dirs \in {ds \in SUBSET Paths : \A d \in ds : Len(d) > 1 => Front(d) \in ds}
  /\ owned \in SUBSET {d \in dirs : Len(d) >= ContainerDepth}
  /\ \A d \in owned : \A e \in dirs : IsStrictPrefix(d, e) => e = MirrorOf(d) /\ e \notin owned
  /\ mirrors \in SUBSET {d \in dirs : Last(d) = Mirror /\ \A c \in owned : ~Related(c, d)}
  /\ root = None
  /\ pc = [p \in Procs |-> "idle"] /\ kind = [p \in Procs |-> "open"]
  /\ target = [p \in Procs |-> <<>>]
  /\ depth = [p \in Procs |-> 0] /\ calls = [p \in Procs |-> 0]

\* What a process does without the help of Git or of another program.
Step(p) ==
  \/ LockRoot(p) \/ EnterChild(p) \/ EnterFails(p) \/ Reserve(p) \/ Busy(p)
  \/ ClaimOwned(p) \/ ClaimEmpty(p) \/ ClaimDeferred(p) \/ ClaimNothing(p)
  \/ LockRootAgain(p) \/ PublishLock(p)

Next ==
  \E p \in Procs :
    \/ \E k \in Kinds, d \in Paths : Begin(p, k, d)
    \/ Step(p) \/ Verify(p) \/ VerifyFails(p) \/ Work(p) \/ Done(p) \/ GuardFails(p)
    \/ Crash(p) \/ CrashOrphan(p) \/ OrphanEnds(p)

\* Walks go on; the work in a directory, a verification and an orphan need not end.
Fairness == \A p \in Procs : WF_vars(Step(p))

Spec == Init /\ [][Next]_vars /\ Fairness

-----------------------------------------------------------------------------
(* Properties *)

\* The variables have their types; the root is locked exactly in the walk of an operation and while
\* a lock file is published.
TypeOK ==
  /\ dirs \subseteq Paths /\ owned \subseteq dirs /\ mirrors \subseteq dirs
  /\ kind \in [Procs -> Kinds]
  /\ \A p \in Procs :
       /\ depth[p] \in 0..Len(target[p])
       /\ root = p <=> \/ pc[p] \in {"enter", "reserve", "claim"} /\ kind[p] # "scan"
                       \/ pc[p] = "link"

\* Fetching a repository and one below it into the same archive is rejected in either order,
\* simultaneous fetches and adoptions included (docs/guarantees.md:164).
TerminalContainers == \A d, e \in owned : Related(d, e) => d = e

\* While an operation works in a directory, or a Git child it left behind does, nobody works in it,
\* above it or below it.
WorksAlone ==
  \A p, q \in Procs :
    (p # q /\ pc[p] \in {"verify", "publish", "link", "work", "orphan"}
           /\ pc[q] \in {"verify", "publish", "link", "work", "orphan"})
      => ~Related(target[p], target[q])

\* Nothing is read or written below a container: a scan that passed a directory just before it
\* became one notices (docs/guarantees.md:184).
StopsAtBoundaries ==
  \A p \in Procs : pc[p] \in {"claim", "verify", "publish", "link", "work", "scan", "orphan"}
                     => \A c \in owned : ~IsStrictPrefix(c, target[p])

\* Only a directory that is being worked in, or scanned, makes another operation fail as busy, and
\* only one in the same line: siblings go on (docs/guarantees.md:173).
BusyForCause ==
  [][\A p \in Procs :
       Busy(p) => \E q \in Procs \ {p} : Holding(q) /\ Related(target[p], target[q])]_vars

\* Whoever waits for the root gets on, even if a verification or the work of another never ends
\* (docs/guarantees.md:171).
RootPasses == \A p \in Procs : pc[p] \in {"root", "publish"} ~> pc[p] \notin {"root", "publish"}

Inside == [p \in Procs |-> IF /\ pc[p] \in {"claim", "verify", "publish", "link", "work", "orphan"}
                              /\ kind[p] # "scan"
                           THEN target[p] ELSE None]

Abstract == INSTANCE Containers WITH inside <- Inside

\* The walks implement the exclusion that is promised.
ImplementsContainers == Abstract!Spec
=============================================================================
