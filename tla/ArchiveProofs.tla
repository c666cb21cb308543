---------------------------- MODULE ArchiveProofs ----------------------------
(***************************************************************************)
(* The archive keeps what it holds: the inductive invariant of module      *)
(* Archive, and the properties of the directory that follow from it.       *)
(*                                                                         *)
(* Only the process that holds the lock changes the directory, so what the *)
(* directory is like at each step of an operation (Fits) is nobody else's  *)
(* to disturb.  The last part is about the inventory, which jobs whose     *)
(* claims fence each other keep true, or ask to have reconciled.           *)
(***************************************************************************)
EXTENDS Archive, TLAPS

\* The steps under the directory's lock.
Holding == Steps \ {"idle", "mark", "open", "absent", "quit", "finish"}

Adopting == {"adoptMarker", "adoptSource", "adoptLock"}

LockInv == \A p \in Procs : pc[p] \in Holding => lock = p

\* A directory between two steps, when the remote is at version n.
Sound(d, n) ==
  /\ d.dir = "none" => ~HasImportState(d)
  /\ d.dir = "supplied" => d.mirror = "whole" /\ ~Bundled(d)
  /\ d.dir = "owned" /\ HasImportState(d) => d.source
  /\ d.marker /\ ~Bundled(d) => d.mirror = "whole"
  /\ Bundled(d) => d.gens[d.manifest] # Nothing
  /\ d.content.refs <= n
  /\ \A g \in Generations : d.gens[g].refs <= n

\* What it is like when a process that remembers j is about to take step s.
Fits(d, s, j, n) ==
  /\ s \in Holding \ Adopting => d.dir = "owned"
  /\ s \in Adopting => d.dir # "none" /\ d.mirror = "whole" /\ ~Bundled(d)
  /\ s \in {"adoptSource", "adoptLock"} => d.marker
  /\ s = "adoptLock" => d.source
  /\ s \in {"clone", "cloning", "orphanClone"} => d.source /\ ~d.marker /\ ~Bundled(d)
  /\ s \in {"synchronise", "complete"} => d.source /\ d.mirror = "whole" /\ ~Bundled(d)
  /\ s \in {"fetching", "orphanFetch"} => d.content.refs <= j.got
  /\ s \in {"rename", "select"} => d.source
  /\ s = "rename" /\ Bundled(d) => 1 <= j.got /\ j.got <= n /\ d.gens[d.manifest].refs <= j.got
  /\ s = "select" => j.gen \in Stored(d) /\ Held(d) <= d.gens[j.gen].refs
  /\ s \in {"publishBundle", "retire", "retiring"} => Bundled(d)
  /\ s = "dropGens" => ~Bundled(d)

IInv ==
  /\ TypeOK
  /\ 1 <= remote
  /\ Sound(disk, remote)
  /\ LockInv
  /\ \A p \in Procs : Fits(disk, pc[p], job[p], remote)
---------------------------------------------------------------------------
(* Steps in general *)

LEMMA NoneIsNoProcess == None \notin Procs /\ None \notin Generations
BY ArchiveAssumption

\* Outside the lock a process counts on nothing.
LEMMA FitsOutside ==
  ASSUME NEW d, NEW s \in Steps \ Holding, NEW j, NEW n
  PROVE  Fits(d, s, j, n)
BY DEF Fits, Holding, Adopting, Steps, Early, Children, Orphans

\* A process that changes the directory, or the lock, while no other holds it
\* disturbs no other.
LEMMA StepKeeps ==
  ASSUME IInv, NEW p \in Procs,
         disk' \in Disk, inv' \in Inventory, remote' = remote,
         claim' \in Procs \cup {None}, lock' \in Procs \cup {None},
         pc' \in [Procs -> Steps], job' \in [Procs -> Job],
         \A q \in Procs \ {p} : pc'[q] = pc[q] /\ job'[q] = job[q],
         Sound(disk', remote), Fits(disk', pc'[p], job'[p], remote),
         pc'[p] \in Holding => lock' = p,
         lock' = lock \/ lock \in {None, p},
         disk' = disk \/ lock \in {None, p}
  PROVE  IInv'
<1> USE NoneIsNoProcess
<1>1. TypeOK'
  BY DEF IInv, TypeOK
<1>2. 1 <= remote' /\ Sound(disk', remote')
  BY DEF IInv
<1>3. ASSUME NEW q \in Procs, q # p
      PROVE  /\ pc'[q] \in Holding => lock' = q
             /\ Fits(disk', pc'[q], job'[q], remote')
  <2>0. pc[q] \in Steps /\ pc'[q] = pc[q] /\ job'[q] = job[q]
    BY <1>3 DEF IInv, TypeOK
  <2>1. CASE pc[q] \in Holding
    <3>1. lock = q
      BY <2>1 DEF IInv, LockInv
    <3>2. lock' = lock /\ disk' = disk
      BY <3>1, <1>3
    <3>3. Fits(disk, pc[q], job[q], remote)
      BY DEF IInv
    <3> QED
      BY <2>0, <3>1, <3>2, <3>3
  <2>2. CASE pc[q] \notin Holding
    BY <2>0, <2>2, FitsOutside
  <2> QED
    BY <2>1, <2>2
<1>4. LockInv' /\ \A q \in Procs : Fits(disk', pc'[q], job'[q], remote')
  BY <1>3 DEF LockInv
<1> QED
  BY <1>1, <1>2, <1>4 DEF IInv

LEMMA ExitType ==
  ASSUME IInv, NEW p \in Procs
  PROVE  /\ Exit(p) \in {"unclone", "error", "quit"}
         /\ Exit(p) \in Steps
         /\ pc[p] \in Early => Exit(p) = "quit"
BY DEF Exit, Steps, Early

\* An exception leads to a step that asks of the directory only to be owned.
LEMMA ExitFits ==
  ASSUME IInv, NEW p \in Procs, NEW d, NEW j, NEW n, d.dir = "owned" \/ pc[p] \in Early
  PROVE  Fits(d, Exit(p), j, n)
<1>1. CASE pc[p] \in Early
  BY <1>1, ExitType, FitsOutside DEF Holding, Steps
<1>2. CASE d.dir = "owned"
  BY <1>2, ExitType DEF Fits, Adopting
<1> QED
  BY <1>1, <1>2

\* A process under the lock takes a step and goes on, or leaves.
LEMMA LeavesOrGoesOn ==
  ASSUME IInv, NEW p \in Procs, NEW s \in Steps, pc[p] \in Holding,
         pc' = [pc EXCEPT ![p] = s] \/ pc' = [pc EXCEPT ![p] = Exit(p)],
         disk' \in Disk, Sound(disk', remote), Fits(disk', s, job'[p], remote),
         disk'.dir = "owned" \/ pc[p] \in Early,
         job' \in [Procs -> Job], \A q \in Procs \ {p} : job'[q] = job[q],
         inv' \in Inventory, remote' = remote, claim' = claim, lock' = lock
  PROVE  IInv'
<1>1. lock = p /\ lock \in Procs \cup {None} /\ claim \in Procs \cup {None}
  BY DEF IInv, LockInv, TypeOK
<1>2. pc \in [Procs -> Steps]
  BY DEF IInv, TypeOK
<1>3. Exit(p) \in Steps
  BY ExitType
<1>4. /\ pc' \in [Procs -> Steps]
      /\ \A q \in Procs \ {p} : pc'[q] = pc[q]
      /\ pc'[p] \in {s, Exit(p)}
  BY <1>2, <1>3
<1>5. Fits(disk', Exit(p), job'[p], remote)
  BY ExitFits
<1> QED
  BY <1>1, <1>4, <1>5, StepKeeps

LEMMA GotoCases ==
  ASSUME NEW p \in Procs, NEW s, Goto(p, s)
  PROVE  pc' = [pc EXCEPT ![p] = s] \/ pc' = [pc EXCEPT ![p] = Exit(p)]
BY DEF Goto

---------------------------------------------------------------------------
(* Types of what the steps write *)

LEMMA ContentsFacts == Nothing \in Contents /\ Nothing.refs = 0 /\ 0 \in Versions /\ 1 \in Versions
BY ArchiveAssumption DEF Nothing, Contents, Versions

LEMMA ObservedType ==
  ASSUME NEW d \in Disk, inv \in Inventory, NEW f,
         NEW s \in {"unknown", "absent", "ready", "missing", "incomplete"}
  PROVE  Observed(d, s, f) \in Inventory
<1>1. Bundled(d) => d.gens[d.manifest] \in Contents
  BY DEF Bundled, Disk
<1>2. d.content \in Contents /\ inv.format \in {"git", "bundle"}
  BY DEF Disk, Inventory
<1> QED
  BY <1>1, <1>2, ContentsFacts DEF Observed, Inventory, Absent

LEMMA AtStep ==
  ASSUME IInv, NEW p \in Procs
  PROVE  /\ disk \in Disk /\ inv \in Inventory /\ remote \in Versions /\ remote \in Nat /\ 1 <= remote
         /\ pc[p] \in Steps /\ job[p] \in Job /\ job[p].got \in Nat
         /\ pc \in [Procs -> Steps] /\ job \in [Procs -> Job]
         /\ claim \in Procs \cup {None} /\ lock \in Procs \cup {None}
         /\ Sound(disk, remote) /\ Fits(disk, pc[p], job[p], remote)
         /\ pc[p] \in Holding => lock = p
         /\ Publication(p) \in Inventory
<1>1. Publication(p) \in Inventory
  <2>1. disk \in Disk /\ inv \in Inventory /\ job[p] \in Job
    BY DEF IInv, TypeOK
  <2> QED
    BY <2>1, ObservedType DEF Publication, Job
<1> QED
  BY <1>1 DEF IInv, TypeOK, LockInv, Versions, Job

\* The numbers that Held compares.
LEMMA HeldType ==
  ASSUME NEW d \in Disk
  PROVE  /\ Held(d) \in Nat /\ d.content.refs \in Nat
         /\ \A g \in Generations : d.gens[g] \in Contents /\ d.gens[g].refs \in Nat
BY DEF Held, Disk, Bundled, Contents, Versions

---------------------------------------------------------------------------
(* The steps, and what they keep *)

LEMMA AdoptSteps ==
  ASSUME IInv, NEW p \in Procs, AdoptMarker(p) \/ AdoptSource(p) \/ AdoptLock(p)
  PROVE  IInv' /\ Held(disk') >= Held(disk)
<1> USE AtStep, HeldType
<1>1. CASE AdoptMarker(p)
  <2>1. /\ pc[p] = "adoptMarker" /\ disk' = [disk EXCEPT !.marker = TRUE]
        /\ pc' = [pc EXCEPT ![p] = "adoptSource"]
        /\ UNCHANGED <<inv, remote, claim, lock, job>>
    BY <1>1 DEF AdoptMarker, Continues
  <2>2. pc[p] \in Holding /\ pc[p] \in Early /\ "adoptSource" \in Steps
    BY <2>1 DEF Holding, Steps, Early
  <2>3. disk' \in Disk /\ Sound(disk', remote) /\ Fits(disk', "adoptSource", job'[p], remote)
    BY <2>1 DEF Disk, Sound, Fits, Holding, Adopting, HasImportState, Bundled, Stored
  <2>4. Held(disk') >= Held(disk)
    BY <2>1 DEF Held, Bundled, Disk
  <2> QED
    BY <2>1, <2>2, <2>3, <2>4, LeavesOrGoesOn
<1>2. CASE AdoptSource(p)
  <2>1. /\ pc[p] = "adoptSource" /\ disk' = [disk EXCEPT !.source = TRUE]
        /\ Goto(p, "adoptLock")
        /\ UNCHANGED <<inv, remote, claim, lock, job>>
    BY <1>2 DEF AdoptSource, Disks
  <2>2. pc[p] \in Holding /\ pc[p] \in Early /\ "adoptLock" \in Steps
    BY <2>1 DEF Holding, Steps, Early
  <2>3. disk' \in Disk /\ Sound(disk', remote) /\ Fits(disk', "adoptLock", job'[p], remote)
    BY <2>1 DEF Disk, Sound, Fits, Holding, Adopting, HasImportState, Bundled, Stored
  <2>4. Held(disk') >= Held(disk)
    BY <2>1 DEF Held, Bundled, Disk
  <2> QED
    BY <2>1, <2>2, <2>3, <2>4, LeavesOrGoesOn, GotoCases
<1>3. CASE AdoptLock(p)
  <2>1. /\ pc[p] = "adoptLock" /\ disk' = [disk EXCEPT !.dir = "owned"]
        /\ Goto(p, "bind")
        /\ UNCHANGED <<inv, remote, claim, lock, job>>
    BY <1>3 DEF AdoptLock, Disks
  <2>2. pc[p] \in Holding /\ pc[p] \in Early /\ "bind" \in Steps
    BY <2>1 DEF Holding, Steps, Early
  <2>3. disk' \in Disk /\ Sound(disk', remote) /\ Fits(disk', "bind", job'[p], remote)
    BY <2>1 DEF Disk, Sound, Fits, Holding, Adopting, HasImportState, Bundled, Stored
  <2>4. Held(disk') >= Held(disk)
    BY <2>1, <2>2 DEF Held, Bundled, Disk, Fits, Adopting
  <2> QED
    BY <2>1, <2>2, <2>3, <2>4, LeavesOrGoesOn, GotoCases
<1> QED
  BY <1>1, <1>2, <1>3

LEMMA PrepareStep ==
  ASSUME IInv, NEW p \in Procs, Prepare(p)
  PROVE  IInv' /\ disk' = disk
<1> USE AtStep
<1>1. /\ pc[p] = "prepare" /\ UNCHANGED <<disk, inv, remote, claim, lock, job>>
      /\ \/ Goto(p, "quit")
         \/ Goto(p, "bind")
         \/ Goto(p, "adoptMarker") /\ disk.mirror = "whole" /\ ~Bundled(disk)
  BY DEF Prepare
<1>2. pc[p] \in Holding /\ pc[p] \in Early /\ {"quit", "bind", "adoptMarker"} \subseteq Steps
  BY <1>1 DEF Holding, Steps, Early
<1>3. disk.dir = "owned"
  BY <1>1, <1>2 DEF Fits, Adopting
<1>4. Fits(disk, "quit", job[p], remote) /\ Fits(disk, "bind", job[p], remote)
  BY <1>3 DEF Fits, Adopting, Holding, Steps
<1>5. disk.mirror = "whole" /\ ~Bundled(disk) => Fits(disk, "adoptMarker", job[p], remote)
  BY <1>3 DEF Fits, Adopting, Holding, Steps
<1> QED
  BY <1>1, <1>2, <1>4, <1>5, LeavesOrGoesOn, GotoCases

\* A process that reads its row again.
LEMMA RowRead ==
  ASSUME IInv, NEW p \in Procs,
         job' = [job EXCEPT ![p].state = inv.state, ![p].format = inv.format]
  PROVE  job' \in [Procs -> Job] /\ \A q \in Procs \ {p} : job'[q] = job[q]
<1> DEFINE j == [job[p] EXCEPT !.state = inv.state, !.format = inv.format]
<1>1. job \in [Procs -> Job] /\ inv \in Inventory
  BY AtStep
<1>2. j \in Job
  BY <1>1 DEF Job, Inventory
<1>3. job' = [job EXCEPT ![p] = j]
  BY <1>1
<1> HIDE DEF j
<1> QED
  BY <1>1, <1>2, <1>3

LEMMA BindStep ==
  ASSUME IInv, NEW p \in Procs, Bind(p)
  PROVE  IInv' /\ Held(disk') = Held(disk)
<1> USE AtStep
<1>1. /\ pc[p] = "bind" /\ disk' = [disk EXCEPT !.source = TRUE]
      /\ job' = [job EXCEPT ![p].state = inv.state, ![p].format = inv.format]
      /\ \/ Goto(p, "stage")
         \/ Goto(p, "error")
         \/ Goto(p, "update")
         \/ Goto(p, "clone") /\ ~Bundled(disk) /\ ~disk.marker
      /\ UNCHANGED <<inv, remote, claim, lock>>
  BY DEF Bind
<1>2. pc[p] \in Holding /\ pc[p] \in Early /\ {"stage", "error", "update", "clone"} \subseteq Steps
  BY <1>1 DEF Holding, Steps, Early
<1>3. disk.dir = "owned"
  BY <1>1, <1>2 DEF Fits, Adopting
<1>4. disk' \in Disk /\ Sound(disk', remote) /\ disk'.source
  BY <1>1, <1>3 DEF Disk, Sound, HasImportState, Bundled, Stored
<1>5. job' \in [Procs -> Job] /\ \A q \in Procs \ {p} : job'[q] = job[q]
  BY <1>1, RowRead
<1>6. /\ disk'.dir = "owned" /\ disk'.marker = disk.marker /\ Bundled(disk') = Bundled(disk)
      /\ Held(disk') = Held(disk)
  BY <1>1, <1>3 DEF Disk, Bundled, Held
<1>7. /\ Fits(disk', "stage", job'[p], remote) /\ Fits(disk', "error", job'[p], remote)
      /\ Fits(disk', "update", job'[p], remote)
      /\ ~Bundled(disk) /\ ~disk.marker => Fits(disk', "clone", job'[p], remote)
  BY <1>4, <1>6 DEF Fits, Adopting
<1> QED
  BY <1>1, <1>2, <1>4, <1>5, <1>6, <1>7, LeavesOrGoesOn, GotoCases

LEMMA PartsKeep ==
  ASSUME NEW d \in Disk, NEW n \in Nat, Sound(d, n), d.dir = "owned", d.source,
         ~d.marker \/ Bundled(d), NEW e \in Parts(d)
  PROVE  /\ e \in Disk /\ Sound(e, n) /\ e.dir = "owned" /\ e.source
         /\ e.marker = d.marker /\ Bundled(e) = Bundled(d) /\ Held(e) = Held(d)
<1>1. PICK m \in {"partial", "whole"} : e = [d EXCEPT !.mirror = m, !.content = Nothing]
  BY DEF Parts
<1>2. e \in Disk
  BY <1>1, ContentsFacts DEF Disk
<1> QED
  BY <1>1, <1>2, ContentsFacts DEF Disk, Sound, HasImportState, Bundled, Stored, Held

LEMMA RemovedKeeps ==
  ASSUME NEW d \in Disk, NEW n \in Nat, Sound(d, n), d.dir = "owned", d.source,
         ~d.marker \/ Bundled(d), NEW e \in MirrorRemoved(d)
  PROVE  /\ e \in Disk /\ Sound(e, n) /\ e.dir = "owned" /\ e.source
         /\ e.marker = d.marker /\ Bundled(e) = Bundled(d) /\ Held(e) = Held(d)
<1>1. CASE d.mirror = "whole"
  BY <1>1, PartsKeep DEF MirrorRemoved
<1>2. CASE d.mirror # "whole"
  <2>1. e = [d EXCEPT !.mirror = "none"]
    BY <1>2 DEF MirrorRemoved
  <2> QED
    BY <2>1, <1>2 DEF Disk, Sound, HasImportState, Bundled, Stored, Held
<1> QED
  BY <1>1, <1>2

\* A Git child fetches into a mirror that knows no more than the child was offered.
LEMMA FetchedKeeps ==
  ASSUME IInv, NEW p \in Procs, disk.content.refs <= job[p].got, NEW e \in Fetched(p)
  PROVE  /\ e \in Disk /\ Sound(e, remote) /\ e.dir = disk.dir /\ Held(e) >= Held(disk)
<1> USE AtStep, HeldType
<1>1. PICK v \in job[p].got .. remote : e = [disk EXCEPT !.content.refs = v]
  BY DEF Fetched
<1>2. v \in Versions /\ v <= remote /\ disk.content.refs <= v
  <2>1. /\ job[p].got \in Nat /\ remote \in Nat /\ remote <= MaxVersion /\ MaxVersion \in Nat
        /\ disk.content.refs \in Nat
    BY ArchiveAssumption DEF Versions
  <2>2. v \in Nat /\ v <= remote /\ v <= MaxVersion
    BY <2>1
  <2> QED
    BY <2>1, <2>2 DEF Versions
<1>3. e \in Disk /\ e.content.refs = v
  BY <1>1, <1>2 DEF Disk, Contents
<1>4. Sound(e, remote) /\ e.dir = disk.dir
  BY <1>1, <1>2, <1>3 DEF Disk, Sound, HasImportState, Bundled, Stored
<1>5. Held(e) = Held(disk) \/ (Held(e) = v /\ Held(disk) = disk.content.refs)
  <2>1. /\ e.dir = disk.dir /\ e.mirror = disk.mirror /\ e.marker = disk.marker
        /\ e.gens = disk.gens /\ e.manifest = disk.manifest
    BY <1>1 DEF Disk
  <2> QED
    BY <1>3, <2>1 DEF Bundled, Held
<1>6. Held(e) >= Held(disk)
  BY <1>2, <1>3, <1>5
<1> QED
  BY <1>3, <1>4, <1>6

\* A Git child clones where nothing is held.
LEMMA ClonedKeeps ==
  ASSUME IInv, NEW p \in Procs, disk.dir = "owned", disk.source, ~disk.marker, ~Bundled(disk),
         NEW e \in Cloned(p)
  PROVE  /\ e \in Disk /\ Sound(e, remote) /\ e.dir = "owned" /\ e.source
         /\ e.mirror = "whole" /\ ~Bundled(e) /\ Held(e) >= Held(disk)
<1> USE AtStep, HeldType
<1>1. PICK v \in job[p].got .. remote :
        e = [disk EXCEPT !.mirror = "whole", !.content = [refs |-> v, head |-> 0]]
  BY DEF Cloned
<1>2. v \in Versions /\ v <= remote /\ [refs |-> v, head |-> 0] \in Contents
  <2>1. job[p].got \in Nat /\ remote \in Nat /\ remote <= MaxVersion /\ MaxVersion \in Nat
    BY ArchiveAssumption DEF Versions
  <2>2. v \in Nat /\ v <= remote /\ v <= MaxVersion
    BY <2>1
  <2> QED
    BY <2>1, <2>2 DEF Versions, Contents
<1>3. e \in Disk
  BY <1>1, <1>2 DEF Disk
<1>4. /\ Sound(e, remote) /\ e.dir = "owned" /\ e.source /\ e.mirror = "whole" /\ ~Bundled(e)
      /\ Held(disk) = 0
  BY <1>1, <1>2 DEF Disk, Sound, HasImportState, Bundled, Stored, Held
<1>5. Held(e) >= Held(disk)
  BY <1>3, <1>4
<1> QED
  BY <1>3, <1>4, <1>5

LEMMA CloneSteps ==
  ASSUME IInv, NEW p \in Procs, Clones(p)
  PROVE  IInv' /\ Held(disk') >= Held(disk)
<1> USE AtStep, HeldType
<1>0. Held(disk) \in Nat /\ Held(disk) >= Held(disk)
  OBVIOUS
<1>1. CASE Clone(p)
  <2>1. /\ pc[p] = "clone" /\ disk' \in {disk} \cup Parts(disk)
        /\ job' = [job EXCEPT ![p].got = remote]
        /\ pc' = [pc EXCEPT ![p] = "cloning"]
        /\ UNCHANGED <<inv, remote, claim, lock>>
    BY <1>1 DEF Clone
  <2>2. pc[p] \in Holding /\ "cloning" \in Steps
    BY <2>1 DEF Holding, Steps, Early, Children
  <2>3. disk.dir = "owned" /\ disk.source /\ ~disk.marker /\ ~Bundled(disk)
    BY <2>1, <2>2 DEF Fits, Adopting
  <2>4. /\ disk' \in Disk /\ Sound(disk', remote) /\ disk'.dir = "owned" /\ disk'.source
        /\ ~disk'.marker /\ ~Bundled(disk') /\ Held(disk') = Held(disk)
    BY <2>1, <2>3, PartsKeep
  <2>5. Fits(disk', "cloning", job'[p], remote)
    BY <2>4 DEF Fits, Adopting
  <2>6. job' \in [Procs -> Job] /\ \A q \in Procs \ {p} : job'[q] = job[q]
    BY <2>1 DEF Job
  <2> QED
    BY <1>0, <2>1, <2>2, <2>4, <2>5, <2>6, LeavesOrGoesOn
<1>2. CASE CloneDone(p)
  <2>1. /\ pc[p] = "cloning" /\ disk' \in Cloned(p) /\ Goto(p, "synchronise")
        /\ UNCHANGED <<inv, remote, claim, lock, job>>
    BY <1>2 DEF CloneDone
  <2>2. pc[p] \in Holding /\ "synchronise" \in Steps
    BY <2>1 DEF Holding, Steps, Early, Children
  <2>3. disk.dir = "owned" /\ disk.source /\ ~disk.marker /\ ~Bundled(disk)
    BY <2>1, <2>2 DEF Fits, Adopting
  <2>4. /\ disk' \in Disk /\ Sound(disk', remote) /\ disk'.dir = "owned" /\ disk'.source
        /\ disk'.mirror = "whole" /\ ~Bundled(disk') /\ Held(disk') >= Held(disk)
    BY <2>1, <2>3, ClonedKeeps
  <2>5. Fits(disk', "synchronise", job'[p], remote)
    BY <2>4 DEF Fits, Adopting
  <2> QED
    BY <2>1, <2>2, <2>4, <2>5, LeavesOrGoesOn, GotoCases
<1>3. CASE CloneFails(p)
  <2>1. /\ pc[p] = "cloning" /\ pc' = [pc EXCEPT ![p] = "unclone"]
        /\ UNCHANGED <<disk, inv, remote, claim, lock, job>>
    BY <1>3 DEF CloneFails
  <2>2. pc[p] \in Holding /\ "unclone" \in Steps
    BY <2>1 DEF Holding, Steps, Early, Children
  <2>3. disk.dir = "owned" /\ Fits(disk, "unclone", job[p], remote)
    BY <2>1, <2>2 DEF Fits, Adopting
  <2> QED
    BY <1>0, <2>1, <2>2, <2>3, LeavesOrGoesOn
<1>4. CASE Synchronise(p)
  <2>1. /\ pc[p] = "synchronise" /\ disk' = [disk EXCEPT !.content.head = remote]
        /\ Goto(p, "complete") /\ UNCHANGED <<inv, remote, claim, lock, job>>
    BY <1>4 DEF Synchronise, Disks
  <2>2. pc[p] \in Holding /\ "complete" \in Steps
    BY <2>1 DEF Holding, Steps, Early
  <2>3. disk.dir = "owned" /\ disk.source /\ disk.mirror = "whole" /\ ~Bundled(disk)
    BY <2>1, <2>2 DEF Fits, Adopting
  <2>4. disk' \in Disk /\ disk'.content.refs = disk.content.refs
    BY <2>1 DEF Disk, Contents
  <2>5. /\ Sound(disk', remote) /\ Fits(disk', "complete", job'[p], remote)
        /\ disk'.dir = "owned" /\ Held(disk') = Held(disk)
    BY <2>1, <2>3, <2>4 DEF Disk, Sound, Fits, Adopting, HasImportState, Bundled, Stored, Held
  <2> QED
    BY <1>0, <2>1, <2>2, <2>4, <2>5, LeavesOrGoesOn, GotoCases
<1>5. CASE Complete(p)
  <2>1. /\ pc[p] = "complete" /\ disk' = [disk EXCEPT !.marker = TRUE]
        /\ Goto(p, "publish") /\ UNCHANGED <<inv, remote, claim, lock, job>>
    BY <1>5 DEF Complete, Disks
  <2>2. pc[p] \in Holding /\ "publish" \in Steps
    BY <2>1 DEF Holding, Steps, Early
  <2>3. disk.dir = "owned" /\ disk.source /\ disk.mirror = "whole" /\ ~Bundled(disk)
    BY <2>1, <2>2 DEF Fits, Adopting
  <2>4. /\ disk' \in Disk /\ Sound(disk', remote) /\ Fits(disk', "publish", job'[p], remote)
        /\ disk'.dir = "owned"
    BY <2>1, <2>3 DEF Disk, Sound, Fits, Adopting, HasImportState, Bundled, Stored
  <2>5. Held(disk) \in {0, Held(disk')}
    BY <2>1, <2>3 DEF Disk, Bundled, Held
  <2>6. Held(disk') >= Held(disk)
    BY <2>4, <2>5
  <2> QED
    BY <2>1, <2>2, <2>4, <2>6, LeavesOrGoesOn, GotoCases
<1>6. CASE Unclone(p)
  <2>1. /\ pc[p] = "unclone" /\ UNCHANGED <<inv, remote, claim, lock, job>>
        /\ \/ disk' = disk /\ pc' = [pc EXCEPT ![p] = "error"]
           \/ ~disk.marker /\ disk.mirror # "none" /\ disk' \in MirrorRemoved(disk) /\ pc' = pc
    BY <1>6 DEF Unclone
  <2>2. pc[p] \in Holding /\ "error" \in Steps /\ "unclone" \in Steps
    BY <2>1 DEF Holding, Steps, Early, Children
  <2>3. disk.dir = "owned"
    BY <2>1, <2>2 DEF Fits, Adopting
  <2>4. /\ disk' \in Disk /\ Sound(disk', remote) /\ disk'.dir = "owned" /\ Held(disk') = Held(disk)
    BY <2>1, <2>3, RemovedKeeps DEF Sound, HasImportState
  <2>5. Fits(disk', "error", job'[p], remote) /\ Fits(disk', "unclone", job'[p], remote)
    BY <2>4 DEF Fits, Adopting
  <2>6. pc' = [pc EXCEPT ![p] = "error"] \/ pc' = [pc EXCEPT ![p] = "unclone"]
    BY <2>1
  <2> QED
    BY <1>0, <2>1, <2>2, <2>4, <2>5, <2>6, LeavesOrGoesOn
<1> QED
  BY <1>1, <1>2, <1>3, <1>4, <1>5, <1>6 DEF Clones

\* A process that asks the remote remembers what it advertised.
LEMMA Asked ==
  ASSUME IInv, NEW p \in Procs, job' = [job EXCEPT ![p].got = remote]
  PROVE  job' \in [Procs -> Job] /\ job'[p].got = remote /\ \A q \in Procs \ {p} : job'[q] = job[q]
<1> DEFINE j == [job[p] EXCEPT !.got = remote]
<1>1. job \in [Procs -> Job] /\ remote \in Versions
  BY AtStep
<1>2. j \in Job /\ j.got = remote
  BY <1>1 DEF Job
<1>3. job' = [job EXCEPT ![p] = j]
  BY <1>1
<1> HIDE DEF j
<1> QED
  BY <1>1, <1>2, <1>3

LEMMA UpdateSteps ==
  ASSUME IInv, NEW p \in Procs, Updates(p)
  PROVE  IInv' /\ Held(disk') >= Held(disk)
<1> USE AtStep, HeldType
<1>0. Held(disk) \in Nat /\ Held(disk) >= Held(disk)
  OBVIOUS
<1>1. CASE Update(p)
  <2>1. /\ pc[p] = "update" /\ disk' = disk /\ job' = [job EXCEPT ![p].got = remote]
        /\ Goto(p, "fetching") /\ UNCHANGED <<inv, remote, claim, lock>>
    BY <1>1 DEF Update
  <2>2. pc[p] \in Holding /\ "fetching" \in Steps
    BY <2>1 DEF Holding, Steps, Early, Children
  <2>3. disk.dir = "owned"
    BY <2>1, <2>2 DEF Fits, Adopting
  <2>4. job' \in [Procs -> Job] /\ job'[p].got = remote /\ \A q \in Procs \ {p} : job'[q] = job[q]
    BY <2>1, Asked
  <2>5. disk.content.refs <= remote
    BY DEF Sound
  <2>6. Fits(disk, "fetching", job'[p], remote)
    BY <2>3, <2>4, <2>5 DEF Fits, Adopting
  <2> QED
    BY <1>0, <2>1, <2>2, <2>3, <2>4, <2>6, LeavesOrGoesOn, GotoCases
<1>2. CASE FetchDone(p)
  <2>1. /\ pc[p] = "fetching" /\ disk' \in Fetched(p) /\ Goto(p, "updated")
        /\ UNCHANGED <<inv, remote, claim, lock, job>>
    BY <1>2 DEF FetchDone
  <2>2. pc[p] \in Holding /\ "updated" \in Steps
    BY <2>1 DEF Holding, Steps, Early, Children
  <2>3. disk.dir = "owned" /\ disk.content.refs <= job[p].got
    BY <2>1, <2>2 DEF Fits, Adopting
  <2>4. disk' \in Disk /\ Sound(disk', remote) /\ disk'.dir = "owned" /\ Held(disk') >= Held(disk)
    BY <2>1, <2>3, FetchedKeeps
  <2>5. Fits(disk', "updated", job'[p], remote)
    BY <2>4 DEF Fits, Adopting
  <2> QED
    BY <2>1, <2>2, <2>4, <2>5, LeavesOrGoesOn, GotoCases
<1>3. CASE Updated(p)
  <2>1. /\ pc[p] = "updated" /\ disk' = [disk EXCEPT !.content.head = remote]
        /\ Goto(p, "publish") /\ UNCHANGED <<inv, remote, claim, lock, job>>
    BY <1>3 DEF Updated, Disks
  <2>2. pc[p] \in Holding /\ "publish" \in Steps
    BY <2>1 DEF Holding, Steps, Early
  <2>3. disk.dir = "owned"
    BY <2>1, <2>2 DEF Fits, Adopting
  <2>4. disk' \in Disk /\ disk'.content.refs = disk.content.refs
    BY <2>1 DEF Disk, Contents
  <2>5. /\ Sound(disk', remote) /\ Fits(disk', "publish", job'[p], remote)
        /\ disk'.dir = "owned" /\ Held(disk') = Held(disk)
    BY <2>1, <2>3, <2>4 DEF Disk, Sound, Fits, Adopting, HasImportState, Bundled, Stored, Held
  <2> QED
    BY <1>0, <2>1, <2>2, <2>4, <2>5, LeavesOrGoesOn, GotoCases
<1> QED
  BY <1>1, <1>2, <1>3 DEF Updates

\* A write to the index leaves the directory alone.
LEMMA WriteKeeps ==
  ASSUME IInv, NEW p \in Procs, NEW from \in Holding, NEW s \in Steps, NEW row \in Inventory,
         Writes(p, from, row, s), from \notin Early, Fits(disk, s, job[p], remote)
  PROVE  IInv' /\ disk' = disk
<1>1. /\ pc[p] = from /\ Goto(p, s) /\ UNCHANGED <<disk, remote, claim, lock, job>>
      /\ inv' \in {row, inv}
  BY DEF Writes
<1>2. disk.dir = "owned"
  <2>1. from \notin Adopting /\ Fits(disk, from, job[p], remote)
    BY <1>1, AtStep DEF Early, Adopting
  <2> QED
    BY <2>1 DEF Fits
<1> QED
  BY <1>1, <1>2, AtStep, LeavesOrGoesOn, GotoCases

LEMMA ConvertStage ==
  ASSUME IInv, NEW p \in Procs, Convert(p) \/ Stage(p)
  PROVE  IInv' /\ Held(disk') = Held(disk)
<1> USE AtStep
<1>1. CASE Convert(p)
  <2>1. /\ pc[p] = "convert"
        /\ Writes(p, "convert", [inv EXCEPT !.reconcile = TRUE], "stage")
    BY <1>1 DEF Convert, Writes
  <2>2. "convert" \in Holding /\ "convert" \notin Early /\ "stage" \in Steps
    BY DEF Holding, Steps, Early
  <2>3. disk.dir = "owned" /\ [inv EXCEPT !.reconcile = TRUE] \in Inventory
    BY <2>1, <2>2 DEF Fits, Adopting, Early, Inventory
  <2>4. Fits(disk, "stage", job[p], remote)
    BY <2>1, <2>3 DEF Fits, Adopting
  <2> QED
    BY <2>1, <2>2, <2>3, <2>4, WriteKeeps
<1>2. CASE Stage(p)
  <2>1. /\ pc[p] = "stage" /\ disk.source
        /\ disk' = [disk EXCEPT !.staging = TRUE]
        /\ job' = [job EXCEPT ![p].got = remote]
        /\ \/ Goto(p, "publishBundle") /\ Bundled(disk)
           \/ Goto(p, "rename")
        /\ UNCHANGED <<inv, remote, claim, lock>>
    BY <1>2 DEF Stage
  <2>2. pc[p] \in Holding /\ {"publishBundle", "rename"} \subseteq Steps
    BY <2>1 DEF Holding, Steps, Early
  <2>3. disk.dir = "owned" /\ disk.source
    BY <2>1, <2>2 DEF Fits, Adopting
  <2>4. /\ disk' \in Disk /\ Sound(disk', remote) /\ disk'.dir = "owned" /\ disk'.source
        /\ Bundled(disk') = Bundled(disk) /\ Held(disk') = Held(disk)
    BY <2>1, <2>3 DEF Disk, Sound, HasImportState, Bundled, Stored, Held
  <2>5. job' \in [Procs -> Job] /\ job'[p].got = remote /\ \A q \in Procs \ {p} : job'[q] = job[q]
    BY <2>1, Asked
  <2>6. Bundled(disk') => disk'.gens[disk'.manifest].refs <= remote
    BY <2>4 DEF Sound, Bundled, Disk
  <2>7. Fits(disk', "rename", job'[p], remote)
    BY <2>4, <2>5, <2>6 DEF Fits, Adopting
  <2>8. Bundled(disk) => Fits(disk', "publishBundle", job'[p], remote)
    BY <2>4 DEF Fits, Adopting
  <2> QED
    BY <2>1, <2>2, <2>4, <2>5, <2>7, <2>8, LeavesOrGoesOn, GotoCases
<1> QED
  BY <1>1, <1>2

\* A new generation is written before anything names it.
LEMMA RenameStep ==
  ASSUME IInv, NEW p \in Procs, Rename(p)
  PROVE  IInv' /\ Held(disk') = Held(disk)
<1> USE AtStep, HeldType
<1> DEFINE c == IF Bundled(disk) THEN [refs |-> job[p].got, head |-> job[p].got] ELSE disk.content
<1>1. PICK g \in Generations \ Stored(disk) :
        /\ disk' = [disk EXCEPT !.gens[g] = c]
        /\ job' = [job EXCEPT ![p].gen = g]
  BY DEF Rename
<1>2. /\ pc[p] = "rename" /\ (Bundled(disk) \/ disk.content # Nothing) /\ Goto(p, "select")
      /\ UNCHANGED <<inv, remote, claim, lock>>
  BY DEF Rename
<1>3. pc[p] \in Holding /\ "select" \in Steps
  BY <1>2 DEF Holding, Steps, Early
<1>4. /\ disk.dir = "owned" /\ disk.source
      /\ Bundled(disk) => 1 <= job[p].got /\ job[p].got <= remote
                          /\ disk.gens[disk.manifest].refs <= job[p].got
  BY <1>2, <1>3 DEF Fits, Adopting
<1>5. c \in Contents /\ c.refs <= remote /\ c # Nothing
  <2>1. CASE Bundled(disk)
    <3>1. job[p].got \in Versions /\ c = [refs |-> job[p].got, head |-> job[p].got]
      BY <2>1 DEF Job
    <3>2. c \in Contents /\ c.refs = job[p].got
      BY <3>1 DEF Contents
    <3>3. c.refs # 0
      BY <3>2, <2>1, <1>4
    <3> QED
      BY <3>2, <3>3, <2>1, <1>4, ContentsFacts
  <2>2. CASE ~Bundled(disk)
    <3>1. c = disk.content
      BY <2>2
    <3> QED
      BY <3>1, <2>2, <1>2 DEF Disk, Sound
  <2> QED
    BY <2>1, <2>2
<1>6. disk.gens[g] = Nothing /\ (Bundled(disk) => disk.manifest # g)
  BY <1>1 DEF Stored, Sound
<1>7. Held(disk) <= c.refs
  <2>1. CASE Bundled(disk)
    BY <2>1, <1>4 DEF Held
  <2>2. CASE ~Bundled(disk)
    <3>1. c.refs \in Nat /\ c = disk.content /\ Held(disk) \in {0, disk.content.refs}
      BY <2>2 DEF Held
    <3> QED
      BY <3>1
  <2> QED
    BY <2>1, <2>2
<1> HIDE DEF c
<1>8. /\ disk' \in Disk /\ disk'.dir = "owned" /\ disk'.source /\ disk'.gens[g] = c
      /\ disk'.mirror = disk.mirror /\ disk'.marker = disk.marker /\ disk'.manifest = disk.manifest
      /\ disk'.content = disk.content /\ \A h \in Generations \ {g} : disk'.gens[h] = disk.gens[h]
  BY <1>1, <1>4, <1>5 DEF Disk
<1>9. Held(disk') = Held(disk)
  BY <1>4, <1>6, <1>8 DEF Held, Bundled, Disk
<1>10. Sound(disk', remote)
  BY <1>5, <1>6, <1>8 DEF Sound, Bundled, Disk
<1>11. /\ job' \in [Procs -> Job] /\ job'[p].gen = g /\ \A q \in Procs \ {p} : job'[q] = job[q]
  <2> DEFINE j == [job[p] EXCEPT !.gen = g]
  <2>1. j \in Job /\ j.gen = g
    BY DEF Job
  <2>2. job' = [job EXCEPT ![p] = j]
    BY <1>1
  <2> HIDE DEF j
  <2> QED
    BY <2>1, <2>2
<1>12. Fits(disk', "select", job'[p], remote)
  BY <1>5, <1>7, <1>8, <1>9, <1>11 DEF Fits, Adopting, Stored
<1> QED
  BY <1>2, <1>3, <1>8, <1>9, <1>10, <1>11, <1>12, LeavesOrGoesOn, GotoCases

\* The manifest names the new generation, which knows no less than what it replaces.
LEMMA SelectStep ==
  ASSUME IInv, NEW p \in Procs, Select(p)
  PROVE  IInv' /\ Held(disk') >= Held(disk)
<1> USE AtStep, HeldType
<1>1. /\ pc[p] = "select" /\ disk' = [disk EXCEPT !.manifest = job[p].gen]
      /\ Goto(p, "publishBundle") /\ UNCHANGED <<inv, remote, claim, lock, job>>
  BY DEF Select, Disks
<1>2. pc[p] \in Holding /\ "publishBundle" \in Steps
  BY <1>1 DEF Holding, Steps, Early
<1>3. /\ disk.dir = "owned" /\ disk.source /\ job[p].gen \in Stored(disk)
      /\ Held(disk) <= disk.gens[job[p].gen].refs
  BY <1>1, <1>2 DEF Fits, Adopting
<1>4. job[p].gen \in Generations /\ job[p].gen # None /\ disk.gens[job[p].gen] # Nothing
  BY <1>3, NoneIsNoProcess DEF Stored
<1>5. /\ disk' \in Disk /\ disk'.dir = "owned" /\ disk'.source /\ disk'.gens = disk.gens
      /\ disk'.manifest = job[p].gen /\ disk'.content = disk.content
  BY <1>1, <1>3, <1>4 DEF Disk
<1>6. Bundled(disk') /\ Held(disk') = disk.gens[job[p].gen].refs
  BY <1>4, <1>5 DEF Bundled, Held
<1>7. Sound(disk', remote) /\ Fits(disk', "publishBundle", job'[p], remote)
  BY <1>4, <1>5, <1>6 DEF Sound, Fits, Adopting
<1> QED
  BY <1>1, <1>2, <1>3, <1>4, <1>5, <1>6, <1>7, LeavesOrGoesOn, GotoCases

LEMMA GenerationDropped ==
  ASSUME NEW d \in Disk, NEW n \in Nat, Sound(d, n), d.dir = "owned",
         NEW g \in Generations, g # d.manifest, NEW e, e = [d EXCEPT !.gens[g] = Nothing]
  PROVE  /\ e \in Disk /\ Sound(e, n) /\ e.dir = "owned" /\ Bundled(e) = Bundled(d)
         /\ Held(e) = Held(d)
<1>1. /\ e.dir = d.dir /\ e.mirror = d.mirror /\ e.marker = d.marker /\ e.source = d.source
      /\ e.manifest = d.manifest /\ e.content = d.content /\ e.staging = d.staging
      /\ e.gens[g] = Nothing /\ \A h \in Generations \ {g} : e.gens[h] = d.gens[h]
  BY DEF Disk
<1>2. e \in Disk
  BY ContentsFacts DEF Disk
<1>3. Stored(e) \subseteq Stored(d) /\ Bundled(e) = Bundled(d)
  BY <1>1 DEF Stored, Bundled
<1>4. Held(e) = Held(d)
  BY <1>1 DEF Held, Bundled, Disk
<1>5. Sound(e, n)
  BY <1>1, <1>3, ContentsFacts DEF Sound, HasImportState, Bundled, Disk
<1> QED
  BY <1>1, <1>2, <1>3, <1>4, <1>5

\* While a bundle is selected, nothing else that is kept beside it matters.
LEMMA RetireSteps ==
  ASSUME IInv, NEW p \in Procs, PublishBundle(p) \/ Retire(p) \/ Retiring(p) \/ Unstage(p)
  PROVE  IInv' /\ Held(disk') = Held(disk)
<1> USE AtStep
<1>1. CASE PublishBundle(p)
  <2>1. pc[p] = "publishBundle" /\ Writes(p, "publishBundle", Publication(p), "retire")
    BY <1>1 DEF PublishBundle, Writes
  <2>2. "publishBundle" \in Holding /\ "publishBundle" \notin Early /\ "retire" \in Steps
    BY DEF Holding, Steps, Early
  <2>3. Fits(disk, "retire", job[p], remote)
    BY <2>1, <2>2 DEF Fits, Adopting
  <2> QED
    BY <2>1, <2>2, <2>3, WriteKeeps
<1>2. CASE Retire(p)
  <2>1. /\ pc[p] = "retire" /\ disk' = disk /\ Goto(p, "retiring")
        /\ UNCHANGED <<inv, remote, claim, lock, job>>
    BY <1>2 DEF Retire, Disks
  <2>2. pc[p] \in Holding /\ "retiring" \in Steps
    BY <2>1 DEF Holding, Steps, Early
  <2>3. disk.dir = "owned" /\ Fits(disk, "retiring", job[p], remote)
    BY <2>1, <2>2 DEF Fits, Adopting
  <2> QED
    BY <2>1, <2>2, <2>3, LeavesOrGoesOn, GotoCases
<1>3. CASE Retiring(p)
  <2>1. PICK d \in IF Stored(disk) \ {disk.manifest} # {}
                   THEN {[disk EXCEPT !.gens[g] = Nothing] : g \in Stored(disk) \ {disk.manifest}}
                   ELSE IF disk.mirror # "none" THEN MirrorRemoved(disk)
                   ELSE {[disk EXCEPT !.marker = FALSE]} :
          Disks(p, "retiring", d, "retiring") \/ Continues(p, "retiring", d, "unstage")
    BY <1>3 DEF Retiring
  <2>2. /\ pc[p] = "retiring" /\ disk' = d
        /\ UNCHANGED <<inv, remote, claim, lock, job>>
        /\ \/ pc' = [pc EXCEPT ![p] = "retiring"]
           \/ pc' = [pc EXCEPT ![p] = Exit(p)]
           \/ pc' = [pc EXCEPT ![p] = "unstage"]
    BY <2>1, GotoCases DEF Disks, Continues
  <2>3. pc[p] \in Holding /\ "retiring" \in Steps /\ "unstage" \in Steps
    BY <2>2 DEF Holding, Steps, Early
  <2>4. disk.dir = "owned" /\ Bundled(disk)
    BY <2>2, <2>3 DEF Fits, Adopting
  <2>5. disk.source
    BY <2>4 DEF Sound, HasImportState
  <2>6. d \in Disk /\ Sound(d, remote) /\ d.dir = "owned" /\ Bundled(d) /\ Held(d) = Held(disk)
    <3>1. CASE \E g \in Stored(disk) \ {disk.manifest} : d = [disk EXCEPT !.gens[g] = Nothing]
      BY <3>1, <2>4, GenerationDropped DEF Stored
    <3>2. CASE d \in MirrorRemoved(disk)
      BY <3>2, <2>4, <2>5, RemovedKeeps
    <3>3. CASE d = [disk EXCEPT !.marker = FALSE]
      BY <3>3, <2>4, <2>5 DEF Disk, Sound, HasImportState, Bundled, Stored, Held
    <3> QED
      BY <2>1, <3>1, <3>2, <3>3
  <2>7. Fits(d, "retiring", job[p], remote) /\ Fits(d, "unstage", job[p], remote)
    BY <2>6 DEF Fits, Adopting
  <2> QED
    BY <2>2, <2>3, <2>6, <2>7, LeavesOrGoesOn
<1>4. CASE Unstage(p)
  <2>1. /\ pc[p] = "unstage" /\ disk' = [disk EXCEPT !.staging = FALSE]
        /\ Goto(p, "cleanRest") \/ Goto(p, "publish") \/ Goto(p, "quit")
        /\ UNCHANGED <<inv, remote, claim, lock, job>>
    BY <1>4 DEF Unstage, Disks
  <2>2. pc[p] \in Holding /\ {"cleanRest", "publish", "quit"} \subseteq Steps
    BY <2>1 DEF Holding, Steps, Early
  <2>3. disk.dir = "owned"
    BY <2>1, <2>2 DEF Fits, Adopting
  <2>4. disk' \in Disk /\ Sound(disk', remote) /\ disk'.dir = "owned" /\ Held(disk') = Held(disk)
    BY <2>1, <2>3 DEF Disk, Sound, HasImportState, Bundled, Stored, Held
  <2>5. \A s \in {"cleanRest", "publish", "quit"} : Fits(disk', s, job'[p], remote)
    BY <2>4 DEF Fits, Adopting
  <2> QED
    BY <2>1, <2>2, <2>4, <2>5, LeavesOrGoesOn, GotoCases
<1> QED
  BY <1>1, <1>2, <1>3, <1>4

LEMMA ReleasedKeeps ==
  ASSUME NEW d \in Disk, NEW n \in Nat, Sound(d, n)
  PROVE  /\ Released(d) \in Disk /\ Sound(Released(d), n) /\ Released(d).dir = d.dir
         /\ Held(Released(d)) = Held(d)
<1> DEFINE e == Released(d)
<1>1. /\ e.dir = d.dir /\ e.mirror = d.mirror /\ e.marker = d.marker
      /\ e.gens = d.gens /\ e.manifest = d.manifest /\ e.content = d.content
      /\ e.staging = d.staging /\ e.source = (d.source /\ HasImportState(d))
  BY DEF Released, Disk
<1>2. e \in Disk
  BY DEF Released, Disk
<1>3. HasImportState(e) = HasImportState(d) /\ Bundled(e) = Bundled(d) /\ Held(e) = Held(d)
  BY <1>1 DEF HasImportState, Bundled, Stored, Held
<1>4. Sound(e, n)
  BY <1>1, <1>3 DEF Sound
<1> QED
  BY <1>1, <1>2, <1>3, <1>4

\* Cleanup removes what no manifest selects and no marker completes.
LEMMA CleanSteps ==
  ASSUME IInv, NEW p \in Procs, Cleans(p)
  PROVE  IInv' /\ Held(disk') = Held(disk)
<1> USE AtStep
<1>1. CASE CleanMark(p)
  <2>1. /\ pc[p] = "cleanMark" /\ disk' = disk
        /\ job' = [job EXCEPT ![p].state = inv.state, ![p].format = inv.format]
        /\ inv' = [inv EXCEPT !.reconcile = TRUE] /\ Goto(p, "clean")
        /\ UNCHANGED <<remote, claim, lock>>
    BY <1>1 DEF CleanMark
  <2>2. pc[p] \in Holding /\ "clean" \in Steps
    BY <2>1 DEF Holding, Steps, Early
  <2>3. disk.dir = "owned" /\ inv' \in Inventory
    BY <2>1, <2>2 DEF Fits, Adopting, Inventory
  <2>4. Fits(disk, "clean", job'[p], remote)
    BY <2>3 DEF Fits, Adopting
  <2> QED
    BY <2>1, <2>2, <2>3, <2>4, RowRead, LeavesOrGoesOn, GotoCases
<1>2. CASE Clean(p)
  <2> DEFINE extra == Bundled(disk) /\ (Stored(disk) # {disk.manifest} \/ disk.mirror # "none"
                                        \/ disk.marker)
  <2>1. /\ pc[p] = "clean" /\ disk' = [disk EXCEPT !.staging = @ \/ extra]
        /\ \/ Goto(p, "retire") /\ Bundled(disk)
           \/ Goto(p, "dropGens") /\ ~Bundled(disk)
           \/ Goto(p, "unstage")
        /\ UNCHANGED <<inv, remote, claim, lock, job>>
    BY <1>2 DEF Clean, Disks
  <2>2. pc[p] \in Holding /\ {"retire", "dropGens", "unstage"} \subseteq Steps
    BY <2>1 DEF Holding, Steps, Early
  <2>3. disk.dir = "owned"
    BY <2>1, <2>2 DEF Fits, Adopting
  <2>4. extra => HasImportState(disk)
    BY DEF HasImportState
  <2>5. extra \in BOOLEAN
    OBVIOUS
  <2> HIDE DEF extra
  <2>6. /\ disk' \in Disk /\ Sound(disk', remote) /\ disk'.dir = "owned"
        /\ Bundled(disk') = Bundled(disk) /\ Held(disk') = Held(disk)
    BY <2>1, <2>3, <2>4, <2>5 DEF Disk, Sound, HasImportState, Bundled, Stored, Held
  <2>7. /\ Bundled(disk) => Fits(disk', "retire", job'[p], remote)
        /\ ~Bundled(disk) => Fits(disk', "dropGens", job'[p], remote)
        /\ Fits(disk', "unstage", job'[p], remote)
    BY <2>6 DEF Fits, Adopting
  <2> QED
    BY <2>1, <2>2, <2>6, <2>7, LeavesOrGoesOn, GotoCases
<1>3. CASE DropGens(p)
  <2>1. PICK g \in Stored(disk) :
          /\ pc[p] = "dropGens" /\ disk' = [disk EXCEPT !.gens[g] = Nothing]
          /\ Goto(p, "unstage") \/ Goto(p, "dropGens")
          /\ UNCHANGED <<inv, remote, claim, lock, job>>
    BY <1>3 DEF DropGens, Disks
  <2>2. pc[p] \in Holding /\ {"dropGens", "unstage"} \subseteq Steps
    BY <2>1 DEF Holding, Steps, Early
  <2>3. disk.dir = "owned" /\ ~Bundled(disk)
    BY <2>1, <2>2 DEF Fits, Adopting
  <2>4. g \in Generations /\ g # disk.manifest
    BY <2>3, NoneIsNoProcess DEF Bundled, Stored
  <2>5. /\ disk' \in Disk /\ Sound(disk', remote) /\ disk'.dir = "owned"
        /\ ~Bundled(disk') /\ Held(disk') = Held(disk)
    BY <2>1, <2>3, <2>4, GenerationDropped
  <2>6. Fits(disk', "dropGens", job'[p], remote) /\ Fits(disk', "unstage", job'[p], remote)
    BY <2>5 DEF Fits, Adopting
  <2> QED
    BY <2>1, <2>2, <2>5, <2>6, LeavesOrGoesOn, GotoCases
<1>4. CASE CleanRest(p)
  <2> DEFINE trimmed == [disk EXCEPT !.marker = @ /\ (disk.mirror # "none" \/ Bundled(disk))]
  <2>1. /\ pc[p] = "cleanRest" /\ UNCHANGED <<inv, remote, claim, lock, job>>
        /\ \/ disk.mirror # "none" /\ ~disk.marker /\ disk' \in MirrorRemoved(disk)
              /\ Goto(p, "cleanRest")
           \/ disk' = Released(trimmed) /\ Goto(p, "publish")
    BY <1>4 DEF CleanRest, Disks
  <2>2. pc[p] \in Holding /\ {"cleanRest", "publish"} \subseteq Steps
    BY <2>1 DEF Holding, Steps, Early
  <2>3. disk.dir = "owned"
    BY <2>1, <2>2 DEF Fits, Adopting
  <2>4. trimmed \in Disk /\ Sound(trimmed, remote) /\ trimmed.dir = "owned" /\ Held(trimmed) = Held(disk)
    BY <2>3 DEF Disk, Sound, HasImportState, Bundled, Stored, Held
  <2> HIDE DEF trimmed
  <2>5. disk' \in Disk /\ Sound(disk', remote) /\ disk'.dir = "owned" /\ Held(disk') = Held(disk)
    <3>1. CASE disk.mirror # "none" /\ ~disk.marker /\ disk' \in MirrorRemoved(disk)
      <4>1. disk.source
        BY <3>1, <2>3 DEF Sound, HasImportState
      <4> QED
        BY <3>1, <4>1, <2>3, RemovedKeeps
    <3>2. CASE disk' = Released(trimmed)
      BY <3>2, <2>4, ReleasedKeeps
    <3> QED
      BY <2>1, <3>1, <3>2
  <2>6. Fits(disk', "cleanRest", job'[p], remote) /\ Fits(disk', "publish", job'[p], remote)
    BY <2>5 DEF Fits, Adopting
  <2> QED
    BY <2>1, <2>2, <2>5, <2>6, LeavesOrGoesOn, GotoCases
<1> QED
  BY <1>1, <1>2, <1>3, <1>4 DEF Cleans

\* A process takes the lock that nobody holds.
LEMMA OpensLock ==
  ASSUME IInv, NEW p \in Procs, NEW s \in Steps, pc[p] = "open", lock = None, lock' = p,
         Goto(p, s), disk' \in Disk, Sound(disk', remote), Fits(disk', s, job[p], remote),
         inv' \in Inventory, UNCHANGED <<remote, claim, job>>
  PROVE  IInv'
<1> USE AtStep
<1>1. Exit(p) = "quit" /\ "quit" \in Steps
  BY ExitType DEF Early
<1>2. Fits(disk', "quit", job[p], remote)
  BY <1>1, FitsOutside DEF Holding
<1>3. /\ pc' \in [Procs -> Steps] /\ pc'[p] \in {s, "quit"}
      /\ \A q \in Procs \ {p} : pc'[q] = pc[q]
  BY <1>1, GotoCases
<1> QED
  BY <1>2, <1>3, StepKeeps

\* Outside the lock a process changes no directory.
LEMMA MovesOutside ==
  ASSUME IInv, NEW p \in Procs, NEW s \in Steps \ Holding,
         pc' = [pc EXCEPT ![p] = s], inv' \in Inventory, claim' \in Procs \cup {None},
         lock' = lock \/ (lock = p /\ lock' = None),
         job' \in [Procs -> Job], \A q \in Procs \ {p} : job'[q] = job[q],
         UNCHANGED <<disk, remote>>
  PROVE  IInv'
<1> USE AtStep
<1>1. Fits(disk', s, job'[p], remote)
  BY FitsOutside
<1>2. /\ pc' \in [Procs -> Steps] /\ pc'[p] = s /\ \A q \in Procs \ {p} : pc'[q] = pc[q]
  OBVIOUS
<1> QED
  BY <1>1, <1>2, StepKeeps

LEMMA OpenSteps ==
  ASSUME IInv, NEW p \in Procs, Opens(p)
  PROVE  IInv' /\ Held(disk') >= Held(disk)
<1> USE AtStep, HeldType
<1>0. /\ Held(disk) \in Nat /\ Held(disk) >= Held(disk)
      /\ {"finish", "absent"} \subseteq Steps \ Holding
      /\ {"bind", "adoptMarker", "prepare", "convert", "cleanMark", "publish"} \subseteq Steps
  BY DEF Holding, Steps, Early
<1>1. CASE OpenBusy(p)
  BY <1>0, <1>1, MovesOutside DEF OpenBusy
<1>2. CASE OpenAbsent(p)
  <2>1. /\ pc[p] = "open" /\ lock = None /\ disk.dir = "none" /\ UNCHANGED <<inv, remote, claim, job>>
        /\ \/ disk' = [disk EXCEPT !.dir = "owned"] /\ lock' = p /\ Goto(p, "bind")
           \/ disk' = disk /\ lock' = lock
              /\ pc' \in {[pc EXCEPT ![p] = s] : s \in {"absent", "finish"}}
    BY <1>2 DEF OpenAbsent
  <2>2. CASE disk' = [disk EXCEPT !.dir = "owned"] /\ lock' = p /\ Goto(p, "bind")
    <3>1. ~HasImportState(disk)
      BY <2>1 DEF Sound
    <3>2. disk' \in Disk /\ Sound(disk', remote) /\ Held(disk') = Held(disk)
      BY <2>1, <2>2, <3>1 DEF Disk, Sound, HasImportState, Bundled, Stored, Held
    <3>3. Fits(disk', "bind", job[p], remote)
      BY <2>2 DEF Fits, Adopting, Disk
    <3> QED
      BY <1>0, <2>1, <2>2, <3>2, <3>3, OpensLock
  <2>3. CASE disk' = disk /\ lock' = lock
             /\ pc' \in {[pc EXCEPT ![p] = s] : s \in {"absent", "finish"}}
    BY <1>0, <2>1, <2>3, MovesOutside
  <2> QED
    BY <2>1, <2>2, <2>3
<1>3. CASE OpenSupplied(p)
  <2>1. /\ pc[p] = "open" /\ lock = None /\ disk.dir = "supplied"
        /\ \/ lock' = p /\ Goto(p, "adoptMarker")
           \/ lock' = lock /\ pc' = [pc EXCEPT ![p] = "finish"]
        /\ inv' \in {inv, [inv EXCEPT !.state = "incomplete", !.reconcile = TRUE]}
        /\ UNCHANGED <<disk, remote, claim, job>>
    BY <1>3 DEF OpenSupplied
  <2>2. inv' \in Inventory
    BY <2>1 DEF Inventory
  <2>3. Fits(disk, "adoptMarker", job[p], remote)
    BY <2>1 DEF Fits, Adopting, Sound
  <2> QED
    BY <1>0, <2>1, <2>2, <2>3, OpensLock, MovesOutside
<1>4. CASE OpenOwned(p)
  <2>1. /\ pc[p] = "open" /\ lock = None /\ disk.dir = "owned" /\ lock' = p
        /\ \E s \in {"prepare", "convert", "cleanMark", "publish"} : Goto(p, s)
        /\ UNCHANGED <<disk, inv, remote, claim, job>>
    BY <1>4 DEF OpenOwned
  <2>2. \A s \in {"prepare", "convert", "cleanMark", "publish"} : Fits(disk, s, job[p], remote)
    BY <2>1 DEF Fits, Adopting
  <2> QED
    BY <1>0, <2>1, <2>2, OpensLock
<1> QED
  BY <1>1, <1>2, <1>3, <1>4 DEF Opens

LEMMA EndSteps ==
  ASSUME IInv, NEW p \in Procs, Ends(p)
  PROVE  IInv' /\ Held(disk') = Held(disk)
<1> USE AtStep
<1>0. /\ {"finish", "quit", "idle"} \subseteq Steps \ Holding /\ {"leave", "quit"} \subseteq Steps
      /\ {"publish", "error", "leave"} \subseteq Holding \ Early
  BY DEF Holding, Steps, Early
<1>1. CASE PublishAbsent(p)
  <2>1. /\ pc[p] = "absent" /\ UNCHANGED <<disk, remote, claim, lock, job>>
        /\ inv' \in {inv, [inv EXCEPT !.state = Absent(job[p].state), !.seen = Nothing,
                                      !.reconcile = FALSE]}
        /\ Goto(p, "finish")
    BY <1>1 DEF PublishAbsent, Writes
  <2>2. inv' \in Inventory
    BY <2>1, ContentsFacts DEF Inventory, Absent
  <2>3. Exit(p) = "quit"
    BY <2>1, ExitType DEF Early
  <2> QED
    BY <1>0, <2>1, <2>2, <2>3, GotoCases, MovesOutside
<1>2. CASE Publish(p)
  <2>1. PICK s \in {"leave", "quit"} : Writes(p, "publish", Publication(p), s) /\ pc[p] = "publish"
    BY <1>2 DEF Publish, Writes
  <2>2. Fits(disk, s, job[p], remote)
    BY <1>0, <2>1 DEF Fits, Adopting
  <2> QED
    BY <1>0, <2>1, <2>2, WriteKeeps
<1>3. CASE ErrorPublish(p)
  <2>1. /\ pc[p] = "error" /\ inv' \in {inv, Publication(p)} /\ pc' = [pc EXCEPT ![p] = "leave"]
        /\ UNCHANGED <<disk, remote, claim, lock, job>>
    BY <1>3 DEF ErrorPublish
  <2>2. disk.dir = "owned" /\ Fits(disk, "leave", job[p], remote)
    BY <1>0, <2>1 DEF Fits, Adopting
  <2> QED
    BY <1>0, <2>1, <2>2, LeavesOrGoesOn
<1>4. CASE Leave(p)
  <2>1. /\ pc[p] = "leave" /\ disk' = Released(disk) /\ pc' = [pc EXCEPT ![p] = "quit"]
        /\ UNCHANGED <<inv, remote, claim, lock, job>>
    BY <1>4 DEF Leave
  <2>2. disk.dir = "owned"
    BY <1>0, <2>1 DEF Fits, Adopting
  <2>3. disk' \in Disk /\ Sound(disk', remote) /\ disk'.dir = "owned" /\ Held(disk') = Held(disk)
    BY <2>1, <2>2, ReleasedKeeps
  <2>4. Fits(disk', "quit", job'[p], remote)
    BY <1>0, FitsOutside
  <2> QED
    BY <1>0, <2>1, <2>3, <2>4, LeavesOrGoesOn
<1>5. CASE Quit(p)
  <2>1. /\ pc' = [pc EXCEPT ![p] = "finish"] /\ UNCHANGED <<disk, inv, remote, claim, job>>
        /\ lock' = lock \/ (lock = p /\ lock' = None)
    BY <1>5 DEF Quit
  <2> QED
    BY <1>0, <2>1, MovesOutside
<1>6. CASE Finish(p)
  <2>1. /\ pc' = [pc EXCEPT ![p] = "idle"] /\ job' = [job EXCEPT ![p] = NoJob]
        /\ claim' \in {claim, None} /\ UNCHANGED <<disk, remote, lock>>
        /\ inv' \in {[inv EXCEPT !.reconcile = @ \/ b] : b \in BOOLEAN}
    BY <1>6 DEF Finish
  <2>2. inv' \in Inventory /\ job' \in [Procs -> Job]
    BY <2>1, ContentsFacts DEF Inventory, Job, NoJob
  <2> QED
    BY <1>0, <2>1, <2>2, MovesOutside
<1> QED
  BY <1>1, <1>2, <1>3, <1>4, <1>5, <1>6 DEF Ends

LEMMA BeginAndMark ==
  ASSUME IInv, NEW p \in Procs, Mark(p) \/ \E op \in Operations : Begin(p, op)
  PROVE  IInv' /\ disk' = disk
<1> USE AtStep
<1>0. {"mark", "open", "quit"} \subseteq Steps \ Holding
  BY DEF Holding, Steps, Early
<1>1. CASE Mark(p)
  <2>1. /\ pc[p] = "mark" /\ Goto(p, "open") /\ UNCHANGED <<disk, remote, claim, lock, job>>
        /\ inv' \in {inv, [inv EXCEPT !.reconcile = TRUE]}
    BY <1>1 DEF Mark, Writes
  <2>2. inv' \in Inventory /\ Exit(p) = "quit"
    BY <2>1, ExitType DEF Inventory, Early
  <2> QED
    BY <1>0, <2>1, <2>2, GotoCases, MovesOutside
<1>2. CASE \E op \in Operations : Begin(p, op)
  <2>1. PICK op \in Operations : Begin(p, op)
    BY <1>2
  <2> DEFINE j == [NoJob EXCEPT !.op = op, !.state = inv.state, !.format = inv.format]
  <2>2. j \in Job
    BY ArchiveAssumption, ContentsFacts DEF Job, NoJob, Inventory
  <2>3. job' = [job EXCEPT ![p] = j]
    BY <2>1 DEF Begin
  <2> HIDE DEF j
  <2>4. job' \in [Procs -> Job] /\ \A q \in Procs \ {p} : job'[q] = job[q]
    BY <2>2, <2>3
  <2>5. /\ claim' \in {claim, p} /\ UNCHANGED <<disk, inv, remote, lock>>
        /\ \E s \in {"mark", "open"} : pc' = [pc EXCEPT ![p] = s]
    BY <2>1 DEF Begin
  <2> QED
    BY <1>0, <2>4, <2>5, MovesOutside
<1> QED
  BY <1>1, <1>2

\* Whatever is being done may fail, and the directory stays as it is.
LEMMA FailStep ==
  ASSUME IInv, NEW p \in Procs, Fails(p)
  PROVE  IInv' /\ disk' = disk
<1> USE AtStep
<1>1. /\ pc[p] \in Holding /\ pc' = [pc EXCEPT ![p] = Exit(p)]
      /\ UNCHANGED <<disk, inv, remote, claim, lock, job>>
  BY DEF Fails, Holding
<1>2. disk.dir = "owned" \/ pc[p] \in Early
  BY <1>1 DEF Fits, Adopting, Early
<1>3. Fits(disk, Exit(p), job[p], remote) /\ Exit(p) \in Steps
  BY <1>2, ExitFits, ExitType
<1> QED
  BY <1>1, <1>2, <1>3, LeavesOrGoesOn

\* A killed process leaves its lock to the Git child it started, or to nobody.
LEMMA CrashSteps ==
  ASSUME IInv, NEW p \in Procs, Crash(p) \/ OrphanEnds(p)
  PROVE  IInv' /\ Held(disk') >= Held(disk)
<1> USE AtStep, HeldType
<1>0. /\ Held(disk) \in Nat /\ Held(disk) >= Held(disk)
      /\ "idle" \in Steps \ Holding /\ Orphans \subseteq Steps /\ Children \cup Orphans \subseteq Holding
      /\ NoJob \in Job
  BY ContentsFacts DEF Holding, Steps, Children, Orphans, Job, NoJob
<1>1. CASE Crash(p) /\ pc[p] \notin Children
  <2>1. /\ pc' = [pc EXCEPT ![p] = "idle"] /\ job' = [job EXCEPT ![p] = NoJob]
        /\ lock' = lock \/ (lock = p /\ lock' = None)
        /\ UNCHANGED <<disk, inv, remote, claim>>
    BY <1>1 DEF Crash
  <2>2. job' \in [Procs -> Job] /\ \A q \in Procs \ {p} : job'[q] = job[q]
    BY <1>0, <2>1
  <2> QED
    BY <1>0, <2>1, <2>2, MovesOutside
<1>2. CASE Crash(p) /\ pc[p] \in Children
  <2>1. /\ UNCHANGED <<disk, inv, remote, claim, lock>> /\ job' = [job EXCEPT ![p] = job[p]]
        /\ \/ pc[p] = "cloning" /\ pc' = [pc EXCEPT ![p] = "orphanClone"]
           \/ pc[p] = "fetching" /\ pc' = [pc EXCEPT ![p] = "orphanFetch"]
    BY <1>2 DEF Crash, Children
  <2>2. job' = job
    BY <2>1
  <2>3. disk.dir = "owned"
    BY <1>0, <1>2 DEF Fits, Adopting, Children
  <2>4. /\ pc[p] = "cloning" => Fits(disk, "orphanClone", job[p], remote)
        /\ pc[p] = "fetching" => Fits(disk, "orphanFetch", job[p], remote)
    BY <2>3 DEF Fits, Adopting
  <2> QED
    BY <1>0, <1>2, <2>1, <2>2, <2>3, <2>4, LeavesOrGoesOn DEF Orphans
<1>3. CASE OrphanEnds(p)
  <2>1. /\ pc[p] \in Orphans /\ pc' = [pc EXCEPT ![p] = "idle"] /\ job' = [job EXCEPT ![p] = NoJob]
        /\ lock' = (IF lock = p THEN None ELSE lock) /\ UNCHANGED <<inv, remote, claim>>
    BY <1>3 DEF OrphanEnds, Orphans
  <2>2. lock = p /\ lock' = None
    BY <1>0, <2>1
  <2>3. /\ disk' \in Disk /\ Sound(disk', remote) /\ Held(disk') >= Held(disk)
    <3>1. CASE pc[p] = "orphanClone"
      <4>1. disk.dir = "owned" /\ disk.source /\ ~disk.marker /\ ~Bundled(disk)
        BY <1>0, <3>1 DEF Fits, Adopting, Orphans
      <4>2. disk' \in Cloned(p) \/ disk' = disk \/ disk' = [disk EXCEPT !.mirror = "none"]
        BY <1>3, <3>1 DEF OrphanEnds
      <4>3. CASE disk' = [disk EXCEPT !.mirror = "none"]
        <5>1. /\ disk' \in Disk /\ Sound(disk', remote) /\ Held(disk') = Held(disk)
          BY <4>1, <4>3 DEF Disk, Sound, HasImportState, Bundled, Stored, Held
        <5> QED
          BY <1>0, <5>1
      <4> QED
        BY <1>0, <4>1, <4>2, <4>3, ClonedKeeps
    <3>2. CASE pc[p] = "orphanFetch"
      <4>1. disk' \in Fetched(p) \cup {disk}
        BY <1>3, <3>2 DEF OrphanEnds
      <4>2. disk.content.refs <= job[p].got
        BY <3>2 DEF Fits
      <4> QED
        BY <1>0, <4>1, <4>2, FetchedKeeps
    <3> QED
      BY <2>1, <3>1, <3>2 DEF Orphans
  <2>4. /\ job' \in [Procs -> Job] /\ pc' \in [Procs -> Steps] /\ pc'[p] = "idle"
        /\ \A q \in Procs \ {p} : job'[q] = job[q] /\ pc'[q] = pc[q]
    BY <1>0, <2>1
  <2>5. Fits(disk', pc'[p], job'[p], remote)
    BY <1>0, <2>4, FitsOutside
  <2> QED
    BY <1>0, <2>1, <2>2, <2>3, <2>4, <2>5, StepKeeps
<1> QED
  BY <1>1, <1>2, <1>3

LEMMA EnvironmentSteps ==
  ASSUME IInv, RemoteChanges \/ Lapse
  PROVE  IInv' /\ disk' = disk
<1>1. CASE RemoteChanges
  <2>1. /\ remote' = remote + 1 /\ remote < MaxVersion
        /\ UNCHANGED <<disk, inv, claim, lock, pc, job>>
    BY <1>1 DEF RemoteChanges
  <2>2. remote \in Nat /\ 1 <= remote /\ disk \in Disk /\ job \in [Procs -> Job]
    BY DEF IInv, TypeOK, Versions
  <2>3. remote' \in Versions /\ 1 <= remote'
    BY <2>1, <2>2, ArchiveAssumption DEF Versions
  <2>4. \A k \in Nat : k <= remote => k <= remote'
    BY <2>1, <2>2
  <2>5. Sound(disk', remote')
    BY <2>1, <2>2, <2>4, HeldType DEF IInv, Sound
  <2>6. ASSUME NEW p \in Procs
        PROVE  Fits(disk', pc'[p], job'[p], remote')
    <3>1. Fits(disk, pc[p], job[p], remote) /\ job[p].got \in Nat
      BY <2>2 DEF IInv, Job, Versions
    <3> QED
      BY <2>1, <2>4, <3>1 DEF Fits
  <2> QED
    BY <2>1, <2>3, <2>5, <2>6 DEF IInv, TypeOK, LockInv
<1>2. CASE Lapse
  <2>1. /\ claim' = None /\ inv' = [inv EXCEPT !.reconcile = TRUE]
        /\ UNCHANGED <<disk, remote, lock, pc, job>>
    BY <1>2 DEF Lapse
  <2>2. inv' \in Inventory
    BY <2>1 DEF IInv, TypeOK, Inventory
  <2> QED
    BY <2>1, <2>2 DEF IInv, TypeOK, LockInv
<1> QED
  BY <1>1, <1>2

---------------------------------------------------------------------------
(* The invariant and what follows from it *)

LEMMA InitHolds == Init => IInv
<1> SUFFICES ASSUME Init PROVE IInv
  OBVIOUS
<1>1. remote = 1 /\ 1 \in Versions /\ remote \in Nat
  BY ContentsFacts DEF Init
<1>2. \A p \in Procs : pc[p] = "idle" /\ "idle" \in Steps \ Holding
  BY DEF Init, Holding, Steps
<1>3. PICK supplied \in {FALSE, Suppliable} :
        disk = [dir |-> IF supplied THEN "supplied" ELSE "none",
                mirror |-> IF supplied THEN "whole" ELSE "none",
                content |-> IF supplied THEN [refs |-> 1, head |-> 1] ELSE Nothing,
                marker |-> FALSE, source |-> FALSE, staging |-> FALSE,
                gens |-> [g \in Generations |-> Nothing], manifest |-> None]
  BY DEF Init
<1>4. supplied \in BOOLEAN
  BY ArchiveAssumption
<1>5. disk \in Disk
  BY <1>1, <1>3, <1>4, ContentsFacts DEF Disk, Contents
<1>6. Sound(disk, remote)
  BY <1>1, <1>3, <1>4, ContentsFacts DEF Sound, HasImportState, Bundled, Stored
<1>7. TypeOK
  BY <1>1, <1>2, <1>5, ContentsFacts DEF Init, TypeOK, Inventory, Job, NoJob
<1> QED
  BY <1>1, <1>2, <1>6, <1>7, FitsOutside DEF IInv, LockInv

\* Every step keeps the invariant and loses nothing that is held.
LEMMA StepHolds ==
  ASSUME IInv, [Next]_vars
  PROVE  IInv' /\ Held(disk') >= Held(disk)
<1> USE AtStep, HeldType
<1>0. Held(disk) \in Nat /\ Held(disk) >= Held(disk)
  BY DEF IInv, TypeOK
<1>1. CASE UNCHANGED vars
  BY <1>0, <1>1 DEF vars, IInv, TypeOK, LockInv
<1>2. ASSUME NEW p \in Procs,
             \/ \E op \in Operations : Begin(p, op)
             \/ Opens(p) \/ Fetches(p) \/ Clones(p) \/ Updates(p) \/ Bundles(p) \/ Cleans(p)
             \/ Ends(p) \/ Fails(p) \/ Crash(p) \/ OrphanEnds(p)
      PROVE  IInv' /\ Held(disk') >= Held(disk)
  <2>1. CASE Mark(p) \/ \E op \in Operations : Begin(p, op)
    BY <1>0, <2>1, BeginAndMark
  <2>2. CASE Fetches(p) /\ ~Mark(p)
    BY <1>0, <2>2, PrepareStep, AdoptSteps, BindStep DEF Fetches
  <2>3. CASE Bundles(p)
    BY <1>0, <2>3, ConvertStage, RenameStep, SelectStep, RetireSteps DEF Bundles
  <2>4. CASE Opens(p) \/ Clones(p) \/ Updates(p)
    BY <2>4, OpenSteps, CloneSteps, UpdateSteps
  <2>5. CASE Cleans(p) \/ Ends(p)
    BY <1>0, <2>5, CleanSteps, EndSteps
  <2>6. CASE Fails(p) \/ Crash(p) \/ OrphanEnds(p)
    BY <1>0, <2>6, FailStep, CrashSteps
  <2> QED
    BY <1>2, <2>1, <2>2, <2>3, <2>4, <2>5, <2>6 DEF Fetches
<1>3. CASE RemoteChanges \/ Lapse
  BY <1>0, <1>3, EnvironmentSteps
<1> QED
  BY <1>1, <1>2, <1>3 DEF Next

\* The inductive invariant: types, a sound directory, mutual exclusion under the
\* lock, and at every step of an operation the directory the step counts on.
THEOREM ArchiveInvariant == Spec => []IInv
<1>1. IInv /\ [Next]_vars => IInv'
  BY StepHolds
<1> QED
  BY <1>1, InitHolds, PTL DEF Spec

\* No operation, crash or lost claim takes the archive out of its types.
THEOREM ArchiveTypes == Spec => []TypeOK
<1>1. IInv => TypeOK
  BY DEF IInv
<1> QED
  BY <1>1, ArchiveInvariant, PTL

\* A marker or a manifest is never there without the archive it vouches for,
\* however many processes, generations and versions there are.
THEOREM CompleteMeansWholeAlways == Spec => []CompleteMeansWhole
<1>1. IInv => CompleteMeansWhole
  <2> SUFFICES ASSUME IInv PROVE CompleteMeansWhole
    OBVIOUS
  <2>1. disk.manifest \in Generations \cup {None} /\ Sound(disk, remote)
    BY DEF IInv, TypeOK, Disk
  <2> QED
    BY <2>1 DEF Sound, CompleteMeansWhole, Stored, Bundled
<1> QED
  BY <1>1, ArchiveInvariant, PTL

\* Whatever an owned directory holds of an archive, it is bound to its source.
THEOREM SourceBoundAlways == Spec => []SourceBound
<1>1. IInv => SourceBound
  BY DEF IInv, Sound, SourceBound
<1> QED
  BY <1>1, ArchiveInvariant, PTL

\* The refs an archive holds never go back, whatever fails and whoever is killed.
THEOREM HeldNeverLostAlways == Spec => HeldNeverLost
<1>1. IInv /\ [Next]_vars => [Held(disk') >= Held(disk)]_vars
  BY StepHolds
<1> QED
  BY <1>1, ArchiveInvariant, PTL DEF Spec, HeldNeverLost

\* Two processes are never both between opening the directory and leaving it.
THEOREM OneUnderLock ==
  Spec => [](\A p, q \in Procs : pc[p] \in Holding /\ pc[q] \in Holding => p = q)
<1>1. IInv => \A p, q \in Procs : pc[p] \in Holding /\ pc[q] \in Holding => p = q
  BY DEF IInv, LockInv
<1> QED
  BY <1>1, ArchiveInvariant, PTL

---------------------------------------------------------------------------
(* What the inventory says, when every operation is a claimed job          *)

\* The inventory says what an observation of the directory would say.
Reports ==
  disk.dir # "supplied" /\ inv.state # "unknown" => inv = Observed(disk, inv.state, inv.format)

Cleaning == {"cleanMark", "clean", "dropGens", "cleanRest"}

\* The steps where a process has not begun to change what is observed, or where
\* what it changes has been published, or will be.
Calm == {"idle", "mark", "open", "absent", "convert", "retire", "retiring", "unstage",
         "publish", "error", "leave", "quit", "finish"}

\* A fetch that may still go on has asked for reconciliation before it opens.
Unmarked(s, j, c, p) == s = "open" /\ j.op \in {"fetch", "adopt"} /\ c = p

\* At each step, only jobs; a bundle's format is never known without a manifest.
OnlyJobs ==
  /\ inv.format = "bundle" => Bundled(disk)
  /\ \A p \in Procs : /\ pc[p] = "idle" \/ job[p].op \in Jobs
                      /\ pc[p] \notin Cleaning
                      /\ job[p].format = "bundle" => Bundled(disk)
                      /\ pc[p] = "unstage" => Bundled(disk)

\* Whoever is about to publish that there is nothing is right: a lapsed fetch may
\* have created the directory since, but goes no further.
NothingThere ==
  \A p \in Procs : pc[p] = "absent" /\ claim = p =>
    /\ ~HasImportState(disk) /\ disk.dir # "supplied"
    /\ \A q \in Procs : pc[q] \notin Holding

\* Unless reconciliation is asked for, the inventory is true and nobody is at a
\* step that could make it false.
Told ==
  ~inv.reconcile =>
    /\ Reports
    /\ \A p \in Procs : pc[p] \in Calm /\ ~Unmarked(pc[p], job[p], claim, p)

Trust == OnlyJobs /\ NothingThere /\ Told

\* Two directories that an observation cannot tell apart.
Alike(d, e) ==
  /\ e.dir = "supplied" <=> d.dir = "supplied"
  /\ \/ e = d
     \/ ~HasImportState(d) /\ ~HasImportState(e)
     \/ /\ Bundled(d) /\ e.manifest = d.manifest
        /\ e.gens[d.manifest] = d.gens[d.manifest] /\ e.source = d.source

LEMMA AlikeReports ==
  ASSUME Reports, Alike(disk, disk'), inv' = inv
  PROVE  Reports'
<1>1. CASE disk' = disk
  BY <1>1 DEF Reports, Observed, Absent, Bundled, Stored
<1>2. CASE ~HasImportState(disk) /\ ~HasImportState(disk')
  BY <1>2 DEF Alike, Reports, Observed, Absent, HasImportState, Bundled
<1>3. CASE /\ Bundled(disk) /\ disk'.manifest = disk.manifest
           /\ disk'.gens[disk.manifest] = disk.gens[disk.manifest] /\ disk'.source = disk.source
  BY <1>3 DEF Alike, Reports, Observed, Bundled
<1> QED BY <1>1, <1>2, <1>3 DEF Alike

\* What is published is what an observation would say again.
LEMMA PublicationReports ==
  ASSUME IInv, OnlyJobs, NEW p \in Procs, inv' = Publication(p), disk' = disk
  PROVE  Reports' /\ ~inv'.reconcile /\ (inv'.format = "bundle" => Bundled(disk'))
<1>1. inv \in Inventory /\ inv.format \in {"git", "bundle"}
  BY DEF IInv, TypeOK, Inventory
<1>2. CASE Bundled(disk)
  BY <1>2 DEF Publication, Reports, Observed, Bundled
<1>3. CASE ~Bundled(disk)
  <2>1. job[p].format # "bundle" /\ inv.format = "git"
    BY <1>1, <1>3 DEF OnlyJobs
  <2> QED BY <1>3, <2>1 DEF Publication, Reports, Observed, Absent, Bundled, Stored
<1> QED BY <1>2, <1>3

\* A step of process p keeps the trust if what it writes is true, or if
\* reconciliation is asked for after it.
LEMMA TrustStep ==
  ASSUME IInv, Trust, NEW p \in Procs,
         \A q \in Procs \ {p} : /\ pc'[q] = pc[q] /\ job'[q] = job[q]
                                /\ claim' = q => claim = q,
         pc'[p] = "idle" \/ job'[p].op \in Jobs,
         pc'[p] \notin Cleaning,
         Bundled(disk) => Bundled(disk'),
         inv'.format = "bundle" => Bundled(disk'),
         job'[p].format = "bundle" => Bundled(disk'),
         pc'[p] = "unstage" => Bundled(disk'),
         pc'[p] = "absent" => /\ ~HasImportState(disk') /\ disk'.dir # "supplied"
                              /\ \A q \in Procs : pc'[q] \notin Holding,
         \/ pc[p] \in Holding
         \/ pc'[p] \notin Holding /\ (disk' = disk \/ (~HasImportState(disk') /\ disk'.dir = "owned"))
         \/ claim = p,
         \/ inv'.reconcile
         \/ /\ Reports'
            /\ pc'[p] \in Calm /\ ~Unmarked(pc'[p], job'[p], claim', p)
            /\ \A q \in Procs \ {p} : pc[q] \in Calm /\ ~Unmarked(pc[q], job[q], claim, q)
  PROVE  Trust'
<1>1. OnlyJobs'
  BY DEF Trust, OnlyJobs
<1>2. NothingThere'
  <2> SUFFICES ASSUME NEW q \in Procs, pc'[q] = "absent", claim' = q
               PROVE  /\ ~HasImportState(disk') /\ disk'.dir # "supplied"
                      /\ \A o \in Procs : pc'[o] \notin Holding
    BY DEF NothingThere
  <2>1. CASE q = p
    BY <2>1
  <2>2. CASE q # p
    <3>1. pc[q] = "absent" /\ claim = q
      BY <2>2
    <3>2. /\ ~HasImportState(disk) /\ disk.dir # "supplied"
          /\ \A o \in Procs : pc[o] \notin Holding
      BY <3>1 DEF Trust, NothingThere
    <3>3. pc'[p] \notin Holding /\ (disk' = disk \/ (~HasImportState(disk') /\ disk'.dir = "owned"))
      BY <2>2, <3>1, <3>2
    <3>4. ~HasImportState(disk') /\ disk'.dir # "supplied"
      BY <3>2, <3>3
    <3> QED BY <3>2, <3>3, <3>4
  <2> QED BY <2>1, <2>2
<1>3. Told'
  <2> SUFFICES ASSUME ~inv'.reconcile
               PROVE  /\ Reports'
                      /\ \A q \in Procs : pc'[q] \in Calm /\ ~Unmarked(pc'[q], job'[q], claim', q)
    BY DEF Told, Unmarked
  <2> QED BY DEF Unmarked
<1> QED BY <1>1, <1>2, <1>3 DEF Trust

\* At a step that is not calm, reconciliation has been asked for: whatever such
\* a step does to the directory, the inventory claims nothing.
LEMMA RestlessStep ==
  ASSUME IInv, Trust, NEW p \in Procs, pc[p] \in Holding \ Calm,
         NEW s \in Steps \ (Cleaning \cup {"absent", "unstage"}),
         pc' = [pc EXCEPT ![p] = s] \/ pc' = [pc EXCEPT ![p] = Exit(p)],
         job' \in [Procs -> Job], \A q \in Procs \ {p} : job'[q] = job[q],
         pc'[p] = "idle" \/ job'[p].op = job[p].op,
         job'[p].format \in {"git", job[p].format, inv.format},
         Bundled(disk) => Bundled(disk'), inv' = inv, claim' = claim
  PROVE  Trust'
<1>1. inv.reconcile
  BY DEF Trust, Told
<1>2. pc[p] # "idle" /\ pc \in [Procs -> Steps]
  BY DEF Calm, IInv, TypeOK
<1>3. /\ pc'[p] \in {s, Exit(p)} /\ \A q \in Procs \ {p} : pc'[q] = pc[q]
  BY <1>2
<1>4. pc'[p] \notin Cleaning /\ pc'[p] # "absent" /\ pc'[p] # "unstage"
  BY <1>3, ExitType DEF Cleaning
<1>5. job[p].op \in Jobs
  BY <1>2 DEF Trust, OnlyJobs
<1>6. /\ inv.format = "bundle" => Bundled(disk')
      /\ job'[p].format = "bundle" => Bundled(disk')
  BY DEF Trust, OnlyJobs
<1>7. pc'[p] = "idle" \/ job'[p].op \in Jobs
  BY <1>5
<1> QED BY <1>1, <1>3, <1>4, <1>6, <1>7, TrustStep

LEMMA ManifestKept ==
  ASSUME IInv, NEW p \in Procs, NEW d \in Fetched(p) \cup Cloned(p) \cup Parts(disk) \cup MirrorRemoved(disk)
  PROVE  Bundled(d) <=> Bundled(disk)
<1>1. disk \in Disk
  BY DEF IInv, TypeOK
<1>2. d.manifest = disk.manifest
  BY <1>1 DEF Fetched, Cloned, Parts, MirrorRemoved, Disk
<1> QED BY <1>2 DEF Bundled

\* Asking the remote leaves the rest of what a process remembers as it was.
LEMMA AskedJob ==
  ASSUME IInv, NEW p \in Procs, job' \in {job, [job EXCEPT ![p].got = remote]}
  PROVE  /\ job' \in [Procs -> Job] /\ \A q \in Procs \ {p} : job'[q] = job[q]
         /\ job'[p].op = job[p].op /\ job'[p].format = job[p].format
<1> DEFINE j == [job[p] EXCEPT !.got = remote]
<1>1. job \in [Procs -> Job] /\ remote \in Versions
  BY AtStep
<1>2. j \in Job /\ j.op = job[p].op /\ j.format = job[p].format
  BY <1>1 DEF Job
<1>3. job' = job \/ job' = [job EXCEPT ![p] = j]
  BY <1>1
<1> HIDE DEF j
<1> QED BY <1>1, <1>2, <1>3

\* Preparation, adoption, cloning, updating and the writing of a bundle.
LEMMA RestlessTrust ==
  ASSUME IInv, Trust, NEW p \in Procs,
         \/ Prepare(p) \/ AdoptMarker(p) \/ AdoptSource(p) \/ AdoptLock(p) \/ Bind(p)
         \/ Clones(p) \/ Updates(p)
         \/ Stage(p) \/ Rename(p) \/ Select(p)
  PROVE  Trust'
<1> USE AtStep
<1>1. CASE Prepare(p) \/ AdoptMarker(p) \/ AdoptSource(p) \/ AdoptLock(p)
  <2>1. /\ pc[p] \in {"prepare", "adoptMarker", "adoptSource", "adoptLock"}
        /\ UNCHANGED <<inv, claim, job>> /\ disk'.manifest = disk.manifest
        /\ \E s \in {"quit", "bind", "adoptMarker", "adoptSource", "adoptLock"} :
             pc' = [pc EXCEPT ![p] = s] \/ pc' = [pc EXCEPT ![p] = Exit(p)]
    BY <1>1, GotoCases DEF Prepare, AdoptMarker, AdoptSource, AdoptLock, Continues, Disks, Disk
  <2>2. /\ pc[p] \in Holding \ Calm
        /\ {"quit", "bind", "adoptMarker", "adoptSource", "adoptLock"}
             \subseteq Steps \ (Cleaning \cup {"absent", "unstage"})
    BY <2>1 DEF Holding, Calm, Steps, Early, Cleaning
  <2>3. Bundled(disk) => Bundled(disk')
    BY <2>1 DEF Bundled
  <2> QED BY <2>1, <2>2, <2>3, RestlessStep
<1>2. CASE Bind(p)
  <2>1. /\ pc[p] = "bind" /\ UNCHANGED <<inv, claim>> /\ disk'.manifest = disk.manifest
        /\ job' = [job EXCEPT ![p].state = inv.state, ![p].format = inv.format]
        /\ \E s \in {"stage", "error", "update", "clone"} : Goto(p, s)
    BY <1>2 DEF Bind, Disk
  <2>2. /\ pc[p] \in Holding \ Calm
        /\ {"stage", "error", "update", "clone"}
             \subseteq Steps \ (Cleaning \cup {"absent", "unstage"})
    BY <2>1 DEF Holding, Calm, Steps, Early, Cleaning
  <2>3. /\ job' \in [Procs -> Job] /\ \A q \in Procs \ {p} : job'[q] = job[q]
        /\ job'[p].op = job[p].op /\ job'[p].format = inv.format
    <3> DEFINE j == [job[p] EXCEPT !.state = inv.state, !.format = inv.format]
    <3>1. job' = [job EXCEPT ![p] = j] /\ j.op = job[p].op /\ j.format = inv.format
      BY <2>1 DEF Job
    <3> HIDE DEF j
    <3> QED BY <2>1, <3>1, RowRead
  <2>4. Bundled(disk) => Bundled(disk')
    BY <2>1 DEF Bundled
  <2> QED BY <2>1, <2>2, <2>3, <2>4, RestlessStep, GotoCases
<1>3. CASE Clones(p)
  <2>1. /\ pc[p] \in {"clone", "cloning", "synchronise", "complete", "unclone"}
        /\ UNCHANGED <<inv, claim>>
        /\ job' \in {job, [job EXCEPT ![p].got = remote]}
        /\ \E s \in {"cloning", "synchronise", "unclone", "complete", "publish", "error"} :
             pc' = [pc EXCEPT ![p] = s] \/ pc' = [pc EXCEPT ![p] = Exit(p)]
    BY <1>3, GotoCases
       DEF Clones, Clone, CloneDone, CloneFails, Synchronise, Complete, Unclone, Disks
  <2>2. /\ pc[p] \in Holding \ Calm
        /\ {"cloning", "synchronise", "unclone", "complete", "publish", "error"}
             \subseteq Steps \ (Cleaning \cup {"absent", "unstage"})
    BY <2>1 DEF Holding, Calm, Steps, Early, Children, Cleaning
  <2>3. /\ job' \in [Procs -> Job] /\ \A q \in Procs \ {p} : job'[q] = job[q]
        /\ job'[p].op = job[p].op /\ job'[p].format = job[p].format
    BY <2>1, AskedJob
  <2>4. \/ disk' \in {disk} \cup Parts(disk) \cup Cloned(p) \cup MirrorRemoved(disk)
        \/ disk'.manifest = disk.manifest
    BY <1>3 DEF Clones, Clone, CloneDone, CloneFails, Synchronise, Complete, Unclone, Disks, Disk
  <2>5. Bundled(disk) => Bundled(disk')
    BY <2>4, ManifestKept DEF Bundled
  <2> QED BY <2>1, <2>2, <2>3, <2>5, RestlessStep
<1>4. CASE Updates(p)
  <2>1. /\ pc[p] \in {"update", "fetching", "updated"}
        /\ UNCHANGED <<inv, claim>>
        /\ job' \in {job, [job EXCEPT ![p].got = remote]}
        /\ \E s \in {"fetching", "updated", "publish"} : Goto(p, s)
    BY <1>4 DEF Updates, Update, FetchDone, Updated, Disks
  <2>2. /\ pc[p] \in Holding \ Calm
        /\ {"fetching", "updated", "publish"}
             \subseteq Steps \ (Cleaning \cup {"absent", "unstage"})
    BY <2>1 DEF Holding, Calm, Steps, Early, Children, Cleaning
  <2>3. /\ job' \in [Procs -> Job] /\ \A q \in Procs \ {p} : job'[q] = job[q]
        /\ job'[p].op = job[p].op /\ job'[p].format = job[p].format
    BY <2>1, AskedJob
  <2>4. disk' \in Fetched(p) \/ disk'.manifest = disk.manifest
    BY <1>4 DEF Updates, Update, FetchDone, Updated, Disks, Disk
  <2>5. Bundled(disk) => Bundled(disk')
    BY <2>4, ManifestKept DEF Bundled
  <2> QED BY <2>1, <2>2, <2>3, <2>5, RestlessStep, GotoCases
<1>5. CASE Stage(p) \/ Rename(p) \/ Select(p)
  <2>1. /\ pc[p] \in {"stage", "rename", "select"}
        /\ UNCHANGED <<inv, claim>>
        /\ \/ job' = job
           \/ job' = [job EXCEPT ![p].got = remote]
           \/ \E g \in Generations : job' = [job EXCEPT ![p].gen = g]
        /\ \E s \in {"publishBundle", "rename", "select"} : Goto(p, s)
    BY <1>5 DEF Stage, Rename, Select, Disks
  <2>2. /\ pc[p] \in Holding \ Calm
        /\ {"publishBundle", "rename", "select"}
             \subseteq Steps \ (Cleaning \cup {"absent", "unstage"})
    BY <2>1 DEF Holding, Calm, Steps, Early, Cleaning
  <2>3. /\ job' \in [Procs -> Job] /\ \A q \in Procs \ {p} : job'[q] = job[q]
        /\ job'[p].op = job[p].op /\ job'[p].format = job[p].format
    BY <2>1 DEF Job
  <2>4. Bundled(disk) => Bundled(disk')
    <3>1. CASE Stage(p) \/ Rename(p)
      <4>1. disk'.manifest = disk.manifest
        BY <3>1 DEF Stage, Rename, Disk
      <4> QED BY <4>1 DEF Bundled
    <3>2. CASE Select(p)
      <4>1. pc[p] = "select" /\ disk' = [disk EXCEPT !.manifest = job[p].gen]
        BY <3>2 DEF Select, Disks
      <4>2. job[p].gen \in Generations /\ disk'.manifest = job[p].gen
        BY <4>1 DEF Fits, Stored, Disk
      <4> QED BY <4>2, NoneIsNoProcess DEF Bundled
    <3> QED BY <1>5, <3>1, <3>2
  <2> QED BY <2>1, <2>2, <2>3, <2>4, RestlessStep, GotoCases
<1> QED BY <1>1, <1>2, <1>3, <1>4, <1>5

\* A step that is calm, or that asks for reconciliation, and changes nothing that
\* an observation would see.
LEMMA QuietStep ==
  ASSUME IInv, Trust, NEW p \in Procs, pc[p] # "idle",
         NEW s \in Steps \ (Cleaning \cup {"absent"}), pc' = [pc EXCEPT ![p] = s],
         \A q \in Procs \ {p} : job'[q] = job[q],
         s = "idle" \/ job'[p].op = job[p].op,
         job'[p].format \in {"git", job[p].format},
         claim' \in {claim, None},
         inv'.format = inv.format, inv'.reconcile \/ inv' = inv,
         Alike(disk, disk'), Bundled(disk) => Bundled(disk'),
         s = "unstage" => Bundled(disk'),
         \/ pc[p] \in Holding \/ claim = p
         \/ s \notin Holding /\ (disk' = disk \/ (~HasImportState(disk') /\ disk'.dir = "owned")),
         inv'.reconcile \/ (s \in Calm /\ s # "open")
  PROVE  Trust'
<1>1. /\ pc'[p] = s /\ \A q \in Procs \ {p} : pc'[q] = pc[q]
      /\ \A q \in Procs : claim' = q => claim = q
  BY NoneIsNoProcess DEF IInv, TypeOK
<1>2. job[p].op \in Jobs /\ (inv'.format = "bundle" => Bundled(disk'))
      /\ (job'[p].format = "bundle" => Bundled(disk'))
  BY DEF Trust, OnlyJobs
<1>3. inv'.reconcile \/ /\ Reports'
                        /\ pc'[p] \in Calm /\ ~Unmarked(pc'[p], job'[p], claim', p)
                        /\ \A q \in Procs \ {p} : pc[q] \in Calm /\ ~Unmarked(pc[q], job[q], claim, q)
  <2> SUFFICES ASSUME ~inv'.reconcile
               PROVE  /\ Reports'
                      /\ pc'[p] \in Calm /\ ~Unmarked(pc'[p], job'[p], claim', p)
                      /\ \A q \in Procs \ {p} : pc[q] \in Calm /\ ~Unmarked(pc[q], job[q], claim, q)
    OBVIOUS
  <2>1. /\ Reports
        /\ \A q \in Procs \ {p} : pc[q] \in Calm /\ ~Unmarked(pc[q], job[q], claim, q)
    BY DEF Trust, Told
  <2>2. Reports'
    BY <2>1, AlikeReports
  <2> QED BY <1>1, <2>1, <2>2 DEF Unmarked
<1> QED BY <1>1, <1>2, <1>3, TrustStep

\* The owner of the claim publishes, under the lock, what it observes there.
LEMMA PublishTrust ==
  ASSUME IInv, Trust, NEW p \in Procs, pc[p] \in Holding, claim = p,
         NEW s \in {"retire", "leave", "quit"}, pc' = [pc EXCEPT ![p] = s],
         inv' = Publication(p), UNCHANGED <<disk, claim, job>>
  PROVE  Trust'
<1>1. pc \in [Procs -> Steps] /\ lock = p
  BY AtStep
<1>2. /\ pc'[p] = s /\ \A q \in Procs \ {p} : pc'[q] = pc[q]
      /\ s \in Calm /\ s \notin Cleaning /\ s # "absent" /\ s # "unstage" /\ s # "open"
  BY <1>1 DEF Calm, Cleaning
<1>3. \A q \in Procs \ {p} : pc[q] \in Calm /\ ~Unmarked(pc[q], job[q], claim, q)
  <2> SUFFICES ASSUME NEW q \in Procs \ {p}
               PROVE  pc[q] \in Calm /\ ~Unmarked(pc[q], job[q], claim, q)
    OBVIOUS
  <2>1. pc[q] \in Steps \ Holding
    BY <1>1 DEF IInv, LockInv
  <2>2. pc[q] \in Calm
    BY <2>1 DEF Holding, Calm
  <2> QED BY <2>2 DEF Unmarked
<1>4. Reports' /\ (inv'.format = "bundle" => Bundled(disk'))
  BY PublicationReports DEF Trust
<1>5. pc[p] # "idle"
  BY DEF Holding
<1>6. job'[p].op \in Jobs /\ (job'[p].format = "bundle" => Bundled(disk'))
  BY <1>5 DEF Trust, OnlyJobs
<1>7. ~Unmarked(pc'[p], job'[p], claim', p)
  BY <1>2 DEF Unmarked
<1> QED BY <1>2, <1>3, <1>4, <1>6, <1>7, TrustStep

\* Of a process at some step but idle, only the owner of the claim passes a guard.
LEMMA OwnerGoesOn ==
  ASSUME IInv, Trust, NEW p \in Procs, pc[p] # "idle"
  PROVE  /\ job[p].op \in Jobs
         /\ Fenced(p) <=> claim = p
BY DEF Trust, OnlyJobs, Fenced

\* Where an exception leads from a calm step.
LEMMA CalmExit ==
  ASSUME NEW p \in Procs, pc[p] \in Calm
  PROVE  /\ Exit(p) \in {"error", "quit"}
         /\ pc[p] \in {"mark", "open", "absent"} => Exit(p) = "quit"
BY DEF Exit, Calm, Early

LEMMA AlikeItself == Alike(disk, disk)
BY DEF Alike

\* Marking, converting, retiring and the end of an operation.
LEMMA CalmTrust ==
  ASSUME IInv, Trust, NEW p \in Procs,
         Mark(p) \/ Convert(p) \/ Retire(p) \/ Leave(p) \/ Quit(p) \/ Finish(p)
  PROVE  Trust'
<1> USE AtStep, AlikeItself
<1>0. /\ {"open", "quit", "error", "stage", "retiring", "finish", "idle"}
           \subseteq Steps \ (Cleaning \cup {"absent", "unstage"})
      /\ {"quit", "error", "retiring", "finish", "idle"} \subseteq Calm \ {"open"}
      /\ {"convert", "retire", "leave"} \subseteq Holding
      /\ "mark" \in Calm /\ "convert" \in Calm /\ "retire" \in Calm
      /\ {"open", "quit", "finish", "idle"} \cap Holding = {}
  BY DEF Steps, Early, Cleaning, Calm, Holding
<1>1. CASE Mark(p)
  <2>1. /\ pc[p] = "mark" /\ UNCHANGED <<disk, claim, job>>
        /\ \/ Fenced(p) /\ pc' = [pc EXCEPT ![p] = "open"] /\ inv' = [inv EXCEPT !.reconcile = TRUE]
           \/ pc' = [pc EXCEPT ![p] = Exit(p)] /\ inv' = inv
    BY <1>1 DEF Mark, Writes, Goto
  <2>2. Exit(p) = "quit"
    BY <1>0, <2>1, CalmExit
  <2>3. [inv EXCEPT !.reconcile = TRUE].reconcile /\ [inv EXCEPT !.reconcile = TRUE].format = inv.format
    BY DEF Inventory
  <2> QED BY <1>0, <2>1, <2>2, <2>3, QuietStep
<1>2. CASE Convert(p)
  <2>1. /\ pc[p] = "convert" /\ UNCHANGED <<disk, claim, job>>
        /\ \/ Fenced(p) /\ pc' = [pc EXCEPT ![p] = "stage"] /\ inv' = [inv EXCEPT !.reconcile = TRUE]
           \/ pc' = [pc EXCEPT ![p] = Exit(p)] /\ inv' = inv
    BY <1>2 DEF Convert, Writes, Goto
  <2>2. Exit(p) \in {"error", "quit"}
    BY <1>0, <2>1, CalmExit
  <2>3. [inv EXCEPT !.reconcile = TRUE].reconcile /\ [inv EXCEPT !.reconcile = TRUE].format = inv.format
    BY DEF Inventory
  <2> QED BY <1>0, <2>1, <2>2, <2>3, QuietStep
<1>3. CASE Retire(p)
  <2>1. /\ pc[p] = "retire" /\ disk' = disk /\ UNCHANGED <<inv, claim, job>>
        /\ pc' = [pc EXCEPT ![p] = "retiring"] \/ pc' = [pc EXCEPT ![p] = Exit(p)]
    BY <1>3, GotoCases DEF Retire, Disks
  <2>2. Exit(p) \in {"error", "quit"}
    BY <1>0, <2>1, CalmExit
  <2> QED BY <1>0, <2>1, <2>2, QuietStep
<1>4. CASE Leave(p)
  <2>1. /\ pc[p] = "leave" /\ disk' = Released(disk) /\ UNCHANGED <<inv, claim, job>>
        /\ pc' = [pc EXCEPT ![p] = "quit"]
    BY <1>4 DEF Leave
  <2>2. /\ disk'.dir = disk.dir /\ disk'.manifest = disk.manifest /\ disk'.mirror = disk.mirror
        /\ disk'.marker = disk.marker /\ disk'.staging = disk.staging /\ disk'.gens = disk.gens
        /\ disk'.source = (disk.source /\ HasImportState(disk))
    BY <2>1 DEF Released, Disk
  <2>3. HasImportState(disk') = HasImportState(disk) /\ Bundled(disk') = Bundled(disk)
    BY <2>2 DEF HasImportState, Bundled, Stored
  <2>4. HasImportState(disk) => disk' = disk
    BY <2>1 DEF Released, Disk
  <2>5. Alike(disk, disk')
    BY <2>2, <2>3, <2>4 DEF Alike
  <2> QED BY <1>0, <2>1, <2>3, <2>5, QuietStep
<1>5. CASE Quit(p)
  <2>1. pc[p] = "quit" /\ UNCHANGED <<disk, inv, claim, job>> /\ pc' = [pc EXCEPT ![p] = "finish"]
    BY <1>5 DEF Quit
  <2> QED BY <1>0, <2>1, QuietStep
<1>6. CASE Finish(p)
  <2>1. /\ pc[p] = "finish" /\ disk' = disk /\ pc' = [pc EXCEPT ![p] = "idle"]
        /\ job' = [job EXCEPT ![p] = NoJob] /\ claim' \in {claim, None}
        /\ \E b \in BOOLEAN : inv' = [inv EXCEPT !.reconcile = @ \/ b]
    BY <1>6 DEF Finish
  <2>2. inv'.format = inv.format /\ (inv'.reconcile \/ inv' = inv)
    BY <2>1 DEF Inventory
  <2>3. job'[p].format = "git" /\ \A q \in Procs \ {p} : job'[q] = job[q]
    BY <2>1 DEF NoJob
  <2> QED BY <1>0, <2>1, <2>2, <2>3, QuietStep
<1> QED BY <1>1, <1>2, <1>3, <1>4, <1>5, <1>6

\* What is retired lies beside a selected bundle, which alone is observed.
LEMMA RetireTrust ==
  ASSUME IInv, Trust, NEW p \in Procs, Retiring(p) \/ Unstage(p)
  PROVE  Trust'
<1> USE AtStep
<1>0. /\ {"retiring", "unstage", "publish", "quit", "error"} \subseteq Steps \ (Cleaning \cup {"absent"})
      /\ {"retiring", "unstage", "publish", "quit", "error"} \subseteq Calm \ {"open"}
      /\ {"retiring", "unstage"} \subseteq Holding
  BY DEF Steps, Early, Cleaning, Calm, Holding
<1>1. pc[p] \in {"retiring", "unstage"}
  BY DEF Retiring, Unstage, Disks, Continues
<1>2. Bundled(disk) /\ Exit(p) \in {"error", "quit"} /\ job[p].op \in Jobs
  BY <1>0, <1>1, CalmExit DEF Fits, Trust, OnlyJobs
<1>3. /\ UNCHANGED <<inv, claim, job>>
      /\ disk'.dir = disk.dir /\ disk'.manifest = disk.manifest /\ disk'.source = disk.source
      /\ disk'.gens[disk.manifest] = disk.gens[disk.manifest]
  <2>1. CASE Retiring(p)
    <3>1. PICK d : /\ \/ \E g \in Stored(disk) \ {disk.manifest} : d = [disk EXCEPT !.gens[g] = Nothing]
                      \/ d \in MirrorRemoved(disk)
                      \/ d = [disk EXCEPT !.marker = FALSE]
                   /\ disk' = d /\ UNCHANGED <<inv, claim, job>>
      BY <2>1 DEF Retiring, Disks, Continues
    <3>2. CASE \E g \in Stored(disk) \ {disk.manifest} : d = [disk EXCEPT !.gens[g] = Nothing]
      BY <3>1, <3>2 DEF Disk
    <3>3. CASE d \in MirrorRemoved(disk)
      <4>1. \/ \E m : d = [disk EXCEPT !.mirror = m, !.content = Nothing]
            \/ d = [disk EXCEPT !.mirror = "none"]
        BY <3>3 DEF MirrorRemoved, Parts
      <4> QED BY <3>1, <4>1 DEF Disk
    <3>4. CASE d = [disk EXCEPT !.marker = FALSE]
      BY <3>1, <3>4 DEF Disk
    <3> QED BY <3>1, <3>2, <3>3, <3>4
  <2>2. CASE Unstage(p)
    BY <2>2 DEF Unstage, Disks, Disk
  <2> QED BY <2>1, <2>2
<1>4. PICK s \in {"retiring", "unstage", "publish", "quit", "error"} : pc' = [pc EXCEPT ![p] = s]
  <2>1. job[p].op # "clean"
    BY <1>2 DEF Jobs
  <2> QED BY <1>2, <2>1, GotoCases DEF Retiring, Unstage, Disks, Continues
<1>5. Alike(disk, disk') /\ Bundled(disk')
  BY <1>2, <1>3 DEF Alike, Bundled
<1> QED BY <1>0, <1>1, <1>3, <1>4, <1>5, QuietStep

LEMMA OpenTrust ==
  ASSUME IInv, Trust, NEW p \in Procs, Opens(p)
  PROVE  Trust'
<1> USE AtStep, AlikeItself
<1>0. /\ {"open", "quit", "finish", "bind", "prepare", "adoptMarker", "convert", "publish"}
           \subseteq Steps \ (Cleaning \cup {"absent", "unstage"})
      /\ {"quit", "finish", "convert", "publish"} \subseteq Calm \ {"open"}
      /\ "open" \in Calm /\ "open" \in Early
      /\ {"open", "quit", "finish"} \cap Holding = {}
  BY DEF Steps, Early, Cleaning, Calm, Holding
<1>1. pc[p] = "open" /\ UNCHANGED <<claim, job>>
  BY DEF Opens, OpenBusy, OpenAbsent, OpenSupplied, OpenOwned
<1>2. /\ Exit(p) = "quit" /\ job[p].op \in Jobs /\ (Fenced(p) <=> claim = p)
  BY <1>0, <1>1, CalmExit, OwnerGoesOn
<1>3. claim = p /\ Fetching(p) => inv.reconcile
  BY <1>1 DEF Trust, Told, Unmarked, Fetching
<1>4. \A s : Goto(p, s) => \/ claim = p /\ pc' = [pc EXCEPT ![p] = s]
                           \/ pc' = [pc EXCEPT ![p] = "quit"]
  BY <1>2 DEF Goto
<1>5. CASE OpenBusy(p)
  <2>1. disk' = disk /\ inv' = inv /\ pc' = [pc EXCEPT ![p] = "finish"]
    BY <1>5 DEF OpenBusy
  <2> QED BY <1>0, <1>1, <2>1, QuietStep
<1>6. CASE OpenAbsent(p)
  <2>1. /\ inv' = inv /\ lock = None /\ disk.dir = "none" /\ ~HasImportState(disk)
        /\ \/ Fetching(p) /\ disk' = [disk EXCEPT !.dir = "owned"] /\ Goto(p, "bind")
           \/ disk' = disk /\ pc' = [pc EXCEPT ![p] = "finish"]
           \/ disk' = disk /\ pc' = [pc EXCEPT ![p] = "absent"]
    BY <1>6 DEF OpenAbsent, Sound
  <2>2. CASE Fetching(p) /\ disk' = [disk EXCEPT !.dir = "owned"] /\ Goto(p, "bind")
    <3>1. /\ disk'.dir = "owned" /\ ~HasImportState(disk') /\ Bundled(disk') = Bundled(disk)
      BY <2>1, <2>2 DEF HasImportState, Bundled, Stored, Disk
    <3>2. Alike(disk, disk')
      BY <2>1, <3>1 DEF Alike
    <3> QED BY <1>0, <1>1, <1>3, <1>4, <2>1, <2>2, <3>1, <3>2, QuietStep
  <2>3. CASE disk' = disk /\ pc' = [pc EXCEPT ![p] = "finish"]
    BY <1>0, <1>1, <2>1, <2>3, QuietStep
  <2>4. CASE disk' = disk /\ pc' = [pc EXCEPT ![p] = "absent"]
    <3>1. /\ pc'[p] = "absent" /\ \A q \in Procs \ {p} : pc'[q] = pc[q]
          /\ "absent" \in Calm /\ "absent" \notin Cleaning \cup Holding
      BY <2>4 DEF Calm, Cleaning, Holding
    <3>2. \A q \in Procs : pc'[q] \notin Holding
      BY <2>1, <3>1, NoneIsNoProcess
    <3>3. /\ (inv'.format = "bundle" => Bundled(disk')) /\ (job'[p].format = "bundle" => Bundled(disk'))
      BY <1>1, <2>1, <2>4 DEF Trust, OnlyJobs
    <3>4. inv'.reconcile \/ /\ Reports'
                            /\ \A q \in Procs \ {p} : pc[q] \in Calm /\ ~Unmarked(pc[q], job[q], claim, q)
      BY <2>1, <2>4, AlikeReports DEF Trust, Told
    <3>5. ~Unmarked(pc'[p], job'[p], claim', p)
      BY <3>1 DEF Unmarked
    <3>6. disk'.dir # "supplied" /\ ~HasImportState(disk')
      BY <2>1, <2>4
    <3> QED BY <1>1, <1>2, <2>4, <3>1, <3>2, <3>3, <3>4, <3>5, <3>6, TrustStep
  <2> QED BY <2>1, <2>2, <2>3, <2>4
<1>7. CASE OpenSupplied(p)
  <2>1. /\ disk' = disk
        /\ inv' = inv \/ inv' = [inv EXCEPT !.state = "incomplete", !.reconcile = TRUE]
        /\ \/ Fetching(p) /\ Goto(p, "adoptMarker")
           \/ pc' = [pc EXCEPT ![p] = "finish"]
    BY <1>7 DEF OpenSupplied, Fetching
  <2>2. inv'.format = inv.format /\ (inv'.reconcile \/ inv' = inv)
    BY <2>1 DEF Inventory
  <2> QED BY <1>0, <1>1, <1>3, <1>4, <2>1, <2>2, QuietStep
<1>8. CASE OpenOwned(p)
  <2>1. /\ disk' = disk /\ inv' = inv
        /\ \/ Fetching(p) /\ Goto(p, "prepare")
           \/ Goto(p, "convert")
           \/ Goto(p, "publish")
    BY <1>2, <1>8 DEF OpenOwned, Jobs
  <2> QED BY <1>0, <1>1, <1>3, <1>4, <2>1, QuietStep
<1> QED BY <1>5, <1>6, <1>7, <1>8 DEF Opens

\* What is written to the inventory is true of the directory as it is.
LEMMA WrittenTrust ==
  ASSUME IInv, Trust, NEW p \in Procs,
         PublishBundle(p) \/ Publish(p) \/ ErrorPublish(p) \/ PublishAbsent(p)
  PROVE  Trust'
<1> USE AtStep, AlikeItself
<1>0. /\ {"quit", "finish", "leave", "error"} \subseteq Steps \ (Cleaning \cup {"absent", "unstage"})
      /\ {"quit", "finish", "leave", "error"} \subseteq Calm \ {"open"}
      /\ {"publish", "error", "absent"} \subseteq Calm /\ "publishBundle" \notin Calm
      /\ {"publish", "error", "publishBundle"} \subseteq Holding
      /\ {"quit", "finish"} \cap Holding = {}
  BY DEF Steps, Early, Cleaning, Calm, Holding
<1>1. /\ pc[p] \in {"publishBundle", "publish", "error", "absent"} /\ UNCHANGED <<disk, claim, job>>
  BY DEF PublishBundle, Publish, ErrorPublish, PublishAbsent, Writes
<1>2. Fenced(p) <=> claim = p
  BY <1>1, OwnerGoesOn
<1>3. CASE PublishBundle(p)
  <2>1. /\ pc[p] = "publishBundle"
        /\ \/ claim = p /\ pc' = [pc EXCEPT ![p] = "retire"] /\ inv' = Publication(p)
           \/ pc' = [pc EXCEPT ![p] = Exit(p)] /\ inv' = inv
    BY <1>2, <1>3 DEF PublishBundle, Writes, Goto
  <2>2. Exit(p) \in {"error", "quit"}
    BY <2>1 DEF Exit
  <2> QED BY <1>0, <1>1, <2>1, <2>2, PublishTrust, RestlessStep
<1>4. CASE Publish(p)
  <2>1. /\ pc[p] = "publish"
        /\ \/ claim = p /\ inv' = Publication(p) /\ \E s \in {"leave", "quit"} : pc' = [pc EXCEPT ![p] = s]
           \/ pc' = [pc EXCEPT ![p] = Exit(p)] /\ inv' = inv
    BY <1>2, <1>4 DEF Publish, Writes, Goto
  <2>2. Exit(p) \in {"error", "quit"}
    BY <1>0, <2>1, CalmExit
  <2> QED BY <1>0, <1>1, <2>1, <2>2, PublishTrust, QuietStep
<1>5. CASE ErrorPublish(p)
  <2>1. /\ pc[p] = "error" /\ pc' = [pc EXCEPT ![p] = "leave"]
        /\ inv' = inv \/ (claim = p /\ inv' = Publication(p))
    BY <1>2, <1>5 DEF ErrorPublish
  <2> QED BY <1>0, <1>1, <2>1, PublishTrust, QuietStep
<1>6. CASE PublishAbsent(p)
  <2> DEFINE row == [inv EXCEPT !.state = Absent(job[p].state), !.seen = Nothing, !.reconcile = FALSE]
  <2>1. /\ pc[p] = "absent"
        /\ \/ claim = p /\ inv' = row /\ pc' = [pc EXCEPT ![p] = "finish"]
           \/ pc' = [pc EXCEPT ![p] = Exit(p)] /\ inv' = inv
    BY <1>2, <1>6 DEF PublishAbsent, Writes, Goto
  <2>2. Exit(p) = "quit"
    BY <1>0, <2>1, CalmExit
  <2>3. CASE claim = p /\ inv' = row /\ pc' = [pc EXCEPT ![p] = "finish"]
    <3>1. /\ ~HasImportState(disk) /\ disk.dir # "supplied" /\ \A q \in Procs : pc[q] \notin Holding
      BY <2>1, <2>3 DEF Trust, NothingThere
    <3>2. ~Bundled(disk) /\ inv.format = "git" /\ job[p].format # "bundle"
      BY <3>1 DEF HasImportState, Trust, OnlyJobs, Inventory
    <3>3. /\ inv'.format = "git" /\ inv'.seen = Nothing /\ inv'.reconcile = FALSE
          /\ inv'.state \in {"absent", "missing"} /\ Absent(inv'.state) = inv'.state
          /\ inv' = [reconcile |-> FALSE, state |-> inv'.state, format |-> "git", seen |-> Nothing]
      BY <2>3, <3>2 DEF Inventory, Absent
    <3>4. Reports'
      BY <1>1, <3>1, <3>3 DEF Reports, Observed, HasImportState, Bundled, Absent
    <3>5. /\ pc'[p] = "finish" /\ \A q \in Procs \ {p} : pc'[q] = pc[q]
      BY <2>3
    <3>6. \A q \in Procs \ {p} : pc[q] \in Calm /\ ~Unmarked(pc[q], job[q], claim, q)
      BY <2>3, <3>1 DEF Holding, Calm, Unmarked
    <3>7. job'[p].op \in Jobs /\ ~Unmarked(pc'[p], job'[p], claim', p)
      BY <1>1, <2>1, <3>5, OwnerGoesOn DEF Unmarked
    <3> QED BY <1>0, <1>1, <2>3, <3>2, <3>3, <3>4, <3>5, <3>6, <3>7, TrustStep
  <2> QED BY <1>0, <1>1, <2>1, <2>2, <2>3, QuietStep
<1> QED BY <1>3, <1>4, <1>5, <1>6

LEMMA FailTrust ==
  ASSUME IInv, Trust, NEW p \in Procs, Fails(p)
  PROVE  Trust'
<1> USE AtStep, AlikeItself
<1>1. /\ pc[p] \in Holding /\ pc' = [pc EXCEPT ![p] = Exit(p)]
      /\ UNCHANGED <<disk, inv, claim, job>>
  BY DEF Fails, Holding
<1>2. /\ {"quit", "error", "unclone"} \subseteq Steps \ (Cleaning \cup {"absent", "unstage"})
      /\ {"quit", "error"} \subseteq Calm \ {"open"} /\ "idle" \notin Holding
  BY DEF Steps, Early, Cleaning, Calm, Holding
<1>3. CASE pc[p] \in Calm
  BY <1>1, <1>2, <1>3, CalmExit, QuietStep
<1>4. CASE pc[p] \notin Calm
  BY <1>1, <1>2, <1>4, ExitType, RestlessStep
<1> QED BY <1>3, <1>4

\* A Git child that outlives its process does so with reconciliation asked for.
LEMMA CrashTrust ==
  ASSUME IInv, Trust, NEW p \in Procs, Crash(p) \/ OrphanEnds(p)
  PROVE  Trust'
<1> USE AtStep, AlikeItself
<1>0. /\ {"idle", "orphanClone", "orphanFetch"} \subseteq Steps \ (Cleaning \cup {"absent", "unstage"})
      /\ "idle" \in Calm \ {"open"} /\ "idle" \notin Holding
      /\ {"cloning", "fetching"} \cup Orphans \subseteq Holding \ Calm
      /\ NoJob \in Job /\ NoJob.format = "git"
  BY ContentsFacts DEF Steps, Early, Children, Orphans, Cleaning, Calm, Holding, Job, NoJob
<1>1. CASE Crash(p) /\ pc[p] \in Children
  <2>1. /\ UNCHANGED <<disk, inv, claim>> /\ job' = [job EXCEPT ![p] = job[p]]
        /\ pc[p] \in {"cloning", "fetching"}
        /\ \E s \in {"orphanClone", "orphanFetch"} : pc' = [pc EXCEPT ![p] = s]
    BY <1>1 DEF Crash, Children
  <2>2. job' = job
    BY <2>1
  <2> QED BY <1>0, <2>1, <2>2, RestlessStep
<1>2. CASE Crash(p) /\ pc[p] \notin Children
  <2>1. /\ UNCHANGED <<disk, inv, claim>> /\ job' = [job EXCEPT ![p] = NoJob]
        /\ pc[p] # "idle" /\ pc' = [pc EXCEPT ![p] = "idle"]
    BY <1>2 DEF Crash
  <2> QED BY <1>0, <2>1, QuietStep
<1>3. CASE OrphanEnds(p)
  <2>1. /\ pc[p] \in Orphans /\ UNCHANGED <<inv, claim>> /\ job' = [job EXCEPT ![p] = NoJob]
        /\ pc' = [pc EXCEPT ![p] = "idle"]
        /\ disk' \in Cloned(p) \cup Fetched(p) \cup {disk, [disk EXCEPT !.mirror = "none"]}
    BY <1>3 DEF OrphanEnds, Orphans
  <2>2. Bundled(disk) => Bundled(disk')
    <3>1. CASE disk' = [disk EXCEPT !.mirror = "none"]
      BY <3>1 DEF Bundled, Disk
    <3> QED BY <2>1, <3>1, ManifestKept
  <2>3. /\ job' \in [Procs -> Job] /\ job'[p].format = "git" /\ pc'[p] = "idle"
        /\ \A q \in Procs \ {p} : job'[q] = job[q]
    BY <1>0, <2>1
  <2> QED BY <1>0, <2>1, <2>2, <2>3, RestlessStep
<1> QED BY <1>1, <1>2, <1>3

LEMMA BeginTrust ==
  ASSUME IInv, Trust, NEW p \in Procs, NEW op \in Jobs, Begin(p, op)
  PROVE  Trust'
<1> USE AtStep, AlikeItself
<1> DEFINE j == [NoJob EXCEPT !.op = op, !.state = inv.state, !.format = inv.format]
<1>1. /\ pc[p] = "idle" /\ claim = None /\ claim' = p /\ UNCHANGED <<disk, inv>>
      /\ job' = [job EXCEPT ![p] = j]
      /\ pc' = [pc EXCEPT ![p] = IF op \in {"fetch", "adopt"} THEN "mark" ELSE "open"]
  BY DEF Begin
<1>2. j.op = op /\ j.format = inv.format
  BY DEF NoJob
<1> HIDE DEF j
<1>3. /\ job'[p].op = op /\ job'[p].format = inv.format
      /\ pc'[p] = IF op \in {"fetch", "adopt"} THEN "mark" ELSE "open"
      /\ \A q \in Procs \ {p} : pc'[q] = pc[q] /\ job'[q] = job[q] /\ claim' # q
  BY <1>1, <1>2
<1>4. /\ pc'[p] \in Calm \ {"absent", "unstage"} /\ pc'[p] \notin Cleaning \cup Holding
      /\ ~Unmarked(pc'[p], job'[p], claim', p)
  BY <1>3 DEF Calm, Cleaning, Holding, Unmarked
<1>5. (inv'.format = "bundle" => Bundled(disk')) /\ (job'[p].format = "bundle" => Bundled(disk'))
  BY <1>1, <1>3 DEF Trust, OnlyJobs
<1>6. inv'.reconcile \/ /\ Reports'
                        /\ \A q \in Procs \ {p} : pc[q] \in Calm /\ ~Unmarked(pc[q], job[q], claim, q)
  BY <1>1, AlikeReports DEF Trust, Told
<1> QED BY <1>1, <1>3, <1>4, <1>5, <1>6, TrustStep

\* Every step of claimed jobs keeps the trust, as their crashes and lost claims do.
LEMMA StepTrust ==
  ASSUME Operations \subseteq Jobs, IInv, Trust, [Next]_vars
  PROVE  Trust'
<1>1. CASE UNCHANGED vars \/ RemoteChanges
  <2>1. UNCHANGED <<disk, inv, claim, pc, job>>
    BY <1>1 DEF vars, RemoteChanges
  <2>2. Reports => Reports'
    BY <2>1, AlikeReports, AlikeItself
  <2> QED BY <2>1, <2>2 DEF Trust, OnlyJobs, NothingThere, Told, Unmarked
<1>2. CASE Lapse
  <2>1. claim' = None /\ inv' = [inv EXCEPT !.reconcile = TRUE] /\ UNCHANGED <<disk, pc, job>>
    BY <1>2 DEF Lapse
  <2>2. inv'.reconcile /\ inv'.format = inv.format
    BY <2>1 DEF IInv, TypeOK, Inventory
  <2> QED BY <2>1, <2>2, NoneIsNoProcess DEF Trust, OnlyJobs, NothingThere, Told
<1>3. ASSUME NEW p \in Procs, Cleans(p) PROVE FALSE
  <2>1. pc[p] \in Cleaning
    BY <1>3 DEF Cleans, CleanMark, Clean, DropGens, CleanRest, Disks, Cleaning
  <2> QED BY <2>1 DEF Trust, OnlyJobs
<1>4. ASSUME NEW p \in Procs,
             \/ \E op \in Operations : Begin(p, op)
             \/ Opens(p) \/ Fetches(p) \/ Clones(p) \/ Updates(p) \/ Bundles(p) \/ Cleans(p)
             \/ Ends(p) \/ Fails(p) \/ Crash(p) \/ OrphanEnds(p)
      PROVE  Trust'
  <2>1. CASE \E op \in Operations : Begin(p, op)
    BY <2>1, BeginTrust
  <2>2. CASE Opens(p) \/ Fails(p) \/ Crash(p) \/ OrphanEnds(p)
    BY <2>2, OpenTrust, FailTrust, CrashTrust
  <2>3. CASE Fetches(p) \/ Clones(p) \/ Updates(p)
    BY <2>3, RestlessTrust, CalmTrust DEF Fetches
  <2>4. CASE Bundles(p)
    BY <2>4, RestlessTrust, CalmTrust, RetireTrust, WrittenTrust DEF Bundles
  <2>5. CASE Ends(p)
    BY <2>5, CalmTrust, WrittenTrust DEF Ends
  <2> QED BY <1>3, <1>4, <2>1, <2>2, <2>3, <2>4, <2>5
<1> QED BY <1>1, <1>2, <1>4 DEF Next

\* While every operation is a claimed job, the inventory is true whenever nothing runs
\* and no reconciliation is asked for: however jobs fail, lose their claims, are killed
\* and are outlived by their Git children.  (audit --fix runs without a claim.)
THEOREM InventoryTrustedAlways ==
  ASSUME Operations \subseteq Jobs
  PROVE  Spec => []InventoryTrusted
<1>1. Init => Trust
  BY DEF Init, Trust, OnlyJobs, NothingThere, Told, Reports, Unmarked, Cleaning, Calm, NoJob
<1>2. IInv /\ Trust /\ [Next]_vars => Trust'
  BY StepTrust
<1>3. Trust => InventoryTrusted
  BY DEF Trust, Told, Reports, InventoryTrusted
<1> QED BY <1>1, <1>2, <1>3, ArchiveInvariant, PTL DEF Spec

=============================================================================
