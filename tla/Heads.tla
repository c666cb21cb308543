-------------------------------- MODULE Heads --------------------------------
(***************************************************************************)
(* What a mirror holds of a remote that changes while it is fetched: its   *)
(* refs, its HEAD, and what the inventory says of both (git_mirror.py,     *)
(* git_observation.py, the view inventory of index.py).                    *)
(*                                                                         *)
(* Git updates all refs at once, but a fetch asks the remote for its HEAD  *)
(* before and after that, and publishes the HEAD in a step of its own.  In *)
(* a first clone Git chooses a HEAD, which is then replaced.  A HEAD names *)
(* a ref, which need not exist (unborn, dangling), or a commit (detached), *)
(* which need not be on any ref.  Checks compare digests of what the       *)
(* remote advertises and what the mirror holds; a scheduled check that     *)
(* finds a difference queues a fetch.  A refusal blocks the schedule until *)
(* its user enables it again or asks for an operation that succeeds.       *)
(*                                                                         *)
(* Any step may fail.  Not covered here: transports (module Transport) and *)
(* operations on the directory that overlap or are killed (Archive).       *)
(***************************************************************************)
EXTENDS Naturals

CONSTANTS
  Refs,         \* names of refs
  Main,         \* refs/heads/main
  Oids,         \* commits
  None,         \* no ref, no commit
  MaxChanges,   \* bound: changes of the remote
  MaxFailures   \* bound: steps that fail

ASSUME HeadsAssumption ==
  /\ Main \in Refs /\ None \notin Refs \cup Oids
  /\ MaxChanges \in Nat /\ MaxFailures \in Nat

VARIABLES
  remote,    \* the remote's refs and HEAD, and whether it advertises an unborn one
  mirror,    \* the mirror's refs, HEAD and commits
  inv,       \* the digests in the inventory and the reconciliation request
  op,        \* the running operation, whose check it is, and the HEAD it was told of
  due,       \* the job that is queued, or comes next by the schedule
  blocked,   \* does the schedule wait for its user?
  outcome,   \* how the last operation ended
  seen,      \* has the remote been the same since the inventory's digest of it?
  changes, failures

vars == <<remote, mirror, inv, op, due, blocked, outcome, seen, changes, failures>>

RefMaps == [Refs -> Oids \cup {None}]
Symbolic(r) == [target |-> r, oid |-> None]
Detached(o) == [target |-> None, oid |-> o]
HeadStates == {Symbolic(r) : r \in Refs} \cup {Detached(o) : o \in Oids}
NoHead == [target |-> None, oid |-> None]
NoRefs == [r \in Refs |-> None]

Empty(refs) == refs = NoRefs
Commits(refs) == {refs[r] : r \in Refs} \ {None}

\* rev-parse HEAD
Resolved(refs, head) == IF head.target # None THEN refs[head.target] ELSE head.oid

----------------------------------------------------------------------------
(* What is advertised, and digests *)

\* ls-remote --symref: of an unborn HEAD at most the target.
Advertised ==
  LET oid == Resolved(remote.refs, remote.head)
  IN  [target |-> IF oid = None /\ ~remote.unborn THEN None ELSE remote.head.target,
       oid |-> oid]

\* Mutant of Digest: the name of the default branch does not count.
DigestWithoutTarget(refs, target, oid) == [refs |-> refs, target |-> None, oid |-> oid]

\* RefSnapshot.digest
Digest(refs, target, oid) ==
  [refs |-> refs, target |-> IF oid # None THEN target ELSE None, oid |-> oid]

\* remote_snapshot refuses a remote with refs and no HEAD.
Observable == Empty(remote.refs) \/ Advertised.oid # None
RemoteDigest == Digest(remote.refs, Advertised.target, Advertised.oid)

\* mirror_snapshot
LocalDigest(m) ==
  IF m.state = "none" THEN None
  ELSE Digest(m.refs, m.head.target, Resolved(m.refs, m.head))

\* A digest is never NULL, which the columns are until the first observation.
Digests == [refs: RefMaps, target: Refs \cup {None}, oid: Oids \cup {None}]

ASSUME DigestAssumption == None \notin Digests

\* The column remote_status.
Status ==
  CASE inv.reconcile \/ inv.remote = None -> "unknown"
    [] OTHER -> IF inv.local = None THEN "not_fetched"
                ELSE IF inv.local = inv.remote THEN "current" ELSE "updates_available"

----------------------------------------------------------------------------
(* Operations *)

NoMirror == [state |-> "none", refs |-> NoRefs, head |-> NoHead, have |-> {}]
Idle == [kind |-> "none", origin |-> "manual", step |-> "idle", head |-> NoHead, quiet |-> TRUE]

Init ==
  /\ remote \in [refs: RefMaps, head: HeadStates, unborn: BOOLEAN]
  /\ mirror = NoMirror
  /\ inv = [local |-> None, remote |-> None, reconcile |-> FALSE]
  /\ op = Idle /\ due = "check" /\ blocked = FALSE /\ outcome = "none" /\ seen = FALSE
  /\ changes = 0 /\ failures = 0

Goto(step) == op' = [op EXCEPT !.step = step]

\* fetch_locked marks the row before anything else.
BeginFetch ==
  /\ op.step = "idle" /\ due = "fetch"
  /\ op' = [Idle EXCEPT !.kind = "fetch",
                        !.step = IF mirror.state = "none" THEN "clone" ELSE "discover"]
  /\ inv' = [inv EXCEPT !.reconcile = TRUE]
  /\ outcome' = "none"
  /\ UNCHANGED <<remote, mirror, due, blocked, seen, changes, failures>>

\* The schedule asks for a check unless it is blocked; its user may ask for one at any time,
\* which leaves a queued fetch in the queue.
BeginCheck(origin) ==
  /\ op.step = "idle"
  /\ origin = "scheduled" => due = "check" /\ ~blocked
  /\ op' = [Idle EXCEPT !.kind = "check", !.origin = origin, !.step = "publish"]
  /\ outcome' = "none"
  /\ UNCHANGED <<remote, mirror, inv, due, blocked, seen, changes, failures>>

\* A user asks for a fetch although none is due.
AskFetch ==
  /\ op.step = "idle" /\ due = "check"
  /\ due' = "fetch"
  /\ UNCHANGED <<remote, mirror, inv, op, blocked, outcome, seen, changes, failures>>

\* A user enables the schedule again.
Reenable ==
  /\ blocked
  /\ blocked' = FALSE
  /\ UNCHANGED <<remote, mirror, inv, op, due, outcome, seen, changes, failures>>

\* The end of a job: a structural error blocks the schedule, a success frees it.
Ends(how, next) ==
  /\ op' = Idle /\ outcome' = how /\ due' = next
  /\ blocked' = CASE how = "refused" -> TRUE [] how = "failed" -> blocked [] OTHER -> FALSE

\* What comes after a job that is not tried again.
After == IF op.kind = "fetch" THEN "check" ELSE due

\* A failed Git command or a lost claim: tried again (then what was due is due), or not, and
\* perhaps structural.
EndsFailed == Ends("failed", due) \/ Ends("failed", After) \/ Ends("refused", After)

\* git clone --mirror: refs and commits of one moment, and a HEAD that Git chooses.
Clone ==
  /\ op.step = "clone"
  /\ LET have == Commits(remote.refs) \cup ({Advertised.oid} \ {None})
     IN  \E h \in {Symbolic(r) : r \in Refs} \cup {Detached(o) : o \in have} :
           mirror' = [state |-> "cloning", refs |-> remote.refs, head |-> h, have |-> have]
  /\ Goto("discover")
  /\ UNCHANGED <<remote, inv, due, blocked, outcome, seen, changes, failures>>

Discover ==
  /\ op.step = "discover"
  /\ op' = [op EXCEPT !.head = Advertised,
                      !.step = IF mirror.state = "cloning" THEN "synchronize" ELSE "fetch"]
  /\ UNCHANGED <<remote, mirror, inv, due, blocked, outcome, seen, changes, failures>>

\* A detached HEAD is asked for by name: Git refuses if it is gone.
WantsHead == op.head.target = None /\ op.head.oid # None

\* Mutant of Fetch: only what is on a ref is fetched.
FetchRefsOnly ==
  /\ op.step = "fetch"
  /\ mirror' = [mirror EXCEPT !.refs = remote.refs, !.have = @ \cup Commits(remote.refs)]
  /\ Goto("verify")
  /\ UNCHANGED <<remote, inv, due, blocked, outcome, seen, changes, failures>>

\* git fetch --atomic --prune
Fetch ==
  /\ op.step = "fetch" /\ (WantsHead => Advertised.oid # None)
  /\ mirror' = [mirror EXCEPT !.refs = remote.refs,
                              !.have = @ \cup Commits(remote.refs)
                                         \cup (IF WantsHead THEN {Advertised.oid} ELSE {})]
  /\ Goto("verify")
  /\ UNCHANGED <<remote, inv, due, blocked, outcome, seen, changes, failures>>

\* The HEAD is asked for again.  A clone is complete then, a fetch goes on to publish it.
Verify ==
  /\ op.step = "verify" /\ Advertised = op.head
  /\ mirror' = IF mirror.state = "cloning" THEN [mirror EXCEPT !.state = "whole"] ELSE mirror
  /\ Goto(IF mirror.state = "cloning" THEN "publish" ELSE "synchronize")
  /\ UNCHANGED <<remote, inv, due, blocked, outcome, seen, changes, failures>>

\* What _synchronize_head refuses.
HeadRefused(head) ==
  IF head.target # None
  THEN LET oid == mirror.refs[head.target]
       IN  IF oid = None THEN head.oid # None \/ ~Empty(mirror.refs) ELSE oid # head.oid
  ELSE IF head.oid # None THEN head.oid \notin mirror.have
  ELSE ~Empty(mirror.refs)

\* Mutant of NewHead: an empty mirror keeps the HEAD that it has.
NewHeadKept(head) ==
  IF head.target # None THEN Symbolic(head.target)
  ELSE IF head.oid # None THEN Detached(head.oid) ELSE mirror.head

\* The HEAD it writes; an empty mirror that had a detached one gets refs/heads/main.
NewHead(head) ==
  IF head.target # None THEN Symbolic(head.target)
  ELSE IF head.oid # None THEN Detached(head.oid)
  ELSE IF mirror.head.target = None THEN Symbolic(Main) ELSE mirror.head

\* Mutant of Synchronize: what the fetched refs say is not looked at.
SynchronizeBlindly ==
  /\ op.step = "synchronize"
  /\ mirror' = [mirror EXCEPT !.head = NewHead(op.head)]
  /\ Goto(IF mirror.state = "cloning" THEN "verify" ELSE "publish")
  /\ UNCHANGED <<remote, inv, due, blocked, outcome, seen, changes, failures>>

\* _synchronize_head: a fetch publishes a HEAD that it verified, a clone verifies afterwards.
Synchronize ==
  /\ op.step = "synchronize" /\ ~HeadRefused(op.head)
  /\ mirror' = [mirror EXCEPT !.head = NewHead(op.head)]
  /\ Goto(IF mirror.state = "cloning" THEN "verify" ELSE "publish")
  /\ UNCHANGED <<remote, inv, due, blocked, outcome, seen, changes, failures>>

\* publish_local
Publish ==
  /\ op.step = "publish"
  /\ inv' = [inv EXCEPT !.local = LocalDigest(mirror), !.reconcile = FALSE]
  /\ Goto("probe")
  /\ UNCHANGED <<remote, mirror, due, blocked, outcome, seen, changes, failures>>

\* publish_remote, and the end of the job: a scheduled check queues a fetch if there is a
\* difference.
Probe ==
  /\ op.step = "probe" /\ Observable
  /\ inv' = [inv EXCEPT !.remote = RemoteDigest]
  /\ seen' = TRUE
  /\ Ends("done", IF op.origin = "scheduled" /\ Status' \in {"updates_available", "not_fetched"}
                  THEN "fetch" ELSE After)
  /\ UNCHANGED <<remote, mirror, changes, failures>>

\* Mutant of FetchFails: an incomplete clone is kept for the next attempt.
FetchFailsKeeping(how) ==
  /\ op' = [op EXCEPT !.step = how]
  /\ UNCHANGED <<remote, mirror, inv, due, blocked, outcome, seen, changes, failures>>

\* A fetch or clone fails: an incomplete clone is cleared, and what is there is observed.
FetchFails(how) ==
  /\ mirror' = IF mirror.state = "cloning" THEN NoMirror ELSE mirror
  /\ op' = [op EXCEPT !.step = how]
  /\ UNCHANGED <<remote, inv, due, blocked, outcome, seen, changes, failures>>

\* The remote, or what was fetched of it, is refused.
Refuses ==
  \/ /\ \/ op.step = "verify" /\ Advertised # op.head
        \/ op.step = "synchronize" /\ HeadRefused(op.head)
     /\ FetchFails("refused")
  \/ /\ op.step = "fetch" /\ WantsHead /\ Advertised.oid = None
     /\ FetchFails("failed")
  \/ /\ op.step = "probe" /\ ~Observable
     /\ IF op.kind = "fetch" THEN FetchFails("refused")
        ELSE Ends("refused", After)
             /\ UNCHANGED <<remote, mirror, inv, seen, changes, failures>>

\* What a failed fetch left is published, and the failure is reported.
PublishFailure ==
  /\ op.step \in {"refused", "failed"}
  /\ inv' = [inv EXCEPT !.local = LocalDigest(mirror), !.reconcile = FALSE]
  /\ IF op.step = "refused" THEN Ends("refused", After) ELSE EndsFailed
  /\ UNCHANGED <<remote, mirror, seen, changes, failures>>

\* A Git command, the disk or the claim fails.  The probe of a fetch is optional.
Fails ==
  /\ op.step # "idle" /\ failures < MaxFailures
  /\ failures' = failures + 1
  /\ IF op.kind = "fetch" /\ op.step \in {"clone", "discover", "fetch", "verify", "synchronize"}
     THEN /\ mirror' = IF mirror.state = "cloning" THEN NoMirror ELSE mirror
          /\ \/ Goto("failed") /\ UNCHANGED <<due, blocked, outcome>>
             \/ EndsFailed
     ELSE /\ mirror' = mirror
          /\ IF op.kind = "fetch" /\ op.step = "probe" THEN Ends("unprobed", After) ELSE EndsFailed
  /\ UNCHANGED <<remote, inv, seen, changes>>

\* The remote: a push, a deleted or new branch, a renamed default branch, a detached HEAD.
Change ==
  /\ changes < MaxChanges
  /\ \/ \E r \in Refs, o \in Oids \cup {None} : remote' = [remote EXCEPT !.refs[r] = o]
     \/ \E h \in HeadStates : remote' = [remote EXCEPT !.head = h]
  /\ remote' # remote
  /\ op' = [op EXCEPT !.quiet = op.step = "idle"]
  /\ seen' = FALSE
  /\ changes' = changes + 1
  /\ UNCHANGED <<mirror, inv, due, blocked, outcome, failures>>

Step ==
  \/ Clone \/ Discover \/ Fetch \/ Verify \/ Synchronize \/ Publish \/ Probe
  \/ Refuses \/ PublishFailure

Next ==
  \/ BeginFetch \/ \E origin \in {"manual", "scheduled"} : BeginCheck(origin)
  \/ AskFetch \/ Reenable \/ Step \/ Fails \/ Change

\* An operation goes on, and idle workers claim the checks of a schedule that is not blocked and
\* the fetches in the queue.  Nothing is assumed of the user.
Fairness == WF_vars(Step) /\ WF_vars(BeginCheck("scheduled")) /\ WF_vars(BeginFetch)

Spec == Init /\ [][Next]_vars /\ Fairness

----------------------------------------------------------------------------
(* Properties *)

\* The variables have their types; only a fetch has a mirror in the making, and every commit a
\* mirror names is in it.
TypeOK ==
  /\ remote \in [refs: RefMaps, head: HeadStates, unborn: BOOLEAN]
  /\ mirror.state \in {"none", "cloning", "whole"}
  /\ mirror.refs \in RefMaps /\ mirror.head \in HeadStates \cup {NoHead}
  /\ mirror.state = "cloning" => op.kind = "fetch"
  /\ Commits(mirror.refs) \cup ({mirror.head.oid} \ {None}) \subseteq mirror.have
  /\ inv.local \in Digests \cup {None} /\ inv.remote \in Digests \cup {None} /\ inv.reconcile \in BOOLEAN
  /\ due \in {"check", "fetch"} /\ blocked \in BOOLEAN
  /\ outcome \in {"none", "done", "unprobed", "refused", "failed"}

\* What a clone of the remote and a clone of the mirror would check out.
Same(m) ==
  /\ m.state = "whole" /\ m.refs = remote.refs
  /\ Resolved(m.refs, m.head) = Resolved(remote.refs, remote.head)
  /\ Resolved(m.refs, m.head) # None => m.head.target = remote.head.target

\* "current" is true of the mirror as it is, not as it once was: while the remote stays as it was
\* observed, the mirror has its refs and its HEAD, in the middle of operations and after failures.
CurrentIsTrue == Status = "current" /\ seen => Same(mirror)

\* A complete fetch leaves a HEAD that was advertised before and after the refs were fetched, and
\* that names what the fetched refs hold under that name; never a dangling one beside refs.
CompleteFetchResolves ==
  op.kind = "fetch" /\ op.step \in {"publish", "probe"} =>
    /\ mirror.state = "whole"
    /\ Resolved(mirror.refs, mirror.head) = op.head.oid
    /\ op.head.oid # None => mirror.head.target = op.head.target
    /\ ~Empty(mirror.refs) => op.head.oid # None

\* A fetch is refused only if the remote changed meanwhile or has refs and no HEAD: no HEAD or
\* partial update that an earlier fetch left in the mirror stands in its way.
RefusedForCause ==
  op.step = "refused" /\ op.kind = "fetch" => ~op.quiet \/ ~Observable

\* A fetch that completes while the remote is quiet is shown as current by its own probe.
QuietFetchIsCurrent ==
  [][op.kind = "fetch" /\ op.quiet /\ outcome' = "done" /\ outcome # "done" =>
       Status' = "current" /\ Same(mirror')]_vars

\* A remote that settles, with a HEAD if it has refs, is mirrored in the end: scheduled checks
\* notice whatever differs, also after partial updates, and their fetches repair it, provided
\* that the user does two things.  The code never tries a refused fetch again, so a schedule that
\* is blocked is at some time enabled again or freed by an operation that succeeds; and a check
\* made by hand takes the place of a scheduled one and fetches nothing, so it is not made for ever.
EventuallyMirrored ==
  /\ <>[]Observable
  /\ []<>~blocked
  /\ <>[](op.kind = "check" => op.origin = "scheduled")
  => <>[](Same(mirror) /\ Status \in {"current", "unknown"})
==============================================================================
