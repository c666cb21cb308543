----------------------------- MODULE HeadsProofs -----------------------------
(***************************************************************************)
(* The inventory's "current" is true, complete fetches leave a HEAD that   *)
(* resolves, and no fetch is refused without a cause: for every set of     *)
(* refs and commits, any number of changes of the remote and of failures.  *)
(***************************************************************************)
EXTENDS Heads, TLAPS

Fetching == {"clone", "discover", "fetch", "verify", "synchronize"}
Steps == Fetching \cup {"idle", "publish", "probe", "refused", "failed"}

Types ==
  /\ remote \in [refs: RefMaps, head: HeadStates, unborn: BOOLEAN]
  /\ mirror \in [state: {"none", "cloning", "whole"}, refs: RefMaps,
                 head: HeadStates \cup {NoHead}, have: SUBSET Oids]
  /\ inv \in [local: Digests \cup {None}, remote: Digests \cup {None}, reconcile: BOOLEAN]
  /\ op \in [kind: {"none", "fetch", "check"}, origin: {"manual", "scheduled"}, step: Steps,
             head: [target: Refs \cup {None}, oid: Oids \cup {None}], quiet: BOOLEAN]
  /\ due \in {"check", "fetch"} /\ blocked \in BOOLEAN
  /\ outcome \in {"none", "done", "unprobed", "refused", "failed"}
  /\ seen \in BOOLEAN

\* Where an operation may be, and what the mirror then is.
Places ==
  /\ op.step \in Fetching \cup {"refused", "failed"} => op.kind = "fetch"
  /\ op.step = "idle" <=> op.kind = "none"
  /\ op.step = "clone" => mirror.state = "none"
  /\ mirror.state = "cloning" => op.step \in {"discover", "synchronize", "verify"}
  /\ mirror.state = "none" => op.step \notin {"discover", "fetch", "verify", "synchronize"}
  /\ op.kind = "fetch" /\ op.step \in {"publish", "probe"} => mirror.state = "whole"
  /\ op.step \in Fetching => inv.reconcile
  /\ op.step = "probe" => ~inv.reconcile

\* Every commit that the mirror names is in it.
Closed == Commits(mirror.refs) \cup ({mirror.head.oid} \ {None}) \subseteq mirror.have

\* The digests of the inventory are those of what they were taken from.
Honest ==
  /\ ~inv.reconcile => inv.local = LocalDigest(mirror)
  /\ seen => inv.remote = RemoteDigest

\* The HEAD that was published is the one the remote told of.
Published ==
  /\ Resolved(mirror.refs, mirror.head) = op.head.oid
  /\ op.head.oid # None => mirror.head.target = op.head.target
  /\ ~Empty(mirror.refs) => op.head.oid # None

Publishing ==
  \/ op.kind = "fetch" /\ op.step \in {"publish", "probe"}
  \/ op.step = "verify" /\ mirror.state = "cloning"

\* While the remote is quiet, everything taken from it is still what it advertises.
Fresh ==
  op.kind = "fetch" /\ op.quiet =>
    /\ op.step \in {"fetch", "verify", "synchronize", "publish", "probe"} => op.head = Advertised
    /\ op.step \in {"verify", "synchronize", "publish", "probe"} \/ mirror.state = "cloning" =>
         /\ mirror.refs = remote.refs
         /\ Advertised.target = None /\ Advertised.oid # None => Advertised.oid \in mirror.have

\* The inductive invariant.
IInv ==
  /\ Types /\ Places /\ Closed /\ Honest
  /\ Publishing => Published
  /\ Fresh /\ RefusedForCause

----------------------------------------------------------------------------
(* Types of what is advertised and computed *)

LEMMA AdvertisedTypes ==
  ASSUME Types
  PROVE  /\ Resolved(remote.refs, remote.head) \in Oids \cup {None}
         /\ Advertised \in [target: Refs \cup {None}, oid: Oids \cup {None}]
         /\ RemoteDigest \in Digests
  <1>1. Resolved(remote.refs, remote.head) \in Oids \cup {None}
    BY HeadsAssumption DEF Types, Resolved, RefMaps, HeadStates, Symbolic, Detached
  <1>2. remote.head.target \in Refs \cup {None}
    BY DEF Types, HeadStates, Symbolic, Detached
  <1>3. Advertised \in [target: Refs \cup {None}, oid: Oids \cup {None}]
    BY <1>1, <1>2 DEF Advertised
  <1>4. RemoteDigest \in Digests
    BY <1>3 DEF RemoteDigest, Digest, Digests, Types
  <1> QED BY <1>1, <1>3, <1>4

LEMMA LocalTypes ==
  ASSUME Types
  PROVE  /\ Resolved(mirror.refs, mirror.head) \in Oids \cup {None}
         /\ LocalDigest(mirror) \in Digests \cup {None}
  <1>1. Resolved(mirror.refs, mirror.head) \in Oids \cup {None}
    BY HeadsAssumption DEF Types, Resolved, RefMaps, HeadStates, NoHead, Symbolic, Detached
  <1>2. mirror.head.target \in Refs \cup {None}
    BY DEF Types, HeadStates, NoHead, Symbolic, Detached
  <1> QED BY <1>1, <1>2 DEF LocalDigest, Digest, Digests, Types

LEMMA NewHeadTypes ==
  ASSUME Types, NEW head \in [target: Refs \cup {None}, oid: Oids \cup {None}],
         ~HeadRefused(head)
  PROVE  /\ NewHead(head) \in HeadStates
         /\ NewHead(head).oid \in mirror.have \cup {None} \cup {mirror.head.oid}
         /\ Resolved(mirror.refs, NewHead(head)) = head.oid
         /\ head.oid # None => NewHead(head).target = head.target
         /\ ~Empty(mirror.refs) => head.oid # None
  <1>1. CASE head.target # None
    <2>1. head.target \in Refs /\ NewHead(head) = Symbolic(head.target)
      BY <1>1 DEF NewHead
    <2>2. mirror.refs[head.target] = head.oid /\ (~Empty(mirror.refs) => head.oid # None)
      BY <1>1 DEF HeadRefused
    <2> QED BY <1>1, <2>1, <2>2 DEF Symbolic, HeadStates, Resolved
  <1>2. CASE head.target = None /\ head.oid # None
    <2>1. NewHead(head) = Detached(head.oid) /\ head.oid \in Oids /\ head.oid \in mirror.have
      BY <1>2 DEF NewHead, HeadRefused
    <2> QED BY <1>2, <2>1 DEF Detached, HeadStates, Resolved
  <1>3. CASE head.target = None /\ head.oid = None
    <2>1. Empty(mirror.refs)
      BY <1>3 DEF HeadRefused
    <2>2. PICK h \in HeadStates : NewHead(head) = h /\ h.target \in Refs /\ h.oid = None
      <3>1. CASE mirror.head.target = None
        <4>1. NewHead(head) = Symbolic(Main)
          BY <1>3, <3>1 DEF NewHead
        <4>2. Symbolic(Main) \in HeadStates /\ Symbolic(Main).target \in Refs
              /\ Symbolic(Main).oid = None
          BY HeadsAssumption DEF HeadStates, Symbolic
        <4> QED BY <4>1, <4>2
      <3>2. CASE mirror.head.target # None
        BY <1>3, <3>2 DEF NewHead, HeadStates, Symbolic, Detached, NoHead, Types
      <3> QED BY <3>1, <3>2
    <2>3. Resolved(mirror.refs, NewHead(head)) = None
      BY <2>1, <2>2, HeadsAssumption DEF Resolved, Empty, NoRefs
    <2> QED BY <1>3, <2>1, <2>2, <2>3
  <1> QED BY <1>1, <1>2, <1>3

LEMMA InitHolds == Init => IInv
  <1> SUFFICES ASSUME Init PROVE IInv
    OBVIOUS
  <1>1. NoRefs \in RefMaps
    BY DEF NoRefs, RefMaps
  <1>2. Types
    BY <1>1 DEF Init, Types, NoMirror, NoHead, Idle, Steps
  <1>3. Closed
    BY HeadsAssumption DEF Init, Closed, Commits, NoMirror, NoRefs, NoHead
  <1>4. Places /\ Fresh /\ RefusedForCause /\ ~Publishing
    BY DEF Init, Places, Fetching, Idle, NoMirror, Fresh, RefusedForCause, Publishing
  <1>5. Honest
    BY DEF Init, Honest, LocalDigest, NoMirror
  <1> QED BY <1>2, <1>3, <1>4, <1>5 DEF IInv

----------------------------------------------------------------------------
(* The steps.  What is advertised depends on the remote alone. *)

LEMMA SameRemote ==
  ASSUME UNCHANGED remote
  PROVE  Advertised' = Advertised /\ (Observable <=> Observable') /\ RemoteDigest' = RemoteDigest
  BY DEF Advertised, Observable, RemoteDigest

LEMMA BeginFetchHolds ==
  ASSUME IInv, BeginFetch
  PROVE  IInv'
  <1> USE DEF IInv, BeginFetch
  <1>1. Types'
    BY DEF Types, Idle, NoHead, Steps, Fetching
  <1>2. Places'
    BY DEF Types, Places, Idle, Fetching
  <1>3. Closed' /\ Honest'
    BY SameRemote DEF Closed, Commits, Honest
  <1>4. ~Publishing' /\ RefusedForCause'
    BY DEF Publishing, RefusedForCause, Idle
  <1>5. Fresh'
    BY DEF Fresh, Idle, Places
  <1> QED BY <1>1, <1>2, <1>3, <1>4, <1>5

LEMMA BeginCheckHolds ==
  ASSUME IInv, NEW origin \in {"manual", "scheduled"}, BeginCheck(origin)
  PROVE  IInv'
  <1> USE DEF IInv, BeginCheck
  <1>1. Types'
    BY DEF Types, Idle, NoHead, Steps, Fetching
  <1>2. Places'
    BY DEF Types, Places, Idle, Fetching
  <1>3. Closed' /\ Honest'
    BY SameRemote DEF Closed, Commits, Honest
  <1>4. ~Publishing' /\ RefusedForCause' /\ Fresh'
    BY DEF Publishing, RefusedForCause, Fresh, Idle
  <1> QED BY <1>1, <1>2, <1>3, <1>4

LEMMA AskFetchHolds ==
  ASSUME IInv, AskFetch
  PROVE  IInv'
  <1>1. Types' /\ Places' /\ Closed'
    BY DEF IInv, AskFetch, Types, Places, Closed, Commits
  <1>2. Honest' /\ Fresh' /\ RefusedForCause' /\ (Publishing => Published)'
    BY SameRemote DEF IInv, AskFetch, Honest, Fresh, RefusedForCause, Publishing, Published
  <1> QED BY <1>1, <1>2 DEF IInv

LEMMA ReenableHolds ==
  ASSUME IInv, Reenable
  PROVE  IInv'
  <1>0. blocked' \in BOOLEAN /\ UNCHANGED <<remote, mirror, inv, op, due, outcome, seen>>
    BY DEF Reenable
  <1>1. Types' /\ Places' /\ Closed'
    BY <1>0 DEF IInv, Types, Places, Closed, Commits
  <1>2. Honest' /\ Fresh' /\ RefusedForCause' /\ (Publishing => Published)'
    BY SameRemote DEF IInv, Reenable, Honest, Fresh, RefusedForCause, Publishing, Published
  <1> QED BY <1>1, <1>2 DEF IInv

LEMMA CloneHolds ==
  ASSUME IInv, Clone
  PROVE  IInv'
  <1> DEFINE have == Commits(remote.refs) \cup ({Advertised.oid} \ {None})
  <1>1. PICK h \in {Symbolic(r) : r \in Refs} \cup {Detached(o) : o \in have} :
          mirror' = [state |-> "cloning", refs |-> remote.refs, head |-> h, have |-> have]
    BY DEF Clone
  <1>2. have \subseteq Oids
    BY AdvertisedTypes DEF IInv, Types, Commits, RefMaps
  <1>3. h \in HeadStates /\ h.oid \in have \cup {None}
    BY <1>2 DEF HeadStates, Symbolic, Detached
  <1>4. Types'
    BY <1>1, <1>2, <1>3 DEF IInv, Types, Clone, Goto, Steps, Fetching
  <1>5. Places'
    BY <1>1 DEF IInv, Types, Places, Clone, Goto, Fetching
  <1>6. Closed'
    BY <1>1, <1>3 DEF Closed, Commits
  <1>7. Honest'
    BY SameRemote DEF IInv, Places, Fetching, Honest, Clone
  <1>8. ~Publishing' /\ RefusedForCause'
    BY DEF IInv, Types, Clone, Goto, Publishing, RefusedForCause
  <1>9. Fresh'
    BY <1>1, SameRemote DEF IInv, Types, Fresh, Clone, Goto
  <1> QED BY <1>4, <1>5, <1>6, <1>7, <1>8, <1>9 DEF IInv

LEMMA DiscoverHolds ==
  ASSUME IInv, Discover
  PROVE  IInv'
  <1>a. Advertised \in [target: Refs \cup {None}, oid: Oids \cup {None}]
    BY AdvertisedTypes DEF IInv
  <1>b. PICK step \in {"synchronize", "fetch"} :
          op' = [op EXCEPT !.head = Advertised, !.step = step]
    BY DEF Discover
  <1>1. Types'
    <2>1. op' \in [kind: {"none", "fetch", "check"}, origin: {"manual", "scheduled"}, step: Steps,
                   head: [target: Refs \cup {None}, oid: Oids \cup {None}], quiet: BOOLEAN]
      BY <1>a, <1>b DEF IInv, Types, Steps, Fetching
    <2> QED BY <2>1 DEF IInv, Types, Discover
  <1>2. Places'
    BY DEF IInv, Types, Places, Discover, Fetching
  <1>3. Closed' /\ Honest'
    BY SameRemote DEF IInv, Closed, Commits, Honest, Discover
  <1>4. ~Publishing' /\ RefusedForCause'
    BY DEF IInv, Types, Discover, Publishing, RefusedForCause
  <1>5. Fresh'
    BY SameRemote DEF IInv, Types, Fresh, Discover
  <1> QED BY <1>1, <1>2, <1>3, <1>4, <1>5 DEF IInv

LEMMA FetchHolds ==
  ASSUME IInv, Fetch
  PROVE  IInv'
  <1>1. Commits(remote.refs) \subseteq Oids
    BY DEF IInv, Types, Commits, RefMaps
  <1>2. WantsHead => Advertised.oid \in Oids
    BY AdvertisedTypes DEF IInv, Fetch
  <1>3. Types'
    BY <1>1, <1>2 DEF IInv, Types, Fetch, Goto, Steps, Fetching
  <1>4. Places'
    BY DEF IInv, Types, Places, Fetch, Goto, Fetching
  <1>5. Closed'
    BY DEF IInv, Types, Closed, Commits, Fetch
  <1>6. Honest'
    BY SameRemote DEF IInv, Places, Fetching, Honest, Fetch
  <1>7. ~Publishing' /\ RefusedForCause'
    BY DEF IInv, Types, Places, Fetch, Goto, Publishing, RefusedForCause
  <1>8. Fresh'
    BY <1>2, SameRemote DEF IInv, Types, Fresh, Fetch, Goto, WantsHead
  <1> QED BY <1>3, <1>4, <1>5, <1>6, <1>7, <1>8 DEF IInv

LEMMA VerifyHolds ==
  ASSUME IInv, Verify
  PROVE  IInv'
  <1>1. Types'
    BY DEF IInv, Types, Verify, Goto, Steps, Fetching
  <1>2. Places'
    BY DEF IInv, Types, Places, Verify, Goto, Fetching
  <1>3. Closed'
    BY DEF IInv, Types, Closed, Commits, Verify
  <1>4. Honest'
    BY SameRemote DEF IInv, Places, Fetching, Honest, Verify
  <1>5. (Publishing => Published)'
    BY DEF IInv, Types, Verify, Goto, Publishing, Published
  <1>6. RefusedForCause'
    BY DEF IInv, Types, Verify, Goto, RefusedForCause
  <1>7. Fresh'
    BY SameRemote DEF IInv, Types, Places, Fetching, Fresh, Verify, Goto
  <1> QED BY <1>1, <1>2, <1>3, <1>4, <1>5, <1>6, <1>7 DEF IInv

LEMMA SynchronizeHolds ==
  ASSUME IInv, Synchronize
  PROVE  IInv'
  <1>1. op.head \in [target: Refs \cup {None}, oid: Oids \cup {None}]
    BY DEF IInv, Types
  <1>2. /\ mirror' = [mirror EXCEPT !.head = NewHead(op.head)]
        /\ op' = [op EXCEPT !.step = IF mirror.state = "cloning" THEN "verify" ELSE "publish"]
        /\ UNCHANGED <<remote, inv, due, blocked, outcome, seen>>
    BY DEF Synchronize, Goto
  <1>3. /\ NewHead(op.head) \in HeadStates
        /\ NewHead(op.head).oid \in mirror.have \cup {None} \cup {mirror.head.oid}
        /\ Resolved(mirror.refs, NewHead(op.head)) = op.head.oid
        /\ op.head.oid # None => NewHead(op.head).target = op.head.target
        /\ ~Empty(mirror.refs) => op.head.oid # None
    BY <1>1, NewHeadTypes DEF IInv, Synchronize
  <1>4. Types'
    BY <1>2, <1>3 DEF IInv, Types, Steps, Fetching
  <1>5. Places'
    BY <1>2 DEF IInv, Types, Places, Synchronize, Fetching
  <1>6. Closed'
    BY <1>2, <1>3 DEF IInv, Types, Closed, Commits
  <1>7. Honest'
    BY <1>2, SameRemote DEF IInv, Places, Fetching, Honest, Synchronize
  <1>8. Published'
    BY <1>2, <1>3 DEF IInv, Types, Published
  <1>9. RefusedForCause'
    BY <1>2 DEF IInv, Types, RefusedForCause
  <1>10. Fresh'
    BY <1>2, SameRemote DEF IInv, Types, Fresh, Synchronize
  <1> QED BY <1>4, <1>5, <1>6, <1>7, <1>8, <1>9, <1>10 DEF IInv

LEMMA PublishHolds ==
  ASSUME IInv, Publish
  PROVE  IInv'
  <1>1. Types'
    BY LocalTypes DEF IInv, Types, Publish, Goto, Steps, Fetching
  <1>2. Places'
    BY DEF IInv, Types, Places, Publish, Goto, Fetching
  <1>3. Closed'
    BY DEF IInv, Closed, Commits, Publish
  <1>4. Honest'
    BY SameRemote DEF IInv, Types, Honest, Publish
  <1>5. (Publishing => Published)'
    BY DEF IInv, Types, Publish, Goto, Publishing, Published
  <1>6. RefusedForCause'
    BY DEF IInv, Types, Publish, Goto, RefusedForCause
  <1>7. Fresh'
    BY SameRemote DEF IInv, Types, Fresh, Publish, Goto
  <1> QED BY <1>1, <1>2, <1>3, <1>4, <1>5, <1>6, <1>7 DEF IInv

\* An operation that ends leaves nothing to say of it.
LEMMA IdleHolds ==
  ASSUME op' = Idle
  PROVE  ~Publishing' /\ RefusedForCause' /\ Fresh'
  BY DEF Idle, Publishing, RefusedForCause, Fresh

\* How a job ends, and what is due after it.
LEMMA EndTypes ==
  ASSUME IInv,
         NEW how \in {"done", "unprobed", "refused", "failed"}, NEW next \in {"check", "fetch"},
         Ends(how, next)
  PROVE  op' = Idle /\ outcome' = how /\ due' \in {"check", "fetch"} /\ blocked' \in BOOLEAN
  BY DEF IInv, Types, Ends

LEMMA AfterType == IInv => After \in {"check", "fetch"}
  BY DEF IInv, Types, After

LEMMA FailedTypes ==
  ASSUME IInv, EndsFailed
  PROVE  op' = Idle /\ outcome' \in {"refused", "failed"} /\ due' \in {"check", "fetch"}
         /\ blocked' \in BOOLEAN
  <1>1. due \in {"check", "fetch"}
    BY DEF IInv, Types
  <1> QED BY <1>1, AfterType, EndTypes DEF EndsFailed

LEMMA ProbeHolds ==
  ASSUME IInv, Probe
  PROVE  IInv'
  <1>1. /\ op' = Idle /\ outcome' = "done" /\ due' \in {"check", "fetch"} /\ blocked' \in BOOLEAN
        /\ seen' = TRUE
        /\ inv' = [inv EXCEPT !.remote = RemoteDigest] /\ UNCHANGED <<remote, mirror>>
    BY AfterType, EndTypes DEF Probe
  <1>2. Types'
    BY <1>1, AdvertisedTypes DEF IInv, Types, Idle, NoHead, Steps
  <1>3. Places'
    BY <1>1 DEF IInv, Types, Places, Probe, Idle, Fetching
  <1>4. Closed'
    BY <1>1 DEF IInv, Closed, Commits
  <1>5. Honest'
    BY <1>1, SameRemote DEF IInv, Types, Honest
  <1> QED BY <1>1, <1>2, <1>3, <1>4, <1>5, IdleHolds DEF IInv

\* What is left of a mirror when a fetch fails: nothing of an incomplete clone.
Left == IF mirror.state = "cloning" THEN NoMirror ELSE mirror

LEMMA LeftHolds ==
  ASSUME IInv, mirror' = Left
  PROVE  /\ mirror' \in [state: {"none", "whole"}, refs: RefMaps,
                         head: HeadStates \cup {NoHead}, have: SUBSET Oids]
         /\ Closed'
         /\ ~inv.reconcile => mirror' = mirror
  <1>1. NoRefs \in RefMaps
    BY DEF NoRefs, RefMaps
  <1>2. CASE mirror.state = "cloning"
    <2>1. mirror' = NoMirror /\ inv.reconcile
      BY <1>2 DEF IInv, Places, Fetching, Left
    <2>2. Closed'
      BY <2>1, HeadsAssumption DEF Closed, Commits, NoMirror, NoRefs, NoHead
    <2> QED BY <1>1, <2>1, <2>2 DEF NoMirror
  <1>3. CASE mirror.state # "cloning"
    BY <1>3 DEF IInv, Types, Closed, Commits, Left
  <1> QED BY <1>2, <1>3

LEMMA FetchFailsHolds ==
  ASSUME IInv, NEW how \in {"refused", "failed"}, FetchFails(how), op.kind = "fetch",
         how = "refused" => ~op.quiet \/ ~Observable
  PROVE  IInv'
  <1>1. mirror' = Left /\ op' = [op EXCEPT !.step = how] /\ UNCHANGED <<remote, inv, due, blocked, outcome, seen>>
    BY DEF FetchFails, Left
  <1>2. Types'
    BY <1>1, LeftHolds DEF IInv, Types, Steps
  <1>3. Places'
    BY <1>1, LeftHolds DEF IInv, Types, Places, Fetching
  <1>4. Closed'
    BY <1>1, LeftHolds
  <1>5. Honest'
    BY <1>1, LeftHolds, SameRemote DEF IInv, Honest
  <1>6. ~Publishing'
    BY <1>1, LeftHolds DEF IInv, Types, Publishing
  <1>7. RefusedForCause'
    BY <1>1, SameRemote DEF IInv, Types, RefusedForCause
  <1>8. Fresh'
    BY <1>1, LeftHolds DEF IInv, Types, Fresh
  <1> QED BY <1>2, <1>3, <1>4, <1>5, <1>6, <1>7, <1>8 DEF IInv

\* What a quiet remote advertised, and a fetch took, is never refused.
LEMMA QuietNotRefused ==
  ASSUME IInv, op.step = "synchronize", op.quiet, HeadRefused(op.head)
  PROVE  ~Observable
  <1>1. /\ op.head = Advertised /\ mirror.refs = remote.refs
        /\ Advertised.target = None /\ Advertised.oid # None => Advertised.oid \in mirror.have
    BY DEF IInv, Fresh, Places, Fetching
  <1>2. Advertised.oid = Resolved(remote.refs, remote.head)
    BY DEF Advertised
  <1>3. CASE Advertised.target # None
    <2>1. Advertised.target = remote.head.target
      BY <1>3 DEF Advertised
    <2>2. remote.refs[Advertised.target] = Advertised.oid
      BY <1>2, <1>3, <2>1 DEF Resolved
    <2> QED BY <1>1, <1>3, <2>2 DEF HeadRefused, Observable
  <1>4. CASE Advertised.target = None
    BY <1>1, <1>4 DEF HeadRefused, Observable
  <1> QED BY <1>3, <1>4

LEMMA RefusesHolds ==
  ASSUME IInv, Refuses
  PROVE  IInv'
  <1>1. CASE op.step = "verify" /\ Advertised # op.head /\ FetchFails("refused")
    <2>1. op.kind = "fetch" /\ ~op.quiet
      BY <1>1 DEF IInv, Places, Fetching, Fresh
    <2> QED BY <1>1, <2>1, FetchFailsHolds
  <1>2. CASE op.step = "synchronize" /\ HeadRefused(op.head) /\ FetchFails("refused")
    <2>1. op.kind = "fetch" /\ (~op.quiet \/ ~Observable)
      BY <1>2, QuietNotRefused DEF IInv, Places, Fetching
    <2> QED BY <1>2, <2>1, FetchFailsHolds
  <1>3. CASE op.step = "fetch" /\ FetchFails("failed")
    <2>1. op.kind = "fetch"
      BY <1>3 DEF IInv, Places, Fetching
    <2> QED BY <1>3, <2>1, FetchFailsHolds
  <1>4. CASE op.step = "probe" /\ ~Observable /\ op.kind = "fetch" /\ FetchFails("refused")
    BY <1>4, FetchFailsHolds
  <1>5. CASE /\ op.step = "probe" /\ Ends("refused", After)
             /\ UNCHANGED <<remote, mirror, inv, seen, changes, failures>>
    <2>1. op' = Idle /\ outcome' = "refused" /\ due' \in {"check", "fetch"} /\ blocked' \in BOOLEAN
          /\ UNCHANGED <<remote, mirror, inv, seen>>
      BY <1>5, AfterType, EndTypes
    <2>2. Types'
      BY <2>1 DEF IInv, Types, Idle, NoHead, Steps
    <2>3. Places'
      BY <1>5, <2>1 DEF IInv, Types, Places, Idle, Fetching
    <2>4. Closed' /\ Honest'
      BY <2>1, SameRemote DEF IInv, Closed, Commits, Honest
    <2> QED BY <2>1, <2>2, <2>3, <2>4, IdleHolds DEF IInv
  <1> QED BY <1>1, <1>2, <1>3, <1>4, <1>5 DEF Refuses

LEMMA PublishFailureHolds ==
  ASSUME IInv, PublishFailure
  PROVE  IInv'
  <1>1. /\ op' = Idle /\ outcome' \in {"refused", "failed"} /\ due' \in {"check", "fetch"}
        /\ blocked' \in BOOLEAN
        /\ inv' = [inv EXCEPT !.local = LocalDigest(mirror), !.reconcile = FALSE]
        /\ UNCHANGED <<remote, mirror, seen>>
    BY AfterType, EndTypes, FailedTypes DEF PublishFailure
  <1>2. Types'
    BY <1>1, LocalTypes DEF IInv, Types, Idle, NoHead, Steps
  <1>3. Places'
    BY <1>1 DEF IInv, Types, Places, PublishFailure, Idle, Fetching
  <1>4. Closed'
    BY <1>1 DEF IInv, Closed, Commits
  <1>5. Honest'
    BY <1>1, SameRemote DEF IInv, Types, Honest
  <1> QED BY <1>1, <1>2, <1>3, <1>4, <1>5, IdleHolds DEF IInv

LEMMA FailsHolds ==
  ASSUME IInv, Fails
  PROVE  IInv'
  <1>1. CASE op.kind = "fetch" /\ op.step \in Fetching /\ mirror' = Left /\ Goto("failed")
             /\ UNCHANGED <<remote, inv, due, blocked, outcome, seen>>
    <2>2. Types'
      BY <1>1, LeftHolds DEF IInv, Types, Goto, Steps
    <2>3. Places'
      BY <1>1, LeftHolds DEF IInv, Types, Places, Goto, Fetching
    <2>4. Closed' /\ Honest'
      BY <1>1, LeftHolds, SameRemote DEF IInv, Honest
    <2>5. ~Publishing' /\ RefusedForCause' /\ Fresh'
      BY <1>1, LeftHolds DEF IInv, Types, Goto, Publishing, RefusedForCause, Fresh
    <2> QED BY <2>2, <2>3, <2>4, <2>5 DEF IInv
  <1>2. CASE op.kind = "fetch" /\ op.step \in Fetching /\ mirror' = Left /\ EndsFailed
             /\ UNCHANGED <<remote, inv, seen>>
    <2>1. op' = Idle /\ outcome' \in {"refused", "failed"} /\ due' \in {"check", "fetch"}
          /\ blocked' \in BOOLEAN
      BY <1>2, FailedTypes
    <2>2. Types'
      BY <1>2, <2>1, LeftHolds DEF IInv, Types, Idle, NoHead, Steps
    <2>3. Places'
      BY <1>2, <2>1, LeftHolds DEF IInv, Types, Places, Idle, Fetching
    <2>4. Closed' /\ Honest'
      BY <1>2, LeftHolds, SameRemote DEF IInv, Honest
    <2> QED BY <2>1, <2>2, <2>3, <2>4, IdleHolds DEF IInv
  <1>3. CASE /\ ~(op.kind = "fetch" /\ op.step \in Fetching) /\ op.step # "idle"
             /\ op' = Idle /\ outcome' \in {"refused", "failed", "unprobed"}
             /\ due' \in {"check", "fetch"} /\ blocked' \in BOOLEAN
             /\ UNCHANGED <<remote, mirror, inv, seen>>
    <2>1. Types'
      BY <1>3 DEF IInv, Types, Idle, NoHead, Steps
    <2>2. Places'
      BY <1>3 DEF IInv, Types, Places, Idle, Fetching
    <2>3. Closed' /\ Honest'
      BY <1>3, SameRemote DEF IInv, Closed, Commits, Honest
    <2> QED BY <1>3, <2>1, <2>2, <2>3, IdleHolds DEF IInv
  <1>4. CASE op.kind = "fetch" /\ op.step \in Fetching
    BY <1>1, <1>2, <1>4 DEF Fails, Left, Fetching
  <1>5. CASE ~(op.kind = "fetch" /\ op.step \in Fetching)
    <2>1. Ends("unprobed", After) \/ EndsFailed
      BY <1>5 DEF Fails, Fetching
    <2>2. /\ op' = Idle /\ outcome' \in {"refused", "failed", "unprobed"}
          /\ due' \in {"check", "fetch"} /\ blocked' \in BOOLEAN
      BY <2>1, AfterType, EndTypes, FailedTypes
    <2> QED BY <1>3, <1>5, <2>2 DEF Fails, Fetching
  <1> QED BY <1>4, <1>5

LEMMA ChangeHolds ==
  ASSUME IInv, Change
  PROVE  IInv'
  <1>1. remote' \in [refs: RefMaps, head: HeadStates, unborn: BOOLEAN]
    BY DEF IInv, Types, Change, RefMaps
  <1>2. op' = [op EXCEPT !.quiet = op.step = "idle"] /\ seen' = FALSE
        /\ UNCHANGED <<mirror, inv, due, blocked, outcome>>
    BY DEF Change
  <1>3. Types'
    BY <1>1, <1>2 DEF IInv, Types
  <1>4. Places' /\ Closed' /\ Honest'
    BY <1>2 DEF IInv, Types, Places, Closed, Commits, Honest
  <1>5. (Publishing => Published)'
    BY <1>2 DEF IInv, Types, Publishing, Published
  <1>6. RefusedForCause' /\ Fresh'
    BY <1>2 DEF IInv, Types, Places, RefusedForCause, Fresh
  <1> QED BY <1>3, <1>4, <1>5, <1>6 DEF IInv

LEMMA StutterHolds ==
  ASSUME IInv, UNCHANGED vars
  PROVE  IInv'
  <1>1. Types' /\ Places' /\ Closed'
    BY DEF IInv, vars, Types, Places, Closed, Commits
  <1>2. Honest' /\ Fresh' /\ RefusedForCause' /\ (Publishing => Published)'
    BY SameRemote DEF IInv, vars, Honest, Fresh, RefusedForCause, Publishing, Published
  <1> QED BY <1>1, <1>2 DEF IInv

----------------------------------------------------------------------------
(* Theorems *)

\* The invariant holds in every reachable state.
THEOREM HeadsInvariant == Spec => []IInv
  <1>1. IInv /\ [Next]_vars => IInv'
    BY BeginFetchHolds, BeginCheckHolds, AskFetchHolds, ReenableHolds, CloneHolds, DiscoverHolds,
       FetchHolds, VerifyHolds, SynchronizeHolds, PublishHolds, ProbeHolds, RefusesHolds, PublishFailureHolds,
       FailsHolds, ChangeHolds, StutterHolds
    DEF Next, Step
  <1> QED BY InitHolds, <1>1, PTL DEF Spec

\* No operation and no change of the remote takes the mirror, the inventory or the memory of an
\* operation out of their types, and the mirror holds every commit that it names.
THEOREM HeadsTypes == Spec => []TypeOK
  <1>1. IInv => TypeOK
    BY DEF IInv, Types, Places, Fetching, Closed, TypeOK
  <1> QED BY HeadsInvariant, <1>1, PTL

\* "current" is true: equal digests mean equal refs and the same HEAD (RefSnapshot.digest).
THEOREM CurrentIsTrueAlways == Spec => []CurrentIsTrue
  <1>1. ASSUME IInv, Status = "current", seen PROVE Same(mirror)
    <2>1. ~inv.reconcile /\ inv.local # None /\ inv.local = inv.remote
      BY <1>1 DEF Status
    <2>2. LocalDigest(mirror) # None /\ LocalDigest(mirror) = RemoteDigest
      BY <1>1, <2>1 DEF IInv, Honest
    <2>3. mirror.state = "whole"
      BY <1>1, <2>1, <2>2 DEF IInv, Types, Places, Fetching, LocalDigest
    <2>4. Digest(mirror.refs, mirror.head.target, Resolved(mirror.refs, mirror.head))
          = Digest(remote.refs, Advertised.target, Advertised.oid)
      BY <2>2, <2>3 DEF LocalDigest, RemoteDigest
    <2>5. /\ mirror.refs = remote.refs /\ Resolved(mirror.refs, mirror.head) = Advertised.oid
          /\ Advertised.oid # None => mirror.head.target = Advertised.target
      BY <2>4 DEF Digest
    <2>6. /\ Advertised.oid = Resolved(remote.refs, remote.head)
          /\ Advertised.oid # None => Advertised.target = remote.head.target
      BY DEF Advertised
    <2> QED BY <2>3, <2>5, <2>6 DEF Same
  <1>2. IInv => CurrentIsTrue
    BY <1>1 DEF CurrentIsTrue
  <1> QED BY HeadsInvariant, <1>2, PTL

\* A complete fetch leaves a HEAD that was advertised and that resolves in the fetched refs.
THEOREM CompleteFetchResolvesAlways == Spec => []CompleteFetchResolves
  <1>1. IInv => CompleteFetchResolves
    BY DEF IInv, Places, Publishing, Published, CompleteFetchResolves
  <1> QED BY HeadsInvariant, <1>1, PTL

\* A fetch is refused only because the remote changed or advertises refs without a HEAD.
THEOREM RefusedForCauseAlways == Spec => []RefusedForCause
  <1>1. IInv => RefusedForCause
    BY DEF IInv
  <1> QED BY HeadsInvariant, <1>1, PTL

\* A fetch of a quiet remote makes the mirror equal to it, and its own probe says so.
THEOREM QuietFetchIsCurrentAlways == Spec => QuietFetchIsCurrent
  <1> DEFINE A == op.kind = "fetch" /\ op.quiet /\ outcome' = "done" /\ outcome # "done" =>
                    Status' = "current" /\ Same(mirror')
  <1>1. ASSUME IInv, Next, op.kind = "fetch", op.quiet, outcome' = "done", outcome # "done"
        PROVE  Status' = "current" /\ Same(mirror')
    <2>1. Probe
      BY <1>1 DEF Next, Step, BeginFetch, BeginCheck, AskFetch, Reenable, Clone, Discover, Fetch,
                  Verify, Synchronize, Publish, Refuses, FetchFails, PublishFailure, Fails, Change,
                  Ends, EndsFailed
    <2>2. /\ op.step = "probe" /\ UNCHANGED <<remote, mirror>>
          /\ inv' = [inv EXCEPT !.remote = RemoteDigest]
      BY <2>1 DEF Probe
    <2>3. mirror.state = "whole" /\ mirror.refs = remote.refs /\ op.head = Advertised
      BY <1>1, <2>2 DEF IInv, Places, Fresh
    <2>4. /\ Resolved(mirror.refs, mirror.head) = Advertised.oid
          /\ Advertised.oid # None => mirror.head.target = Advertised.target
      BY <1>1, <2>2, <2>3 DEF IInv, Publishing, Published
    <2>5. /\ Advertised.oid = Resolved(remote.refs, remote.head)
          /\ Advertised.oid # None => Advertised.target = remote.head.target
      BY DEF Advertised
    <2>6. Same(mirror')
      BY <2>2, <2>3, <2>4, <2>5 DEF Same
    <2>7. LocalDigest(mirror) = RemoteDigest
      BY <2>3, <2>4 DEF LocalDigest, RemoteDigest, Digest
    <2>8. RemoteDigest # None
      BY <1>1, AdvertisedTypes, DigestAssumption DEF IInv
    <2>9. inv.local = LocalDigest(mirror) /\ ~inv.reconcile
      BY <1>1, <2>2 DEF IInv, Places, Honest
    <2>10. ~inv'.reconcile /\ inv'.remote = RemoteDigest /\ inv'.local = RemoteDigest
      BY <1>1, <2>2, <2>7, <2>9 DEF IInv, Types
    <2>11. Status' = "current"
      BY <2>8, <2>10 DEF Status
    <2> QED BY <2>6, <2>11
  <1>2. IInv /\ [Next]_vars => [A]_vars
    BY <1>1
  <1> QED BY HeadsInvariant, <1>2, PTL DEF Spec, QuietFetchIsCurrent
==============================================================================
