---------------------------- MODULE Registration ----------------------------
(****************************************************************************)
(* How repositories get into the index and what binds them: add and the     *)
(* web page's preview and register (manager_service.register_batch), the    *)
(* fetch of keys and URLs with its adoption prompt (repo_cli, fetch_service *)
(* and repo_service), a worker's fetch, queue, and audit --fix.             *)
(*                                                                          *)
(* A row of the index binds a key to an archive root and to a source path;  *)
(* source.json binds the archive to a source path, too.  Every command      *)
(* reads in one connection and writes in a later transaction, so that other *)
(* commands, the settings and a user thinking about a prompt come between.  *)
(* A directory is absent, supplied (a mirror somebody put there, with its   *)
(* origin) or ready; its contents are module Archive's subject, filing of   *)
(* jobs is module JobTable's, and URLs come parsed.                         *)
(****************************************************************************)
EXTENDS Naturals, Sequences

CONSTANTS
  Procs, Roots, Keys, Sources, None,
  Urls,       \* clone URLs: records of a key, a source path and a spelling
  Commands,   \* Commands[p]: the commands that p may be given
  Supplies,   \* what every directory may hold at first
  Faults      \* bound: transactions that fail, operations that lose their claim

\* A command is given URLs, an audit directories; a worker takes what is queued.
Kinds == {"add", "review", "queue", "fetch", "audit", "worker"}
Places == [key: Keys, root: Roots]
Directory == [state: {"absent", "supplied", "ready"}, source: Sources \cup {None}]

ASSUME RegistrationAssumption ==
  /\ None \notin Procs \cup Roots \cup Keys \cup Sources
  /\ \A u \in Urls : u.key \in Keys \cup {None} /\ u.source \in Sources
  /\ Supplies \subseteq Directory /\ Faults \in Nat
  /\ \A p \in Procs : \A c \in Commands[p] :
       /\ c \in [kind: Kinds, urls: Seq(Urls) \cup Seq(Places), root: Roots \cup {None},
                 fetch: BOOLEAN, adopt: BOOLEAN]
       /\ c.kind = "audit" => c.urls \in Seq(Places)
       /\ c.kind = "worker" => c.urls = <<>>
       /\ c.kind \notin {"audit", "worker"} => c.urls \in Seq(Urls)

VARIABLES
  rows,      \* table repositories
  store,     \* store[r][k]: the directory of k below the root r
  default,   \* the first configured root
  queued,    \* keys with a pending fetch
  claim,     \* the process whose job of a key is running
  lock,      \* lock[r][k]: the process that holds the directory
  cmd, pc,
  line,      \* the input a process is at
  known,     \* known[p]: the rows that p has read
  target,    \* the root p has decided on
  wanted,    \* the source path p fetches
  adopt,     \* p was allowed to adopt, by --adopt or at the prompt
  results,   \* what p reports, in order
  promised,  \* what its preview said
  quiet,     \* nobody else changed anything since p began
  faults

index == <<rows, queued, claim>>
local == <<cmd, known, target, wanted, adopt, promised>>
vars == <<index, store, default, lock, local, pc, line, results, quiet, faults>>

Row == [root: Roots \cup {None}, source: Sources \cup {None}]
NoRow == [root |-> None, source |-> None]
Result == [status: {"new", "registered", "existing", "duplicate", "accepted", "fetched",
                    "issue", "error"},
           key: Keys \cup {None}, root: Roots \cup {None}]

Steps == {"start", "line", "target", "look", "register", "claim", "open", "bind", "publish",
          "transfer", "prompt", "visit", "add", "done", "aborted"}

TypeOK ==
  /\ rows \in [Keys -> Row]
  /\ store \in [Roots -> [Keys -> Directory]]
  /\ default \in Roots \cup {None}
  /\ queued \subseteq Keys /\ claim \in [Keys -> Procs \cup {None}]
  /\ lock \in [Roots -> [Keys -> Procs \cup {None}]]
  /\ pc \in [Procs -> Steps] /\ line \in [Procs -> Nat]
  /\ known \in [Procs -> [Keys -> Row]]
  /\ target \in [Procs -> Roots \cup {None}] /\ wanted \in [Procs -> Sources \cup {None}]
  /\ adopt \in [Procs -> BOOLEAN] /\ quiet \in [Procs -> BOOLEAN]
  /\ results \in [Procs -> Seq(Result)] /\ promised \in [Procs -> Seq(Result)]
  /\ faults \in 0..Faults

Init ==
  /\ rows = [k \in Keys |-> NoRow]
  /\ store \in [Roots -> [Keys -> Supplies]]
  /\ default \in Roots \cup {None}
  /\ queued = {} /\ claim = [k \in Keys |-> None]
  /\ lock = [r \in Roots |-> [k \in Keys |-> None]]
  /\ cmd \in {f \in [Procs -> UNION {Commands[p] : p \in Procs}] : \A p \in Procs : f[p] \in Commands[p]}
  /\ pc = [p \in Procs |-> "start"] /\ line = [p \in Procs |-> 1]
  /\ known = [p \in Procs |-> [k \in Keys |-> NoRow]]
  /\ target = [p \in Procs |-> None] /\ wanted = [p \in Procs |-> None]
  /\ adopt = [p \in Procs |-> FALSE]
  /\ results = [p \in Procs |-> <<>>] /\ promised = [p \in Procs |-> <<>>]
  /\ quiet = [p \in Procs |-> TRUE]
  /\ faults = Faults

---------------------------------------------------------------------------
(* Inputs and answers *)

Is(p, kinds) == cmd[p].kind \in kinds
Input(p) == cmd[p].urls[line[p]]
Key(p) == Input(p).key
HasInput(p) == pc[p] = "line" /\ line[p] <= Len(cmd[p].urls)
Previewing(p) == cmd[p].kind = "review" /\ promised[p] = <<>>

Goto(p, step) == pc' = [pc EXCEPT ![p] = step] /\ UNCHANGED <<line, results>>

\* The report of an input; the next one follows.
Answer(p, status, k, r) ==
  /\ results' = [results EXCEPT ![p] = Append(@, [status |-> status, key |-> k, root |-> r])]
  /\ line' = [line EXCEPT ![p] = @ + 1]
  /\ pc' = [pc EXCEPT ![p] = "line"]

Skip(p) ==
  /\ line' = [line EXCEPT ![p] = @ + 1]
  /\ pc' = [pc EXCEPT ![p] = "line"]
  /\ UNCHANGED results

\* A change that others may notice.
Changed(p) == quiet' = [q \in Procs |-> quiet[q] /\ q = p]

\* The error path of an input: the others go on.
Fails(p) ==
  /\ Answer(p, "error", None, None)
  /\ UNCHANGED <<index, store, default, lock, local, quiet, faults>>

---------------------------------------------------------------------------
(* register_batch *)

Begin(p) ==
  /\ pc[p] = "start" /\ cmd[p].kind # "audit"
  /\ quiet' = [quiet EXCEPT ![p] = TRUE]
  /\ adopt' = [adopt EXCEPT ![p] = cmd[p].adopt]
  /\ Goto(p, "line")
  /\ UNCHANGED <<index, store, default, lock, cmd, known, target, wanted, promised, faults>>

\* seen: the inputs that were answered without an error.
Original(p) ==
  {i \in 1 .. line[p] - 1 : cmd[p].urls[i] = Input(p)
                            /\ results[p][i].status \notin {"error", "duplicate"}}

Duplicate(p) ==
  /\ Is(p, {"add", "review"}) /\ HasInput(p)
  /\ \E i \in Original(p) : Answer(p, "duplicate", results[p][i].key, results[p][i].root)
  /\ UNCHANGED <<index, store, default, lock, local, quiet, faults>>

\* parse_repository_url refuses.
Malformed(p) ==
  /\ HasInput(p) /\ ~Is(p, {"worker"}) /\ Key(p) = None
  /\ Fails(p)

\* registration_target: the root that was given, that of the row, the default.
Target(p, given, k) ==
  IF given # None THEN given ELSE IF rows[k] # NoRow THEN rows[k].root ELSE default

\* A command without --root finds no configured root.
NoRoot(p) ==
  /\ \/ Is(p, {"add", "review"}) /\ HasInput(p) /\ Original(p) = {}
     \/ pc[p] = "target"
  /\ Key(p) # None
  /\ Target(p, IF pc[p] = "target" THEN target[p] ELSE cmd[p].root, Key(p)) = None
  /\ Fails(p)

FindTarget(p) ==
  /\ Is(p, {"add", "review"}) /\ HasInput(p) /\ Key(p) # None /\ Original(p) = {}
  /\ LET r == Target(p, cmd[p].root, Key(p))
     IN  r # None /\ target' = [target EXCEPT ![p] = r]
  /\ Goto(p, "look")
  /\ UNCHANGED <<index, store, default, lock, cmd, known, wanted, adopt, promised, quiet, faults>>

\* Index.validate_binding
Bindable(row, source, r) == row = NoRow \/ (row.root = r /\ row.source = source)

\* Mutant of Projected: the preview forgets what its earlier inputs would add.
ProjectedNothing(p) == NoRow

\* projected: the row that an earlier input of the preview would have added.
Projected(p) ==
  LET same == {i \in 1 .. line[p] - 1 : results[p][i].key = Key(p)
                                        /\ results[p][i].status \in {"new", "existing"}}
  IN  IF same = {} THEN NoRow
      ELSE LET i == CHOOSE j \in same : \A n \in same : n <= j
           IN  [root |-> results[p][i].root, source |-> cmd[p].urls[i].source]

Binding(p) ==
  IF rows[Key(p)] = NoRow /\ Previewing(p) THEN Projected(p) ELSE rows[Key(p)]

Conflict(p) ==
  /\ pc[p] = "look"
  /\ ~Bindable(Binding(p), Input(p).source, target[p])
  /\ Fails(p)

Preview(p) ==
  /\ pc[p] = "look" /\ Previewing(p)
  /\ Bindable(Binding(p), Input(p).source, target[p])
  /\ Answer(p, IF Binding(p) = NoRow THEN "new" ELSE "existing", Key(p), target[p])
  /\ UNCHANGED <<index, store, default, lock, local, quiet, faults>>

Look(p) ==
  /\ pc[p] = "look" /\ ~Previewing(p)
  /\ Bindable(rows[Key(p)], Input(p).source, target[p])
  /\ known' = [known EXCEPT ![p][Key(p)] = rows[Key(p)]]
  /\ Goto(p, "register")
  /\ UNCHANGED <<index, store, default, lock, cmd, target, wanted, adopt, promised, quiet, faults>>

\* Mutant of Added: an existing row is returned without validation.
AddedUnchecked(k, source, r, importing) ==
  rows' = [rows EXCEPT ![k] = IF @ = NoRow THEN [root |-> r, source |-> source] ELSE @]

\* Mutant of Added: the values are in another order than the columns.
AddedSwapped(k, source, r, importing) ==
  /\ Bindable(rows[k], IF importing /\ rows[k] # NoRow THEN rows[k].source ELSE source, r)
  /\ rows' = [rows EXCEPT ![k] = IF @ = NoRow THEN [root |-> source, source |-> r] ELSE @]

\* Index.add_in, in the caller's transaction.
Added(k, source, r, importing) ==
  /\ Bindable(rows[k], IF importing /\ rows[k] # NoRow THEN rows[k].source ELSE source, r)
  /\ rows' = [rows EXCEPT ![k] = IF @ = NoRow THEN [root |-> r, source |-> source] ELSE @]

\* One transaction registers and, on request, queues the first fetch.
Register(p) ==
  /\ pc[p] = "register" /\ Is(p, {"add", "review"})
  /\ Added(Key(p), Input(p).source, target[p], FALSE)
  /\ queued' = queued \cup {k \in {Key(p)} : cmd[p].fetch}
  /\ Answer(p, IF known[p][Key(p)] = NoRow THEN "registered" ELSE "existing",
            Key(p), target[p])
  /\ Changed(p)
  /\ UNCHANGED <<store, default, claim, lock, local, faults>>

RegisterConflict(p) ==
  /\ pc[p] = "register" /\ Is(p, {"add", "review"})
  /\ ~Bindable(rows[Key(p)], Input(p).source, target[p])
  /\ Fails(p)

\* The page submits what it has previewed.
Submit(p) ==
  /\ pc[p] = "line" /\ line[p] > Len(cmd[p].urls) /\ Previewing(p)
  /\ promised' = [promised EXCEPT ![p] = results[p]]
  /\ results' = [results EXCEPT ![p] = <<>>] /\ line' = [line EXCEPT ![p] = 1]
  /\ UNCHANGED <<index, store, default, lock, cmd, known, target, wanted, adopt, pc, quiet, faults>>

Done(p) ==
  /\ pc[p] = "line" /\ line[p] > Len(cmd[p].urls) /\ ~Previewing(p) /\ ~Is(p, {"worker"})
  /\ Goto(p, "done")
  /\ UNCHANGED <<index, store, default, lock, local, quiet, faults>>

---------------------------------------------------------------------------
(* queue: _mutate and bulk_command *)

Repeated(p) == \E i \in 1 .. line[p] - 1 : cmd[p].urls[i] = Input(p)

\* Mutant of Seen: only the spelling is compared.
SeenSpelling(p) == Repeated(p)

\* A repeated selector, or another one of a repository that was acted upon.
Seen(p) == Repeated(p) \/ \E i \in DOMAIN results[p] : results[p][i].key = Key(p)

QueueAgain(p) ==
  /\ Is(p, {"queue"}) /\ HasInput(p) /\ Key(p) # None /\ Seen(p)
  /\ Skip(p)
  /\ UNCHANGED <<index, store, default, lock, local, quiet, faults>>

QueueFetch(p) ==
  /\ Is(p, {"queue"}) /\ HasInput(p) /\ Key(p) # None /\ ~Seen(p) /\ rows[Key(p)] # NoRow
  /\ queued' = queued \cup {Key(p)}
  /\ Answer(p, "accepted", Key(p), rows[Key(p)].root)
  /\ Changed(p)
  /\ UNCHANGED <<rows, claim, store, default, lock, local, faults>>

QueueUnknown(p) ==
  /\ Is(p, {"queue"}) /\ HasInput(p) /\ Key(p) # None /\ ~Seen(p) /\ rows[Key(p)] = NoRow
  /\ Fails(p)

---------------------------------------------------------------------------
(* fetch: _fetch_one, fetch_repository, execute_job, fetch_locked *)

\* dict.fromkeys drops a repeated selector.
FetchAgain(p) ==
  /\ Is(p, {"fetch"}) /\ HasInput(p) /\ Repeated(p)
  /\ Skip(p)
  /\ UNCHANGED <<index, store, default, lock, local, quiet, faults>>

\* find; a repository that is known is fetched from its stored source to its root.
Find(p) ==
  /\ Is(p, {"fetch"}) /\ HasInput(p) /\ Key(p) # None /\ ~Repeated(p)
  /\ known' = [known EXCEPT ![p][Key(p)] = rows[Key(p)]]
  /\ target' = [target EXCEPT ![p] = rows[Key(p)].root]
  /\ wanted' = [wanted EXCEPT ![p] = IF rows[Key(p)] = NoRow THEN Input(p).source
                                     ELSE rows[Key(p)].source]
  /\ adopt' = [adopt EXCEPT ![p] = cmd[p].adopt]
  /\ Goto(p, "target")
  /\ UNCHANGED <<index, store, default, lock, cmd, promised, quiet, faults>>

FetchTarget(p) ==
  /\ pc[p] = "target"
  /\ LET r == Target(p, target[p], Key(p))
     IN  r # None /\ target' = [target EXCEPT ![p] = r]
  /\ Goto(p, "register")
  /\ UNCHANGED <<index, store, default, lock, cmd, known, wanted, adopt, promised, quiet, faults>>

\* The row may have appeared since; its source path need not be the one wanted.
RegisterFetch(p) ==
  /\ pc[p] = "register" /\ Is(p, {"fetch"})
  /\ Added(Key(p), wanted[p], target[p], TRUE)
  /\ Goto(p, "claim") /\ Changed(p)
  /\ UNCHANGED <<queued, claim, store, default, lock, local, faults>>

RegisterFetchConflict(p) ==
  /\ pc[p] = "register" /\ Is(p, {"fetch"})
  /\ rows[Key(p)].root \notin {None, target[p]}
  /\ Fails(p)

\* Scheduler.immediate: cancels what is queued, and refuses while a job runs.
Immediate(p) ==
  /\ pc[p] = "claim" /\ claim[Key(p)] = None
  /\ claim' = [claim EXCEPT ![Key(p)] = p] /\ queued' = queued \ {Key(p)}
  /\ Goto(p, "open") /\ Changed(p)
  /\ UNCHANGED <<rows, store, default, lock, local, faults>>

Busy(p) ==
  /\ pc[p] = "claim" /\ claim[Key(p)] # None
  /\ Fails(p)

\* A worker claims a queued fetch: the source and the root are the row's.
WorkerClaim(p, k) ==
  /\ pc[p] = "line" /\ Is(p, {"worker"}) /\ k \in queued /\ claim[k] = None
  /\ claim' = [claim EXCEPT ![k] = p] /\ queued' = queued \ {k}
  /\ cmd' = [cmd EXCEPT ![p].urls = <<[key |-> k, source |-> rows[k].source, name |-> None]>>]
  /\ line' = [line EXCEPT ![p] = 1]
  /\ target' = [target EXCEPT ![p] = rows[k].root] /\ wanted' = [wanted EXCEPT ![p] = rows[k].source]
  /\ pc' = [pc EXCEPT ![p] = "open"] /\ Changed(p)
  /\ UNCHANGED <<rows, store, default, lock, known, adopt, promised, results, faults>>

Place(p) == store[target[p]][Key(p)]
Holds(p) == lock[target[p]][Key(p)] = p

\* The job ends and is filed; the directory is released.
Ends(p, status) ==
  /\ claim' = [claim EXCEPT ![Key(p)] = None]
  /\ lock' = [lock EXCEPT ![target[p]][Key(p)] = IF @ = p THEN None ELSE @]
  /\ IF Is(p, {"worker"})
     THEN /\ cmd' = [cmd EXCEPT ![p].urls = <<>>] /\ Goto(p, "line")
     ELSE /\ Answer(p, status, Key(p), target[p]) /\ UNCHANGED cmd
  /\ Changed(p)
  /\ UNCHANGED <<rows, queued, default, known, target, wanted, adopt, promised>>

\* check_source: data that is there binds its directory.
SourceConflict(p) ==
  Place(p).state # "absent" /\ Place(p).source # wanted[p]

\* The directory is reserved by somebody else, or the verification for an
\* adoption finds another source or origin.
OpenFails(p) ==
  /\ pc[p] = "open"
  /\ \/ lock[target[p]][Key(p)] # None
     \/ SourceConflict(p) /\ adopt[p]
  /\ Ends(p, "error")
  /\ UNCHANGED <<store, faults>>

\* AdoptionRequiredError: a terminal asks, and waits without any lock or claim.
Ask(p) ==
  /\ pc[p] = "open" /\ lock[target[p]][Key(p)] = None
  /\ Place(p).state = "supplied" /\ ~adopt[p] /\ Is(p, {"fetch"})
  /\ claim' = [claim EXCEPT ![Key(p)] = None]
  /\ Goto(p, "prompt") /\ Changed(p)
  /\ UNCHANGED <<rows, queued, store, default, lock, local, faults>>

\* No terminal, or a worker.
AdoptionRefused(p) ==
  /\ pc[p] = "open" /\ lock[target[p]][Key(p)] = None
  /\ Place(p).state = "supplied" /\ ~adopt[p]
  /\ Ends(p, "error")
  /\ UNCHANGED <<store, faults>>

Decline(p) == pc[p] = "prompt" /\ Fails(p)

\* Mutant of Confirm: the retry chooses its root anew.
ConfirmAnew(p) ==
  /\ pc[p] = "prompt"
  /\ adopt' = [adopt EXCEPT ![p] = TRUE]
  /\ target' = [target EXCEPT ![p] = default]
  /\ Goto(p, IF default = None THEN "prompt" ELSE "claim")
  /\ UNCHANGED <<index, store, default, lock, cmd, known, wanted, promised, quiet, faults>>

\* The second attempt is given the root of the first.
Confirm(p) ==
  /\ pc[p] = "prompt"
  /\ adopt' = [adopt EXCEPT ![p] = TRUE]
  /\ Goto(p, "target")
  /\ UNCHANGED <<index, store, default, lock, cmd, known, target, wanted, promised, quiet, faults>>

\* The directory is locked; a supplied mirror is verified and published.
Open(p) ==
  /\ pc[p] = "open" /\ lock[target[p]][Key(p)] = None
  /\ Place(p).state = "supplied" => adopt[p]
  /\ adopt[p] => ~SourceConflict(p)
  /\ lock' = [lock EXCEPT ![target[p]][Key(p)] = p]
  /\ store' = [store EXCEPT ![target[p]][Key(p)].state = IF @ = "supplied" THEN "ready" ELSE @]
  /\ Goto(p, "bind") /\ Changed(p)
  /\ UNCHANGED <<index, default, local, faults>>

\* Mutant of Bind: the index is told before the directory is bound.
BindIndexFirst(p) ==
  /\ pc[p] = "bind"
  /\ rows' = [rows EXCEPT ![Key(p)].source = wanted[p]]
  /\ Goto(p, "publish") /\ Changed(p)
  /\ UNCHANGED <<queued, claim, store, default, lock, local, faults>>

Bind(p) ==
  /\ pc[p] = "bind" /\ ~SourceConflict(p)
  /\ store' = [store EXCEPT ![target[p]][Key(p)].source = wanted[p]]
  /\ Goto(p, "publish") /\ Changed(p)
  /\ UNCHANGED <<index, default, lock, local, faults>>

\* bind_source: the archive is another source's.
BindFails(p) ==
  /\ pc[p] = "bind" /\ SourceConflict(p)
  /\ Ends(p, "error")
  /\ UNCHANGED <<store, faults>>

\* The row takes the source the directory is bound to.
Publish(p) ==
  /\ pc[p] = "publish"
  /\ rows' = [rows EXCEPT ![Key(p)].source = wanted[p]]
  /\ Goto(p, "transfer") /\ Changed(p)
  /\ UNCHANGED <<queued, claim, store, default, lock, local, faults>>

Fetched(p) ==
  /\ pc[p] = "transfer"
  /\ store' = [store EXCEPT ![target[p]][Key(p)].state = "ready"]
  /\ Ends(p, "fetched")
  /\ UNCHANGED faults

\* release_unused_source: a first clone that failed binds nothing.
Released(p) ==
  store' = [store EXCEPT ![target[p]][Key(p)].source =
              IF Place(p).state = "absent" THEN None ELSE @]

FetchFails(p) ==
  /\ pc[p] = "transfer"
  /\ Released(p)
  /\ Ends(p, "error")
  /\ UNCHANGED faults

---------------------------------------------------------------------------
(* audit --fix, with or without --adopt *)

Issue(p) ==
  /\ Answer(p, "issue", None, None)
  /\ UNCHANGED <<index, store, default, lock, local, quiet, faults>>

\* The rows are read once.  The directories follow, in the order of cmd.places.
Audit(p) ==
  /\ pc[p] = "start" /\ Is(p, {"audit"})
  /\ known' = [known EXCEPT ![p] = rows]
  /\ adopt' = [adopt EXCEPT ![p] = cmd[p].adopt]
  /\ quiet' = [quiet EXCEPT ![p] = TRUE]
  /\ Goto(p, "line")
  /\ UNCHANGED <<index, store, default, lock, cmd, target, wanted, promised, faults>>

Root(p) == Input(p).root
Found(p) == store[Root(p)][Key(p)]

\* Nothing is there; it is reported when the row says otherwise.
AuditNothing(p) ==
  /\ Is(p, {"audit"}) /\ HasInput(p) /\ Found(p).state = "absent"
  /\ Skip(p)
  /\ UNCHANGED <<index, store, default, lock, local, quiet, faults>>

\* Unowned without --adopt, a duplicate of the selected copy, in use, or with an
\* origin other than the row's source.
AuditIssue(p) ==
  /\ Is(p, {"audit"}) /\ HasInput(p) /\ Found(p).state # "absent"
  /\ \/ Found(p).state = "supplied" /\ ~adopt[p]
     \/ known[p][Key(p)].root \notin {None, Root(p)}
     \/ lock[Root(p)][Key(p)] # None
     \/ known[p][Key(p)].source \notin {None, Found(p).source}
  /\ Issue(p)

\* The directory is locked, and adopted if need be.
AuditOpen(p) ==
  /\ Is(p, {"audit"}) /\ HasInput(p) /\ Found(p).state # "absent"
  /\ Found(p).state = "supplied" => adopt[p]
  /\ known[p][Key(p)].root \in {None, Root(p)} /\ lock[Root(p)][Key(p)] = None
  /\ known[p][Key(p)].source \in {None, Found(p).source}
  /\ lock' = [lock EXCEPT ![Root(p)][Key(p)] = p]
  /\ store' = [store EXCEPT ![Root(p)][Key(p)].state = "ready"]
  /\ target' = [target EXCEPT ![p] = Root(p)]
  /\ Goto(p, "add") /\ Changed(p)
  /\ UNCHANGED <<index, default, cmd, known, wanted, adopt, promised, faults>>

AuditUnlock(p) == lock' = [lock EXCEPT ![Root(p)][Key(p)] = None]

\* An unindexed archive is added with the source its origin names; the row that
\* was added counts as known.
AuditAdd(p) ==
  /\ pc[p] = "add" /\ known[p][Key(p)] = NoRow
  /\ Added(Key(p), Found(p).source, Root(p), FALSE)
  /\ known' = [known EXCEPT ![p][Key(p)] = rows'[Key(p)]]
  /\ AuditUnlock(p)
  /\ Answer(p, "registered", Key(p), Root(p)) /\ Changed(p)
  /\ UNCHANGED <<queued, claim, store, default, cmd, target, wanted, adopt, promised, faults>>

\* Somebody else registered it meanwhile, with another root or source.
AuditConflict(p) ==
  /\ pc[p] = "add" /\ known[p][Key(p)] = NoRow
  /\ ~Bindable(rows[Key(p)], Found(p).source, Root(p))
  /\ AuditUnlock(p)
  /\ Answer(p, "issue", None, None) /\ Changed(p)
  /\ UNCHANGED <<index, store, default, local, faults>>

\* The row is refreshed; neither its root nor its source is among the fields.
AuditKnown(p) ==
  /\ pc[p] = "add" /\ known[p][Key(p)] # NoRow
  /\ AuditUnlock(p)
  /\ Answer(p, "existing", Key(p), Root(p)) /\ Changed(p)
  /\ UNCHANGED <<index, store, default, local, faults>>

---------------------------------------------------------------------------
(* Faults and the environment *)

\* Mutant of Caught: the loop over the lines does not expect sqlite3.Error.
CaughtNot(p) ==
  /\ faults > 0 /\ faults' = faults - 1
  /\ Is(p, {"add", "review", "queue"})
  /\ pc[p] \in {"look", "register"}
  /\ Goto(p, "aborted")
  /\ UNCHANGED <<index, store, default, lock, local, quiet>>

\* sqlite3.Error in a read or a transaction of add and queue: reported like any
\* other failure of the input.
Caught(p) ==
  /\ faults > 0 /\ faults' = faults - 1
  /\ Is(p, {"add", "review", "queue"})
  /\ pc[p] \in {"look", "register"} \/ HasInput(p)
  /\ Answer(p, "error", None, None)
  /\ UNCHANGED <<index, store, default, lock, local, quiet>>

\* fetch: _batch does not catch it, nor the loss of a claim inside the job.  The
\* command ends without its report.
Uncaught(p) ==
  /\ faults > 0 /\ faults' = faults - 1
  /\ Is(p, {"fetch"})
  /\ pc[p] \in {"target", "register", "claim"} \/ HasInput(p)
  /\ Goto(p, "aborted")
  /\ UNCHANGED <<index, store, default, lock, local, quiet>>

\* The claim is lost, or the process killed: what is bound stays bound, unless
\* the handlers of the transfer still run; a worker goes on.
Lapse(p, handled) ==
  /\ faults > 0 /\ faults' = faults - 1
  /\ pc[p] \in {"open", "bind", "publish", "transfer"}
  /\ IF handled /\ pc[p] = "transfer" THEN Released(p) ELSE UNCHANGED store
  /\ claim' = [claim EXCEPT ![Key(p)] = None]
  /\ lock' = [lock EXCEPT ![target[p]][Key(p)] = IF @ = p THEN None ELSE @]
  /\ Goto(p, IF handled /\ Is(p, {"worker"}) THEN "line" ELSE "aborted") /\ Changed(p)
  /\ UNCHANGED <<rows, queued, default, cmd, known, target, wanted, adopt, promised>>

\* The settings change: the first root is another one.
Configure ==
  /\ default' \in Roots \ {default}
  /\ quiet' = [p \in Procs |-> FALSE]
  /\ UNCHANGED <<index, store, lock, local, pc, line, results, faults>>

Registers(p) ==
  \/ Begin(p) \/ Duplicate(p) \/ Malformed(p) \/ NoRoot(p) \/ FindTarget(p) \/ Conflict(p)
  \/ Preview(p) \/ Look(p) \/ Register(p) \/ RegisterConflict(p) \/ Submit(p) \/ Done(p)
Queues(p) == QueueAgain(p) \/ QueueFetch(p) \/ QueueUnknown(p)
Fetches(p) ==
  \/ FetchAgain(p) \/ Find(p) \/ FetchTarget(p) \/ RegisterFetch(p) \/ RegisterFetchConflict(p)
  \/ Immediate(p) \/ Busy(p) \/ OpenFails(p) \/ Ask(p) \/ AdoptionRefused(p) \/ Decline(p)
  \/ Confirm(p) \/ Open(p) \/ Bind(p) \/ BindFails(p) \/ Publish(p) \/ Fetched(p) \/ FetchFails(p)
  \/ \E k \in Keys : WorkerClaim(p, k)
Audits(p) ==
  \/ Audit(p) \/ AuditNothing(p) \/ AuditIssue(p) \/ AuditOpen(p) \/ AuditAdd(p)
  \/ AuditConflict(p) \/ AuditKnown(p)
Faulty(p) == Caught(p) \/ Uncaught(p) \/ \E handled \in BOOLEAN : Lapse(p, handled)

Next ==
  \/ \E p \in Procs : Registers(p) \/ Queues(p) \/ Fetches(p) \/ Audits(p) \/ Faulty(p)
  \/ Configure

Spec == Init /\ [][Next]_vars

---------------------------------------------------------------------------
(* Properties *)

\* What a command has reported stays true: the repository is registered with the
\* root that the report names, whoever registered it at the same time and
\* whatever the settings became.
ReportsAreTrue ==
  \A p \in Procs : \A i \in DOMAIN results[p] :
    LET a == results[p][i]
    IN  a.status \in {"registered", "existing", "duplicate", "accepted", "fetched"} /\ ~Previewing(p)
          => rows[a.key].root = a.root

\* Unless something else changed between the two, registering a batch answers
\* every line as its preview did.
Promised(a) == [a EXCEPT !.status = IF @ = "new" THEN "registered" ELSE @]
PreviewIsHonest ==
  \A p \in Procs :
    cmd[p].kind = "review" /\ pc[p] = "done" /\ quiet[p] /\ faults = Faults =>
      results[p] = [i \in DOMAIN promised[p] |-> Promised(promised[p][i])]

\* A batch of add answers every line, also after failures of earlier ones.
EveryLineAnswered ==
  \A p \in Procs :
    cmd[p].kind \in {"add", "review"} /\ pc[p] \in {"done", "aborted"} =>
      pc[p] = "done" /\ Len(results[p]) = Len(cmd[p].urls)

\* queue acts once on a repository, however its selectors are spelled.
QueuedOnce ==
  \A p \in Procs : cmd[p].kind = "queue" =>
    \A i, j \in DOMAIN results[p] :
      i # j /\ results[p][i].key # None => results[p][i].key # results[p][j].key

\* Once the row of a repository and its archive name the same source, they never
\* part: a fetch of another casing that raced with the registration is refused
\* before the row is touched.
Agree(k) ==
  /\ rows[k] # NoRow
  /\ store[rows[k].root][k].state = "ready" /\ store[rows[k].root][k].source = rows[k].source
SourceFollowsArchive == [][\A k \in Keys : Agree(k) => Agree(k)']_vars

\* docs/use.md: check and fetch "continue after individual failures".
FetchContinues == \A p \in Procs : cmd[p].kind = "fetch" => pc[p] # "aborted"
=============================================================================
