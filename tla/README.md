# Cache22 in TLA+

Cache22 archives Git repositories: it keeps a bare mirror, or a standalone bundle,
of every registered repository under an archive root, and an SQLite index that says
what it holds and what is to be done. Worker loops, the command line and a web
manager submit and execute work concurrently, in processes that may stall, be killed
or be asked to stop. This directory models that program component by component, checks
the models with TLC on small instances, and proves the safety of its core with TLAPS.

    tlc -workers 2 -config Claims.cfg MCScheduler     # any run of the table below
    tlapm WorkerProofs.tla                            # any module of section 5

`PROJECT.json` lists components, runs, the source lines of every definition, the
hazards, the findings, the theorems and one mutant per checked property. A mutant is
an operator under the comment "Mutant of X" just before `X`: the form a plausible bug
would give `X`. With `X` replaced by it, the run finds the property violated.

## 1. The system

| Component | State it keeps | Operations | Hard behaviour | What makes it correct |
|---|---|---|---|---|
| `config.py` | settings file | add a root, read the roots | concurrent commands, failed writes, power failure | no lost update, no broken file |
| `index.py` | SQLite tables `repositories`, `schedules`, `jobs`, `job_attempts`, `workers`; views `inventory`, `job_errors` | `initialize`, `add_in`, `validate_binding`, `update_in`, queries | concurrent initialisation; derived views | one schema; views say only what attempts prove |
| `job_queue.py` | rows of `jobs`, `job_attempts` | `enqueue_in`, `insert_in`, `cancel_pending_in`, `claim_in`, `validate`, `heartbeat`, `finish_in`, `interrupt_in`, `prune_history_in` | coalescing, blocking order, leases and tokens, expiry, ids used again | one running job per repository, exact attempts, final history |
| `scheduler.py` | `schedules` | `schedule`, `tick`, `_recover`, `claim`, `finish`, `interrupt`, `immediate` | schedules that change under running jobs; retry policy | no work for a disabled schedule, exact retry budget, blocks, order of work |
| `worker.py`, `job_operation.py`, `operation.py` | threads, the claim a process believes to hold, lock descriptors, one Git child, a row of `workers` | loop, heartbeats, `guard`, `run` | stalls, signals, lost claims, killed parents whose children live on | one Git per repository, nothing left behind, every stop ends |
| `operation.py`, `diagnostics.py` | a pipe, a decoder, the tail of the output | `_run_streaming`, `GitOutputDecoder` | reads that cut lines, full pipes, stuck children | lines are those written, no secrets, no deadlock |
| `repo_service.py` | – | `execute_job` and its bodies `fetch_locked`, `check_locked`, `convert_locked`; registration | order of index and disk writes, exceptions in between | the inventory is trusted only when it is right |
| `storage.py`, `git_bundle.py`, `archive_storage.py`, `archive_layout.py` | one directory per repository: mirror, marker, source, bundles, manifest, staging, lock | open, observe, fetch, convert, publish, retire, clean | a crash between any two steps; locks inherited by children | no committed copy is lost; metadata never promises what is not there |
| `archive_storage.py` (reservations) | directories below a root and their inode locks, the root lock | `open_archive_directory`, `Repository.open`, publication of a lock file | nested initialisations, verification that takes hours | repositories are terminal containers; nobody waits for a reservation |
| `git_mirror.py`, `git_observation.py` | the mirror's refs and HEAD, digests in the index | clone, fetch, HEAD synchronisation, remote snapshot | a remote that changes meanwhile; partial success | HEAD and refs from one state of the remote; "current" is true |
| `remote_transport.py`, `repository_ref.py` | – | SSH first, HTTPS fallback, combined error | transports that come and go, deadlines that look like failures | one source per fetch, no fallback without a cause |
| `adoption.py`, `import_state.py`, `repo_audit.py`, `observation_service.py` | – | adopt a supplied mirror, `clean`, `audit --fix`, interpret observations | no claim protects them; crash in the middle of adoption | supplied mirrors survive; repairs publish what is true |
| `manager_service.py`, `fetch_service.py`, `repo_cli.py` | – | preview and register batches, queue, fetch by key or URL with a prompt | reads and writes in different transactions, users in between | reports and previews are true, archive and index agree |
| `manager_service.py`, `inventory_service.py` (reading) | – | jobs in sections, filtered and paged inventory | several queries per page, offsets that go stale | sections divide the jobs, pages add up |
| `manager/` | a tab's selection, offset and generation | polling, next/previous, select, select all | late, lost and failing answers, missing storage | what is shown belongs together, no selection is lost |
| `git_config.py`, `git_layout.py`, `errors.py`, `system_tools.py` | – | parsing, validation | – | pure functions |

Interaction: users and schedules insert jobs; `Scheduler.claim` or `immediate`
marks one running with a token and a lease (a transaction); the process executes it
under `running_job`, whose heartbeat renews the lease and whose guard ends the work
when the claim is gone; the body locks the directory, changes it and publishes its
observation with writes that validate the claim in their transaction;
`Scheduler.finish` or `interrupt` closes the attempt and decides what comes next.
`clean` and `audit --fix` take the directory's lock but no claim.

## 2. The modules

| Module | Models |
|---|---|
| `Settings` | The settings file and its lock, temporary files, kills and power failures. |
| `IndexInit` | Processes that create, find or refuse the index file, over SQLite's locks. |
| `JobTable` | The rows of `jobs` and `job_attempts`, and the statements of `job_queue.py` as pure operators on them. No variables, no recursion. |
| `Scheduler` | The queue at work: every transaction of `Scheduler` and `Queue`, processes, schedules, the clock, the inventory's flags. EXTENDS `JobTable`. |
| `ClaimLease` | The abstract promise: one claim per repository, fresh tokens, a lapsed claim is never renewed. `Scheduler` implements it. |
| `JobsView` | The sections, order and pages the job inspection shows of the states of `Scheduler`. EXTENDS `Scheduler`. |
| `Worker` | Worker processes from start to exit: main thread, availability thread, lease thread, Git child. |
| `Streaming` | One Git child's output: pipe, reader, decoder, tail, deadline. |
| `Reservations` | Operations and scans that reserve nested directories below one root. |
| `Containers` | The abstract promise of terminal containers. `Reservations` implements it. |
| `Archive` | One repository's directory, its row of the inventory, and the operations on both as crash-separated steps. |
| `Transport` | Which transport a repository's remote commands go over, and what they leave. |
| `Heads` | Refs, HEAD and digests of a mirror of a remote that changes. |
| `Registration` | Commands that register, bind, preview, queue and fetch, with their batches and prompts. |
| `Inventory` | Pages of the inventory and the tab's selection. |
| `QueuePage` | The polling queue page. |
| `MC...` | Constants, symmetry and views for TLC. |
| `...Proofs` | Inductive invariants and theorems, section 5. |

Where two modules meet, each keeps what the other one needs as a choice: `Worker` lets
a lease run out at any time, which `Scheduler` explains; `Archive` lets a claim lapse at
any step and a fetch find any version of a remote, which `Worker` and `Heads` explain;
`Heads` ignores transports and `Transport` ignores what refs hold.

### Settings

One action per system call of a command: take the lock, load, normalise and compare,
write the temporary file, synchronise, rename, unlink. A reader opens whatever
`config.toml` names at that moment and reads that file, also when it is replaced
meanwhile. `durable` is what a power failure would leave of the name; a file that was
not synchronised may come back empty or cut off. The first state may hold a file that
was edited by hand: a relative path, the same root in two spellings, an unreadable text.

### IndexInit

SQLite is modelled by the conflicts the code runs into (`timeout=0`): leaving the
rollback journal needs every other connection out, one connection writes, a killed
process's transaction is rolled back. Each statement of the schema is a step. A
conflict at any of them leads to the retry loop, whose deadline may pass at any retry.

### Scheduler

A transaction of the code (`BEGIN IMMEDIATE` ... `COMMIT`) is one action. `jobs`,
`attempts`, `sched` and `inventory` are the tables; `own[p]` is the snapshot of the
claimed row a process carries from claim to finish, possibly for longer than its
lease; `claims` counts the tokens drawn, so a token is a number and never returns,
as a UUID in the code. Job ids are SQLite row ids: `NextIds` admits every id the
table may hand out, those of expired rows included. Time is whole seconds, as
`Index.now`. Each of `Claim`, `RecoverOnly`, `Immediate`, `Tick`, `Heartbeat`,
`MarkUncertain`, `PublishLocal`, `PublishRemote`, `Finish`, `Interrupt`, `Enqueue`,
`Unqueue`, `EnableSchedule`, `DisableSchedule` is the whole method, recovery, history
expiry, cancellation and follow-up work included. `LoseClaim` is the guard that
notices; `Crash` a death without a word. What an execution finds (category, status)
is a choice, because the queue does not depend on why.

### JobsView

No actions of its own: it defines what `jobs_snapshot`, `detail` and `Queue.list` select,
in which order, in pages of which size, and states properties of these in every state
that `Scheduler` reaches. `RunnableIsClaimedNext` relates the SQL of the runnable view to
the SQL of the claim, which are written apart from each other.

### Worker

A worker is three threads and at most one child. `pc` is the main thread through
`run_continuous`, `execute_job`, `running_job` and `operation.run`; an exception is a jump
to the handler that catches it, with `cause` for what is decided there. `beat` and `lease`
are the two heartbeat threads; `git` is the child, which a crash of its parent leaves
running with the lock it inherited. `stop[w]` remembers not only that the event is set but
where the main thread was when it was set, so that properties can speak of late stops.
`table` is the part of the queue that matters here. Failing transactions (`Faults`) and
kills (`Crashes`) are bounded.

### Streaming

`Git` writes bytes one by one into a pipe of `PipeSize`, gets stuck or exits at any
time; `Read` takes at most `Chunk` bytes and feeds them to `GitOutputDecoder`, whose
framing, oversize rule and redaction are functions of its state. Bytes are a letter, a
line end, the start of a URL and a secret after it: enough to tell whether a cut can
separate what the pattern must see together.

### Reservations

A walk takes the root lock, then directory by directory the shared (and last the
exclusive) reservation, all non-blocking, and checks the terminal boundary before and
after each; then it opens or publishes the lock file and gives back the root. The deferred
publication of a supplied directory gives back the root, verifies, and takes it again.
Locks belong to inodes, a killed process's Git child keeps those it inherited. A scan
walks without the root lock.

### Archive

A process walks through the steps of an operation (`pc`), each action one change of
the disk, one write to the index, or one Git child. `Disks` and `Writes` are the two
shapes of a step: the guard that follows a step is evaluated with it, the next step
comes later, so a claim may lapse between a guard and the step it guards, which is
what the code allows. `Continues` is the shape of a step that the code follows with the
next one without looking at the claim: an adoption's marker and source, the end of a
retirement and the removal of staging. A write to the index is refused when the claim is gone
(`Fenced`), exactly as `Index.update_in` validates in its transaction; `clean` and
`audit` have no claim and are not fenced. `Exit` says where an exception leads:
`ensure_git_mirror` clears a clone it could not finish, `fetch_locked` publishes what
a failed fetch left, everything else releases its locks. `Fails` lets every step
under the lock raise, `Crash` kills the process anywhere; a killed process's Git child
becomes an orphan that keeps the inherited lock and still does its work
(`OrphanEnds`). `Lapse` is recovery of the claim by some worker, at any time.

Data is abstracted to what the properties tell apart. A repository's content is a
pair of versions of the remote, one for refs and one for HEAD; a change of the remote
that leaves HEAD alone is not told apart from one that moves it. A mirror is absent,
torn (`partial`) or usable (`whole`); a killed clone or removal leaves a torn one, or
one that verifies but has lost its refs. What `validate_git_mirror_layout` answers for
a torn mirror is a choice. What happens inside the staging directory (restore, fetch,
`bundle create`, verification) is one step, since nothing reads staging after a crash
except to remove it. Manifest and header parsing are a check that may refuse.

### Transport and Heads

Both model the fetches and checks of one repository, one operation at a time, each Git
command a step, and differ in what they keep. In `Transport` refs and HEAD are only the
transport they came over; a source has one or two candidates by the kind of its URL;
`up` changes at any time; `Stop` is whatever ends an operation that is not the failure of
a Git command. A diagnostic is its length, which is all the combined error depends on. In `Heads`
refs are functions to commits, HEAD is symbolic or detached, unborn HEADs are advertised
or not, and a clone, a fetch and a bundle-free check compute the digests of
`git_observation.py` as injective values of refs and HEAD. `inv` is the row of the index
with the digests, `Status` the view's column computed from them. `due` is the job that is
queued or that the schedule asks for next, `blocked` the column of that name in `schedules`:
the end of a job (`Ends`) sets it after a structural error and clears it after a success, a
scheduled check is not begun while it is set, and `Reenable` is the user's command. A check by
hand is possible at any time and fetches nothing; another failure may be retried or not.

### Registration

Commands are given to processes at any time. A batch goes line by line: `Find` or
`Look` in one connection, `Register` in a later transaction that validates the binding
again. The adoption prompt (`Ask`, `Confirm`, `Decline`) lasts as long as other commands
like. A directory is absent, supplied by somebody with an origin, or ready with a bound
source. The report a command prints (`Answer`s) is part of the state, since properties
are about it.

### Inventory and QueuePage

`Inventory` lets a page's statements see one snapshot while rows change, and a tab that
navigates, polls, ticks, selects all that matches and loses answers; `sessionStorage`
works or does not. `QueuePage` has one refresh in flight at most, the `generation` that
discards late answers, and the offset arithmetic of the buttons; the server's answer is a
snapshot taken between question and answer.

## 3. The runs

| Run | Instance | What it shows |
|---|---|---|
| `claims` (`Claims.cfg`, `MCScheduler`) | 2 repositories, 2 processes, 2 jobs, 3 claims, 3 s, lease 2 s, one retry delay, retention 1 s, fetches and synchronous checks | `TypeOK`, `OneOpenAttempt`, `RetryBudget`, `FencedInventory`, `EvictionOnlyAfterLease`, `HistoryIsFinal`, `LastSuccessKept`, `RunnableIsClaimedNext`, `ErrorsNeedEvidence`, and that the queue implements `ClaimLease` (`ImplementsLease`) |
| `queue` (`Queue.cfg`, `MCScheduler`) | 1 repository, 2 processes, 3 jobs of every kind, synchronous checks, a schedule switched at any moment | `SnapshotCurrent`, `ConversionBarrier`, `NoOrphanedWork`, `OneAutomaticJob`, `ManualRequestKept`, and of the job inspection `BlockersLead` |
| `progress` (`Liveness.cfg`, `MCScheduler`) | 1 repository, 2 processes, 2 jobs, fetches, conversions and synchronous checks, 3 s, fairness | `ExpiredClaimsRecovered`, `DueJobsAttempted`, and of the job inspection `FailureStaysVisible` |
| `archive` (`Archive.cfg`, `MCArchive`) | 2 processes, 3 bundle names, 2 versions, every operation, a supplied mirror or none | `HeldNeverLost`, `CompleteMeansWhole`, `SourceBound` |
| `archive_jobs` (`ArchiveJobs.cfg`, `MCArchive`) | 2 processes, 2 bundle names, claimed jobs only | `InventoryTrusted` |
| `retained_mirror` (`Retained.cfg`, `MCArchive`) | the same, every operation | expected violation of `LeftoversCleanable`, section 6 |
| `worker` (`Worker.cfg`, `MCWorker`) | 2 workers, 1 job, 1 failing transaction, 1 kill | `OneGitPerRepository`, `StopStartsNothing`, `ClaimIsGivenBack`, `RowIsTruthful` |
| `heads` (`Heads.cfg`, `MCHeads`) | 2 refs, 2 commits, 2 changes of the remote, 1 failing step, fairness | `CurrentIsTrue`, `CompleteFetchResolves`, `EventuallyMirrored` |
| `reservations` (`Reservations.cfg`, `MCReservations`) | 2 processes with 2 calls each, a namespace, a repository and two directories below it, fairness | `StopsAtBoundaries`, `RootPasses`, and that the locks implement `Containers` (`ImplementsContainers`) |
| `registration` (`Registration.cfg`, `MCRegistration`) | fetch or a previewed batch of 2, beside add, queue or audit, and a worker; 2 roots, 1 key in 2 casings, 1 fault | `ReportsAreTrue`, `PreviewIsHonest`, `SourceFollowsArchive` |
| `index_init` (`IndexInit.cfg`, `MCIndexInit`) | 3 processes, 2 statements, 2 retries, 5 kinds of file | `ReadyMeansWhole`, `RefusedForCause` |
| `settings` (`Settings.cfg`, `MCSettings`) | 2 processes with 2 calls each, 2 directories in 3 spellings | `NoLostUpdate`, `RefusedStays` |

These are the runs of `PROJECT.json`, each property with its mutant. Ten
configurations more are kept for use by hand; they check what the modules state
beyond the runs, and those named in section 6 end in a violation:

| Configuration | Module | Properties |
|---|---|---|
| `Shutdown.cfg` | `MCWorker` | `StopEnds`: a stopped worker ends although its Git process never does |
| `Transport.cfg` | `MCTransport` | `TypeOK`, `OneSource`, `ErrorTellsAll`, `StartsEmpty`, `FailsForCause`, `MirrorKept`, `EitherSuffices` |
| `Streaming.cfg` | `MCStreaming` | `TypeOK`, `LinesAreThoseWritten`, `NothingSecret`, `FinalErrorSurvives`, `NothingRunsOn`, `CallEnds` |
| `Pages.cfg`, `Selecting.cfg` | `MCInventory` | `PageAddsUp`, `ButtonsLead`; `TypeOK`, `SelectionIsWhole`, `SelectionSurvives` |
| `QueuePage.cfg` | `MCQueuePage` | `TypeOK`, `ShownIsOnePage`, `NextIsNext`, `ShownCatchesUp` |
| `Blocked.cfg` | `MCScheduler` | `BlockedUntilCorrected`, `StartingWorkResolvesNothing`, section 6 |
| `Race.cfg` | `MCArchive` | section 6 |
| `BatchFetch.cfg` | `MCRegistration` | section 6 |
| `Probe.cfg` | `MCTransport` | section 6 |

A module may state still more (the type invariants, `NothingLeftBehind`,
`ContentKept`, `OnlyGrows`, `PagesShowEverything`, `TerminalContainers` and others):
adding the name to the configuration of its module checks it.

Why the bounds are enough.

* *Queue*: two processes and a lease shorter than the modelled time let one stall, lose
  its claim, see another take the same job and come back; three claims give a job a first
  attempt, a lapsed one and a retry; three jobs put something before and after a
  conversion, and a synchronous check before a pending fetch in front of a conversion; in
  `progress` two jobs are the fetch and the check that overtakes it, or either and a
  conversion; two repositories and two kinds show that the success of one says nothing of
  another; retention of one second lets history expire within the run and ids be used
  again. The last of the delays is reached with one delay, as with four.
* *Archive*: two processes are one at work and one that interferes or survives it; three
  names are the selected bundle, one left by a crash and a new one; two versions tell new
  from old, and HEAD from refs.
* *Worker*: an eviction needs one worker that is killed or late and one that takes over;
  the claim of a job is all that two of them share.
* *Heads*: two changes put one before and one after any step of a fetch; two refs and two
  commits give every kind of HEAD and every wrong combination of HEAD and refs.
* *Reservations*: a conflict is between a directory and one above it; two calls let the
  second one meet what the first left.
* *Registration*: the two casings of one key are what a source conflict needs, two roots
  what a report can be wrong about, two lines what a duplicate needs.
* *IndexInit*: one initializer that creates, one that waits for it and a third that finds
  what either of them left.

`MaxJobs`, `MaxClaims`, `MaxNow`, `MaxVersion`, `MaxChanges`, `MaxFailures`, `MaxStops`,
`MaxCalls`, `MaxBytes`, `MaxMoves`, `MaxWrites`, `MaxClicks`, `MaxSelection`, `Faults`,
`Crashes` are the only bounds in guards.

Symmetry: processes, repositories and bundle names are interchangeable in the runs
without temporal properties (`claims`, `queue`, the archive runs, `worker`). The archive runs use a
VIEW that drops what a process remembers and will not read again, and for `archive` the
part of the inventory that no step on the disk depends on; both leave the checked
variables in place.

Fairness is assumed where a liveness property needs it, and only of what the code
itself keeps doing:

* `progress` (`FairSpec` of `Scheduler`): the clock runs; every process, when idle, keeps
  trying to claim, which is the loop of `run_continuous`; an execution whose claim is
  lost ends, because guards poll every 0.2 s while a child runs; an execution that can
  finish does, because its deadline ends every wait. Nothing makes a process renew its
  lease, stay alive or answer. The properties' escapes (`claims = MaxClaims`, an earlier
  job deferred past `MaxNow`, a running one whose lease ends after it) are the model's bounds,
  not the code's.
* `heads`: an operation that has begun goes on (its deadline ends it); a scheduled check is
  begun if it stays due and its schedule is not blocked (`tick`), a queued fetch if it stays
  in the queue. Nothing is assumed of the user, without whom a refused fetch is not tried
  again: `EventuallyMirrored` says instead what it takes, that the schedule is not left
  blocked for ever and that checks by hand, which take the place of scheduled ones, come to an
  end. Without either premise TLC finds a mirror that stays outdated. The remote need not
  settle and failures need not stop, but both are bounded.
* `reservations`: a process in the middle of a walk goes on. Work, verifications and
  orphans may last for ever.
* By hand: `Shutdown.cfg` lets the threads of a worker run and nothing else (its Git
  process need not end); `Streaming` assumes that Git ends or the deadline passes and
  that the reader reads; `Transport` that a step is taken; `QueuePage` that its timer
  fires, a hidden tab is shown again and requests are answered often enough, which is an assumption about
  the server and the user.

`CHECK_DEADLOCK FALSE` stands where the modelled processes really end, or the bounds on what a user does are used up:
`Worker.cfg`, `Shutdown.cfg`, `Reservations.cfg`, `Registration.cfg`, `BatchFetch.cfg`,
`IndexInit.cfg`, `Settings.cfg`, `Streaming.cfg`, `Pages.cfg`, `Selecting.cfg`,
`QueuePage.cfg`. In the others requests, the clock or a crash always remain.

## 4. Hazards and properties

The list with its lines is in `PROJECT.json`. The ones the properties are built around:

* A stalled owner wakes up after its lease and writes with what it remembers, perhaps
  after another process claimed the same job: `FencedInventory`,
  `EvictionOnlyAfterLease`, `ImplementsLease`.
* `finish` decides by the row as it was at claim time: `SnapshotCurrent` says that is
  still the row while the claim lasts, although requests coalesce into pending rows.
* A schedule disabled while its job runs, retries or is recovered: `NoOrphanedWork`.
* A conversion in the queue against synchronous commands: `ConversionBarrier`.
* History that expires while it proves the last success: `LastSuccessKept`.
* Views in SQL of their own that must follow the queue's rules: `RunnableIsClaimedNext`,
  `BlockersLead`, `FailureStaysVisible`.
* A problem that disappears although nothing resolved it: `ErrorsNeedEvidence` asks, of each
  attempt, for a success of the same repository and kind or of its own job, a newer problem
  of that job, the expiry of the failed job, or one of three named cancellations.
* Jobs that wait for one another although a synchronous check overtook the fetch they wait
  for: `DueJobsAttempted`, `BlockersLead`.
* A crash between the new bundle, its selection and the retirement of the old copies;
  a failed marker write; an orphaned Git child that writes after its parent's claim was
  given to someone else: `HeldNeverLost`, `CompleteMeansWhole`, `OneGitPerRepository`.
* A failed fetch that releases the source binding: `SourceBound`.
* The reconciliation flag against every order of writes, failures and lapsed claims:
  `InventoryTrusted`.
* A stop between any two steps of the worker's loop, threads that outlive it:
  `StopStartsNothing`, `ClaimIsGivenBack`, `RowIsTruthful`.
* A remote that changes while it is fetched: `CurrentIsTrue`, `CompleteFetchResolves`,
  `EventuallyMirrored`. A refusal may leave new refs with an old HEAD, and blocks the schedule.
* Nested directories initialised at once, a verification that takes hours:
  `StopsAtBoundaries`, `ImplementsContainers`, `RootPasses`.
* Decisions from one connection acted on in a later transaction: `ReportsAreTrue`,
  `PreviewIsHonest`, `SourceFollowsArchive`.
* Concurrent creation of the index and change of the settings: `RefusedForCause`,
  `ReadyMeansWhole`, `NoLostUpdate`, `RefusedStays`.

`FencedInventory` is about processes that hold claims; the unfenced writers, `clean`
and `audit --fix`, are in `Archive`. There, `InventoryTrusted` holds for claimed jobs
and fails once `audit --fix` takes part. It fails with `clean` too
(`Operations = {"fetch", "clean"}`): a fetch asks for reconciliation before it holds the
lock, `clean` under the lock publishes and withdraws the request, the fetch then changes
the mirror, fails, and fails again to publish. What is left is a stale inventory that
nobody is asked to look at again.

## 5. What is proved

`SchedulerProofs` proves `Spec => []IInv` of `Scheduler`, and with it the properties of
`JobsView`, for every set of repositories and processes, every list of retry delays, every lease, deferral and retention and every bound. The
properties alone are not inductive, since each transaction is right only in tables
that the others left consistent. `IInv` adds to `TypeOK`:

* `Consistent(jobs, attempts, claims)`, five facts on the tables. `RunningRows`: a
  running row's token is one of those drawn, and its attempt is open and is this job's.
  `QuietRows`: other rows have neither token nor lease. `PresentRows`: absent rows have
  no repository. `OneClaim`: one running row per repository. `AttemptRows`: tokens not
  yet drawn have no attempt, attempts belong to existing rows, and the job of an open
  one carries its token.
* `OwnInv(jobs, claims, own)`: what a process remembers carries a drawn token, and
  agrees with the row for as long as the row carries that token. Without the bound on
  drawn tokens, a fresh claim could seem to be a stalled process's.

The argument has two layers. Lemmas about the operators of `JobTable` say what an
insertion, a merge, a claim, a finish, an interruption and an expiry do to `Consistent`
(`SettledKeeps`, `ReleaseKeeps`, `TakeKeeps`, `PruneKeeps` and those after them); then
every transaction composes them in a lemma of its own (`ClaimStep`, `FinishStep`, ...),
and `StepIInv` has one case per action. The theorems:

| Theorem | States, for all constants |
|---|---|
| `SchedulerProofs!Invariant` | `Spec => []IInv` |
| `TypeCorrect` | `[]TypeOK` |
| `OneRunningAlways` | `[]OneRunning` |
| `OneOpenAttemptAlways` | `[]OneOpenAttempt` |
| `SnapshotCurrentAlways` | `[]SnapshotCurrent` |
| `FencedInventoryAlways` | the action property `FencedInventory` |
| `NoOrphanedWorkAlways` | `[]NoOrphanedWork` |
| `EvictionOnlyAfterLeaseAlways`, `HistoryIsFinalAlways`, `ManualRequestKeptAlways` | the action property of that name |
| `ConversionBarrierAlways`, `OneAutomaticJobAlways` | `[]ConversionBarrier`, `[]OneAutomaticJob` |
| `RetryBudgetAlways` | `[]RetryBudget` |
| `LastSuccessKeptAlways`, `ErrorsNeedEvidenceAlways` | the action property of that name |
| `ImplementsLeaseAlways` | `Spec => ImplementsLease` |
| `RunnableIsClaimedNextAlways`, `BlockersLeadAlways` | `[]RunnableIsClaimedNext`, `[]BlockersLead` of `JobsView` |
| `FailureStaysVisibleAlways` | the action property `FailureStaysVisible` of `JobsView` |

What the properties need beyond the invariant:

* For the action properties, what each operator of `JobTable` leaves alone (`Fixed`,
  `FixedStays` and the lemmas around them): a terminal row stays until it expires, and a running
  row changes only in a transaction of its owner or after its lease has run out. That a
  new attempt overwrites no old one needs `BlankAttempts`.
* `Lined`: `ConversionBarrier` and `OneAutomaticJob` as statements about one table.
  A table that is `Thinner`, in which no work in flight is new and none that waited runs,
  keeps them; new jobs keep them because they come after everything there is, and because
  a schedule adds one only where it has none. Claiming is the one step left.
* `Tallied`: the retry count is the number of the job's transport failures. It is
  inductive once it says that an open attempt carries no "transport" yet; that a new
  job starts from zero follows from `IInv`, where ids not yet drawn have no attempts.
* `Moves`: what a step may do to one row and to one attempt, whatever action it is. A row
  that succeeds does so with an attempt that has just succeeded; an attempt stays, opens
  as the youngest, closes now, or expires with its job unless it is the latest success
  (`StepMoves`, one case per action). `LastSuccessKept`, `ErrorsNeedEvidence` and
  `FailureStaysVisible` follow from it and from two facts that are inductive beside `IInv`:
  `Dated`, that an attempt has an end if it has an outcome, and none in the future, and
  `Abreast`, that an open attempt is the youngest of its repository. Which cancellations drop a
  problem is followed action by action: a row leaves the jobs in flight only by a command that
  `Dropped` names (`Leaves`, `StepLeaves`). Without `Abreast`, the
  attempt that closes could be older than the failure shown and hide it.
* That there is a latest success at all is an induction over a finite set. It is done
  without the induction theorems, by well-foundedness: of the attempts in question, take
  one with the fewest later ones (`LatestIsThere`, and `LeastNatural` likewise).
* `TwoStepsLead`: whoever follows `blocking_job_id` reaches the end in two steps, the first
  job in line and then perhaps the synchronous command that overtook it. This uses
  `OneClaim` and makes the length of the chain, `MaxJobs` steps of it, immaterial
  (`LedValue`).
* `FirstRunnable`: of the jobs of the runnable view one is above all others, and by
  `BlockingFirst` these jobs are those that may be claimed. `JobsView` orders rows by the
  number of rows above them (`Ordered`), because the prover has no definition of `SortSeq`.
* `StepRefines`: every step is, for all repositories at once, a step of `ClaimLease` or a
  stutter (`StutterRefines`, `CalmRefines`, `LapseRefines`, `TakeRefines`,
  `ReleaseRefines`, `RecoverRefines`).

`ArchiveProofs` proves `Spec => []IInv` of `Archive` for every set of processes,
bundle names and operations, with or without a supplied mirror, and every number of
versions. `HeldNeverLost` is not provable by itself: that a step loses nothing depends
on what the operation established several steps before, and on nobody having undone it
since. `IInv` therefore adds to `TypeOK`:

* `Sound(disk, remote)`, what a directory is like between any two steps, the two checked
  invariants among it, and that no refs are newer than the remote.
* `LockInv`: a process at a step under the lock holds it. This is what makes the next
  part nobody else's to disturb, and what a killed process's Git child must keep true.
* `Fits(disk, step, job, remote)` for every process: the directory each step counts on.
  A bundle about to be selected knows no less than what is held (`select`); a Git child
  was offered no less than the mirror has (`fetching`, `orphanFetch`); a clone works
  where nothing is committed (`cloning`, `orphanClone`); what retirement removes lies
  beside a selected bundle (`retire`, `retiring`).

`StepKeeps` says that a step of the lock's holder disturbs no other process,
`LeavesOrGoesOn` that a lost claim or an exception may take the holder out after any
step; the lemmas after them do one group of actions each, and `StepHolds` combines them.

The theorems about the archive:

| Theorem | States, for all constants |
|---|---|
| `ArchiveInvariant`, `ArchiveTypes` | `Spec => []IInv`, `[]TypeOK` |
| `CompleteMeansWholeAlways` | `[]CompleteMeansWhole` |
| `SourceBoundAlways` | `[]SourceBound` |
| `HeldNeverLostAlways` | the action property `HeldNeverLost` |
| `OneUnderLock` | two processes, orphans included, are never both at steps under the lock |
| `InventoryTrustedAlways` | `[]InventoryTrusted`, if all operations are claimed jobs |

`InventoryTrustedAlways` assumes `Operations \subseteq Jobs`; section 4 says what happens
without. Its invariant `Trust` has three parts. `Told`: unless reconciliation is asked for,
the inventory is true of the directory, and every process is at a step where it has not
begun to change what is observed, or has published it (`Calm`). `NothingThere`: whoever
is about to publish that there is no archive is right, although the lock is not held.
`OnlyJobs`: nobody cleans. What retirement and clearing away remove is `Alike` to an
observer.

`IndexInitProofs` proves its theorems for every number of processes, statements and
retries. `Sound`: a committed database never holds a part of the schema, and one that
is supported is whole. `Known(p)`: what an initializer still knows of the file at each
of its steps, in particular that between its two looks nobody but another initializer
can have changed it, and that inside the write transaction its copy differs from the
file only by the statements it executed.

`HeadsProofs` is for every set of refs and commits and any number of changes and
failures. `Places` ties the step of an operation to the state of the mirror, `Closed` says that
the mirror has every commit it names, `Honest` that the inventory's digests are those of
what they were taken from. `Published` (HEAD and refs are those the remote told of) is
required only where a HEAD has just been verified; `Fresh` holds while the remote is
quiet, and is what makes a quiet fetch end with a mirror equal to it.

`WorkerProofs` is for every number of workers, jobs, failing transactions and kills.
`Exclusive`: two workers that hold a lock or a Git child hold those of different jobs.
`Owned`: a row is claimed exactly while it runs. `Local(w)` ties lock, child and threads to where the main
thread is, `Stopped(w)` bars the way from where a stop arrived, `Row(w)` says what the
row of `workers` may be at each step, `Claims(w)` that a claim which still counts is one
its worker is about to settle.

`CommandProofs` holds the proofs of two modules. About `Settings`, it is for any number
of processes and calls and every way directories can be spelled:

* `OnDisk`: every file is a synchronised one; the file on the disk itself can be read
  exactly if the current one can, and its list is a prefix of the current list. Hence a
  power failure takes back entries and breaks nothing.
* `Writes(p)`: the process in the transaction still faces the file it loaded, and what its
  temporary file holds at each step: the list loaded with one entry more, once it is
  synchronised. `Reads(p)`: what a reader has opened has all that it was owed.
* The lemmas `NthMention`, `ParsedDirs` and `ParsedAgain` are about the list itself: parsed,
  it has every directory that is spelled, each once, and a list that was parsed is parsed
  to itself. That a set of mentions can be counted through without a gap would be an
  induction; it is a surjection between finite sets of one size here. `ParseArchiveDirs`
  is therefore defined by the number of mentions that come first, not by a fold.

About `Transport` (the instance `Net`), it is for any diagnostics, summary and limit, and
any number of changes and stops. `Asking`: the failures of an operation are those of the
first candidates in order. `Stages`: what the mirror is at each step. `Whole` is needed at
the probe, the only step of a fetch that chooses its transport anew.

`ReservationsProofs` is for every tree of directories, any number of processes and calls,
any crashes. The walk looks only at one directory at a time, so its invariant says what
that amounts to, and a process about to become a container must exclude those it cannot see:

* `Walk(p)`: where a process is tells how deep it has reserved and whether it has the root.
  `Flocks`: an exclusive reservation is beside no other process's reservation of that
  directory, the inherited ones of orphans included.
* `Clear`: a walk has a container above it only if it is the directory it has just
  reserved and is about to look at. `Verified`: below a directory that is about to be
  published there is none. Together with `Flocks` they give `TerminalContainers`, whichever
  of two nested initialisations comes first.
* `Rooted`, `Closed`, `Deep`: parents exist, containers lie at least at the depth where the
  code looks for them.

Paths are sequences, and whether one directory is below another is a statement about
all its prefixes. What would be an induction over them is a choice of a least counterexample
(`LeastNatural`, from the well-foundedness of strict inclusion of finite sets).
`ImplementsContainersAlways` maps each step to a step of `Containers` or a stutter.

`RegistrationProofs` is for every set of commands with batches of any length, every
content of the directories and any number of faults. `IInv` is `Typed`, `At(p)` (what a
command relies on at each of its steps: the root it decided on, the rows it remembers,
whose lock and whose claim it holds) and `Reported(p)` (what it has already told the user
is true of the rows). Three facts about every step carry it from one command to the
others: `Kept` (a row's root never changes once it is there), `Left(p)` (nobody else binds
a directory that `p` has locked), `Own(p)` (nobody else's step changes `p`'s memory). Then:

* `Faithful`: each transaction that changes a row or a source keeps them in agreement;
  `ArchiveLeads` needs that the source of a bound directory is not changed by its steps.
* `PreviewsAreHonest` compares two traversals of one list, the preview by `Find` and
  `Look` and the registration by transactions that insert rows as they go, while later
  lines of the list meet rows of the earlier ones. `Previews(p)` states what the answers
  of a preview say of the rows `B` it began with, line by line (`Answered`, `Right`);
  `Bound` says which row stands for a key after the first `n` lines, that of `B` or that
  of the line that came first; `Fulfils(p, B)` says of a registration under way that its
  answers and the rows so far are those `B` and the promise imply. A disturbance by anybody
  else ends the obligation (`Undisturbed`, the premise of the property).

| Theorem | States, for all constants |
|---|---|
| `IndexInvariant`, `IndexTypes` | `Spec => []IInv`, `[]TypeOK` of `IndexInit` |
| `ReadyIsWhole`, `OnlyRefusedForCause` | `[]ReadyMeansWhole`, the action property `RefusedForCause` |
| `ContentIsKept` | the action property `ContentKept` |
| `HeadsInvariant`, `HeadsTypes` | `Spec => []IInv`, `[]TypeOK` of `Heads` |
| `CurrentIsTrueAlways`, `CompleteFetchResolvesAlways` | `[]CurrentIsTrue`, `[]CompleteFetchResolves` |
| `RefusedForCauseAlways`, `QuietFetchIsCurrentAlways` | `[]RefusedForCause`, the action property `QuietFetchIsCurrent` |
| `WorkerInvariant`, `WorkerTypes` | `Spec => []IInv`, `[]TypeOK` of `Worker` |
| `OneGitPerRepositoryAlways`, `NothingLeftBehindAlways`, `StopStartsNothingAlways`, `ClaimIsGivenBackAlways`, `RowIsTruthfulAlways` | `[]` of the property of that name |
| `SettingsInvariant` | `Spec => []IInv` of `Settings` |
| `NoLostUpdateAlways`, `ReadsAreCurrentAlways` | `[]NoLostUpdate`, `[]ReadsAreCurrent` |
| `RefusedStaysAlways`, `OnlyGrowsAlways` | the action property of that name |
| `TransportInvariant`, `TransportTypes` | `Spec => []RemoteInv`, `[]TypeOK` of `Transport` |
| `OneSourceAlways` | `[]OneSource` |
| `StartsEmptyAlways`, `MirrorKeptAlways`, `FailsForCauseAlways` | the action property of that name |
| `ReservationsProofs!TypeCorrect`, `ContainersAreTerminal`, `WorkIsAlone` | `[]TypeOK`, `[]TerminalContainers`, `[]WorksAlone` |
| `BoundariesStop`, `BusyHasCause` | `[]StopsAtBoundaries`, the action property `BusyForCause` |
| `ImplementsContainersAlways` | `Spec => ImplementsContainers` |
| `RegistrationProofs!TypeCorrect`, `ReportsStayTrue` | `[]TypeOK`, `[]ReportsAreTrue` |
| `BatchIsAnswered`, `QueueActsOnce` | `[]EveryLineAnswered`, `[]QueuedOnce` |
| `ArchiveLeads` | the action property `SourceFollowsArchive` |
| `PreviewsAreHonest` | `[]PreviewIsHonest` |

Assumptions are those named in the modules (`JobTableAssumption`, `SchedulerAssumption`,
`ArchiveAssumption`, `IndexAssumption`, `HeadsAssumption`, `DigestAssumption`,
`WorkerAssumption`, `ReservationsAssumption`, `RegistrationAssumption`, `JobsViewAssumption`,
`SettingsAssumption`): bounds are naturals, leases, intervals, pages and numbers of
statements positive, requests among the three kinds, operations among the six, paths
non-empty sequences of names that contain their parents, commands and directories of the
shapes the code gives them, the directory that a spelling names is named by itself, and the
null values are none of the values they stand beside. TLC evaluates them in every run. The
part of `CommandProofs` about `Transport` assumes nothing.

Model-checked only:

* liveness, which is outside the prover: `ExpiredClaimsRecovered`, `DueJobsAttempted`,
  `EventuallyMirrored`, `RootPasses`, `CommandsEnd` and the others checked by hand;
* what a reader who follows all pages sees (`PagesShowEverything`), a recursion over data;
* the safety of `Streaming`, `Inventory` and `QueuePage`, whose configurations are for use by
  hand. What `Streaming` delivers is a fold over parts of what was read, so that its value
  for every text is an induction over data; the other two have not been attempted.

Every invariant and every action property of the runs of section 3 that pass is a theorem.

## 6. Where documents and code disagree

The first is the run `retained_mirror`; the others are configurations for use by hand,
each of which TLC ends with the counterexample described (it reports the first property
violated; the other of `Blocked.cfg` shows when that name is removed).

* `retained_mirror` (`LeftoversCleanable`): "Interrupted cleanup may leave retired
  generations, a retained mirror, ...; `clean SELECTOR` cleans recognized state"
  (docs/guarantees.md:67). Retirement removes the mirror's tree entry by entry but first
  validates its layout, so a tree that an interruption left torn is refused by every
  later retirement (git_bundle.py:264).
* `Blocked.cfg` (`BlockedUntilCorrected`): "Structural errors block a schedule until
  corrected by a successful manual operation or re-enabled" (docs/guarantees.md:230).
  The success of a scheduled job that was already queued or retried lifts the block too
  (scheduler.py:113).
* `Blocked.cfg` without that property (`StartingWorkResolvesNothing`): "Queuing or starting new work does
  not resolve a failure" (docs/guarantees.md:272). A synchronous check cancels the
  pending retry of a failed one, and cancelled jobs carry no error (scheduler.py:142,
  index.py:101). `ErrorsNeedEvidence`, which holds, names this case in `Dropped`.
* `Race.cfg` (`InventoryTrusted`): "The caller owns fenced publication of the
  observation" (observation_service.py:14). `audit --fix` publishes without a claim, and
  for a directory that does not exist without a lock: a fetch may create the archive in
  between and be interrupted, and the stale write clears the reconciliation that the
  interruption asked for (repo_audit.py:214).
* `BatchFetch.cfg` (`FetchContinues`): "Check/fetch and batch add/queue/unqueue/schedule
  continue after individual failures" (docs/use.md:69). A failed transaction or a lost
  claim of one repository leaves the loop of a batch fetch, and the other selectors are
  neither tried nor reported (repo_cli.py:210).
* `Probe.cfg` (`KeepsToOneTransport`): "A fetch uses the transport that answered its first
  remote request for the rest of that operation" (docs/use.md:29). The remote observation
  at the end of a fetch tries SSH first again, whichever transport fetched
  (repo_service.py:71).

## 7. Not modelled, and why

Parsing, validation and formatting (URLs, manifests, bundle headers, tables, pages of
HTML) appear as checks that may refuse: they hold no state. The steps inside a bundle's
staging directory are one step, since nothing reads staging after a crash except to remove
it. Progress rows inform people and decide nothing. `audit --adopt`, the choice of what
`clean --all` removes and the registration of unindexed storage repeat, directory by
directory, operations that are modelled, over a tree whose shape is the data. Symbolic
links and the removal of empty parents are left out of `Reservations`. Routing, sessions
and rendering of the web manager, argument parsing, the error classes, executable lookup
and the documentation editor keep no state of the archive or the queue.

## 8. Plan

Done: every module of section 2 and the proofs of section 5. What is left, in the order of
its worth:

1. Proofs: the safety of `QueuePage` and `Inventory`; of `Streaming`, with `Parts`, `Feed` and
   `Kept` in closed form, as `ParseArchiveDirs` is.
2. An abstract archive (one committed content that only moves forward) with `Archive`
   shown to implement it, and the composition of `Scheduler`'s claims with `Archive`.
3. The traversal of `audit --adopt` and `clean --all` over `Reservations`.
