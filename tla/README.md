# A verification of stashd

stashd manages caches for a cluster: users *create* filesets on cache storages, *warm*
them from home or project storages, *flush* them back and *release* them. One
**controller** (HTTP API, PostgreSQL, scheduler) decides; one **storage daemon** per host
makes directories, runs rsync and reports. This directory holds TLA+ models of that
system, translated from the code under `src/src/stashd` (paths below are relative to it),
TLC configurations that check them on small instances, and TLAPS proofs of theorems about
them for every value of their constants.

- [Inventory](#inventory) – what the system consists of, and what is hard about it
- [Modules](#modules) – which module models what, and how
- [Runs](#runs) – what TLC checks, with which bounds and fairness
- [Proofs](#proofs) – what TLAPS proves, from what, and how
- [Where the code falls short](#where-the-code-falls-short-of-its-words) – disagreements found
- [Not modelled](#not-modelled) and [Plan](#plan)

## Inventory

| Component | State | Operations | Talks to |
|---|---|---|---|
| Transfers and filesets (`domain/transfers.py`, `domain/filesets.py`, `models/`) | two tables of rows, each with a state machine | `next_transfer_state`, `next_fileset_state` | everything below |
| Requests (`services/filesets.py`, `warm.py`, `flush.py`, `cancel.py`, `transfers_release.py`) | the rows, and the copies of them a handler holds across HTTP calls | create, warm, refresh, flush, release, resize, cancel | daemons, between their transactions |
| Admission (`domain/allocation.py`, `services/allocations.py`) | sums over filesets; an advisory lock per user | `admission_state`, `admit`, `check_resize` | called inside create, warm, resize |
| Scheduler (`scheduler/loop.py`, `domain/scheduling.py`) | counters of slots, one pass at a time under a lock | read queue, plan, offer to daemons, commit | daemons, rows |
| Reports (`clients/events.py`, `services/events.py`) | sequence number per transfer on both sides | report; apply, ignore, retry, refund, release after a flush | daemon to controller |
| Reconciliation (`services/reconcile.py`) | rows in flight when the controller starts | requeue, adopt, wait, give up | daemons |
| Task runner (`tasks/threaded.py`, `tasks/execute.py`) | a table of tasks, a pool of threads, a drain | submit, run, abort, drain | engine, reports |
| Engine (`engines/rsync.py`) | registered processes, cancelled handles | run, cancel, collect | rsync |
| Config (`config/distribution.py`, `config/reload.py`, `clients/config.py`, `services/daemons.py`) | a file, the running document, a held and a cached copy per daemon, its row | load, reload, fetch, cache, refresh, announce | both ways |
| Topology (`config/cluster.py`, looked up by everybody) | the document requests and passes read, the one the clients were made with, the storages each daemon opened | validate, look up a storage, its daemon, its roles | requests, scheduler, reconciliation, clients |
| Fair share (`services/fairshare.py`, `domain/fairshare.py`) | points per user, and when they were decayed | charge, refund, read | warm, flush, cancel, reports, scheduler |
| Retention and reports (`services/retention.py`, `services/reports.py`) | rows, daily buckets | prune, usage report, allocation report | rows |
| Usage (`services/usage.py`) | measured bytes and a flag per fileset | measure, flag | daemons |
| Limits, drain of storages (`services/limits.py`, `services/drain.py`) | two small tables | set, drain, undrain | admission, scheduler |
| Drivers, identity, authentication, audit, metrics | none that outlives a call, or write-only | – | – |

What makes it hard:

- **Handlers wait.** A request or a pass reads rows, calls a daemon over HTTP, and writes
  what it decided from the copies. SQLAlchemy writes only the columns a handler changed,
  never refreshes (`expire_on_commit=False`) and has no version column, so the last
  writer of a column wins.
- **Reports are unreliable.** A daemon posts once, without retry; reports are lost,
  overtake each other, and often arrive before the pass that caused them has committed: a
  thread of the daemon says "started" as soon as it has a task (`tasks/threaded.py:110`),
  the pass commits when all daemons have answered (`scheduler/loop.py:82`).
- **Everything restarts.** A controller that stops between a daemon's answer and its own
  commit forgets a task; a daemon that restarts forgets all of its tasks and numbers new
  ones from 1 again.
- **Copies age.** Daemons work by cached config; clients keep the config of their start,
  while the scheduler reads the current one: a reload may move or remove a storage between
  the submission, the start and the end of a transfer.
- **Threads.** A task, its process, a stop and a drain touch the same table and process.

What each component has to get right, in short: a transfer is carried out once, a
fileset has one mover, whose directory is not deleted under it, an end is final and never
invented or missed, nothing is left busy for ever; limits hold under concurrency; a config revision
names one document and reaches everybody, data lands on the daemon that owns the target, and
nobody is told another's task number; a stopped daemon reports every end; history and
points survive pruning and decay. `PROJECT.json` lists the hazards one by one at the line
where each bites, with the properties aimed at it.

## Modules

| Module | Models | Lines of thought |
|---|---|---|
| `Rules` | the transition tables, ranks, failure classes and the retry rule | constants of the code, as sets |
| `Daemon` | tasks and their reports as the controller sees them | abstract: a task runs, reports, ends once |
| `Controller` (extends `Rules`, `Daemon`) | requests, passes, reports, restarts, reconciliation | the core; one action per stretch between two HTTP calls |
| `TaskRunner` | pool, processes, stops, drain | detailed; shown to implement `Daemon` |
| `Admission` | the sums, the lock, reservations, resize | one handler step per transaction |
| `Usage` (extends `Admission`) | measuring, records and flags, beside admission | a pass reads, has measured, writes by copies; shown to implement `Admission` |
| `Dispatching` | the queue, its order and its limit; the plan of a pass and its four levels of limits | the walk of `plan_dispatch`, one transfer at a time |
| `Topology` | a config that changes under transfers: what may be in it, who looks up what in which copy | three copies of the document; one row action per lookup |
| `Distribution` | file, reload, fetch, cache, refresh, announcement | a document is a revision and a text |
| `Accounting` | points, buckets and the usage report | transactions that read, then commit; time in half-lives |
| `Ledger` | what fair share promises | abstract: shown to be implemented by `Accounting` |
| `MC*` | model values for each of them | |
| `*Proofs` | theorems | one module per component; `AdmissionProofs` is about `Usage` too |
| `Sums` | lemmas about sums over finite sets | a sum is a number of units |

Steps. A stretch of a handler that only talks to the database is one atomic step; at every
HTTP call the handler waits in `request` (or `todo`/`sent` for the pass), and any other
step may come between. A row is a record of the columns some handler branches on. What a
handler remembers is in its request record, so a write from a stale copy is visible as
such (`CancelCommit`, `FlushSubmit`, `PassCommit`).

**Controller.** `Create*`, `Warm*`, `Flush*`, `Release*`, `Cancel*` are the user requests;
`PassBegin` takes the lock and reads the queue, `PassStart`/`PassRefused`/`PassReplyLost`
are the outcomes of offering one transfer, `PassCommit` writes them all at the end of the
pass. `EventApplied`, `EventIgnored` and `EventRaises` are the three ends of
`apply_event`; `EventAppliedRelease` starts the release that follows a flush. A report may be handled at any moment after it was sent: the first of a transfer often
meets a row that is still SUBMITTED, and is refused (`EventRaises`). A pass takes every row that
is SUBMITTED, one whose directory is still being made included. After
`ControllerCrash` the rows in flight are in `recovery`, and `Reconcile*` handles them
before anything is served (`api/app.py`, `background`); reports sent meanwhile are lost.
Which transfers a pass picks is left open here (`chosen` is any subset: limits and
back-off are Dispatching's), and so is the moment at which the grace of reconciliation is
over. What surroundings may do is the constant `Env`, what users ask for is `Ops`, so that
a run says in its cfg under which circumstances its properties hold.

**Daemon and TaskRunner.** In `Daemon` the last change of a task and the report of it are
one step. `TaskRunner` has the threads: `Begin`, `Launch`, `Register`, `Collect`,
`Settle`, `SayEnd`; `Exit` is rsync's own end. `ImplementsDaemon` maps it: a task ends, for
`Daemon`, when its process has been waited for, and the number of its last report counts
as taken from then on. A drain adds reports of its own (`daemon_shutdown`), which
`DaemonNext` allows explicitly; Controller does not have them yet. uvicorn answers its
last request before the lifespan ends, so nothing is submitted or stopped beside a drain.

**Admission.** `limit` is what an admin set for a user and a storage, or for all of them
(`SetLimit`, `ClearLimit`: `services/limits.py`), at any moment and without the lock; a
request keeps what it was measured against (`own`, `total`). A request waits for its user's lock (`Lock`), sums and decides in one step
under it, inserts its row, and its commit unlocks. A row that is made is *held* whatever
Controller's state of it; that a released row stays released is taken from there
(`ControllerProofs!ReleaseStays`, for requests that do not overlap). Names of created and of warmed filesets are kept apart
(`NamesAssumption`): that a warm may find a created fileset is Controller's subject. The
database never gives an id twice; one of the model's few is given again only when no request
knows the row it stood for.

**Usage.** The requests are Admission's, barred by a flag of the owner (`Barred`), with what
they do to the directory added. `PassRead`, `Measure`, `PassRefused` and `PassWrite` are one
round of `_usage_loop`: rows are read, the daemon measures one directory after the other,
one it refuses fails the request, and columns that differ from what was read are written. A
pass that gets no answer changes nothing and is left out, and so is a crash, which only
loses a pass. `place` is what became of the directory: a fileset whose warm could not be
prepared is *missing* one, since its row moves on without a path. A directory goes by owner
and name, so that a fileset that was released is measured as its successor.

**Dispatching.** Counters are cardinalities of the set `counted`. `PassReads` takes the queue
with the points its users owe (`owes`, one of `Standings`), `PassLoads` the counts,
`Consider` the next of the queue in order (`Before`: points, then place), and each pick is
offered. Beside a pass rows are queued under their user's limit (`Warm` counts and inserts
under a lock, `FlushCounts` and `Flush` do not), end, come back for a retry, and are
cancelled. `revived` keeps what a pass has assigned although it had ended: the stale write
that `EndIsFinal` is about. Releases take slots without asking.

**Topology.** `running` is `app.state.cluster`, replaced by a reload; `wired` is what
`HttpTransferDispatcher` was made with; `serves` the drivers of each daemon. `Problems` is
`_check_cross_references`, rule by rule, and `Reload` and `Restart` take any document that
has none. A pass keeps its document (`pass.doc`), starts tasks by *both* copies – the daemon
through `wired`, the end point through `pass.doc` (`PassStart`, `Into`) – and commits at its
end; `PassRaises` is the `KeyError` of a storage that is in one copy and not in the other,
which nothing in the pass catches; a flush whose target's daemon refuses the probe is turned
away before the storage is looked up (`TurnedAway`). `Named` is what a number means to the daemon that
happens to be asked: `CancelAssigned` and reconciliation ask by the source storage. A row
in flight is one state here, since retries and refused moves are Controller's.

**Distribution.** Two documents have the same hash when they are equal. A cache is
truncated (`Torn`) and then written. An announcement is taken at once or fails; a
daemon nobody knows is refused, which is the same as failing. A file that is refused by
a reload changes nothing. The controller may stop and start at any time; `"start_anyhow"` in
`Env` lets it start on a file that a reload would refuse (`cli.py` does not compare).

**Accounting.** Time goes in ticks: a second, a day and a half-life are `PerSecond`, `PerDay` and
`PerHalfLife` of them. Rows keep ticks; `RollUp` cuts each wait and run to whole seconds, as
`services/retention.py:89-95` does with `int()`, while the report sums the rows' own fractions
(`Totals`). Amounts are multiples of 2^(half-lives), so that halving is exact on integers.
The code decays points continuously, by 2^(-elapsed / half-life); the model halves them as
each half-life passes, which is the same for times that are whole half-lives.
A submission commits its row (`Submit`) before its points. A transaction that changes points
is in `open` from its first read to its commit: `ChargeReads`, `ChargeCommits` for a charge;
`EndReads` (the row), `RefundReads` (the account), `FailCommits` or `CancelCommits` for an end.
Retention reads the rows it is going to remove (`PruneReads`), and rolls up what it read and
deletes by id in one commit (`PruneCommits`). Nothing locks an account or a row;
`"overlap"` in `Env` lets anything happen meanwhile. A bucket is keyed by
day, user, storage, route and kind, as in `models/stats.py`. Sources are ones that could
be measured (`SizeAssumption`), see below for the others.

## Runs

All configurations have `CHECK_DEADLOCK FALSE`: the system rests when nobody asks for
anything, and the models stop when ids, numbers or crashes are used up.

| Run | Checks | Bounds |
|---|---|---|
| `controller_live` | `OneMoverPerFileset`, `NothingDeletedUnderMovers`, `EveryReportIsTaken`, `TransfersSettle`, `FilesetsSettle`, `FlushReleases` | 3 transfers, 1 fileset, 6 tasks, 1 request at a time, 1 retry; reports in order, early ones included, a daemon that may not answer |
| `controller_unreliable` | `OneTaskPerTransfer`, `TaskNamesOwnWork`, `NoEndIsMissed`, `ReleasedIsLeftAlone`, `EndIsFinal`, `BusyForAReason` | 2 transfers, all requests; lost, reordered and early reports, refusals, daemons that do not answer, warms that stay unprepared |
| `controller_crash` | `SucceededIsTrue` | 2 transfers, 2 crashes, lost answers |
| `controller_restarts` | `InFlightHasTask`, `AttemptsBounded`, `ReleasedIsDeleted` | 2 transfers, 2 restarts of controller or daemon, lost reports |
| `admission_locked` | `NeverPastLimits`, `CountWithinLimit`, `AdmittedNameIsFree` | 2 requests of one user of any kind, 1 storage, 3 filesets, 3 sizes, a total limit that is lowered below the one on the storage and cleared again, a crash |
| `usage_settles` | `NothingStaysReserved`, `RecordsFollow`, `FlagsFollow` | 1 request at a time, 2 filesets, one with a warm that may stay unprepared, 2 sizes and 2 amounts on disk |
| `over_committed` | `StorageWithinCapacity`, **violated** | 2 users, 1 storage |
| `dispatch_limits` | `LimitsHold`, `NobodyIsOvertaken`, `QueueIsBounded`, `SharesAreHarmonic` | 3 warms, a flush and a release of 3 users, 3 storages of which one may drain, a queue of 1; every limit refuses something |
| `config_spreads` | `RevisionIdentifies`, `RecordedIsHeld`, `NeverBackwards`, `DaemonsCatchUp` | 1 daemon, 4 revisions, 3 texts, 2 stops of controller or daemon, full disks |
| `topology_changes` | `LandsAtTarget`, `OwnWorkOnly`, `ForgetsOnlyOverLost`, `StartedSomeDay` | 2 warms and a flush, 3 storages on 2 daemons, 3 documents that validate and 8 that break one rule each, 1 restart, 2 tasks per daemon |
| `runner_drains` | `EndedMovesNothing`, `ImplementsDaemon`, `EveryEndIsTold` | 2 tasks on 2 threads, 1 or 2 transfers |
| `accounting` | `OwesOnlyForWork`, `ReportsStay`, `DecayIsLazy` | 2 transfers of one bucket, 2 ticks: half a second, a half-life and half a day each; charges that get lost |

Why these bounds. Every disagreement found needed at most two transfers on one fileset,
two concurrent handlers and one restart; three transfers are needed for a flush, its
release and a bystander, two tasks per transfer for a retry. One daemon is enough in
`config_spreads` because daemons share nothing but what the controller serves. In
`runner_drains` a task that has not begun is queued for any time, so a third task adds
only a longer wait. `accounting` needs two transfers of one day that are pruned in
different passes. In `admission_locked` both limits bind, since a user may have 3 units of the storage and
4 in all, a stale resize does get past one, and a request is committed past a limit that
was lowered after it was admitted; that storages do not disturb each other is left to the
theorem, which is about any number of them. `usage_settles` takes requests one at a time – resizes and passes race all
the same – and amounts that are within the larger reservation and past the smaller one.
In `topology_changes` one storage moves (`Near`, `Far`) and goes (`Again`) while the other
two stay: a transfer of it, one into it, and a bystander on the same daemons are what two
copies of a document can tell apart. Symmetry is used only in runs without liveness.
`controller_live` has rows inserted in one order instead (`InOrder`, an action constraint):
unused rows are alike and nothing is due from them, so every behaviour has a renaming that
uses them in order, and the properties do not tell names apart. In `accounting` a tick is
half a second, so that waits and runs have fractions to lose, and two of them are a day, so
that windows cut days.

What the circumstances are, run by run, is deliberate: a property is checked in the
widest surroundings in which the code keeps it, and the next section but one says what
breaks it outside of them. `OneTaskPerTransfer` survives everything but a crash of the
controller or a lost answer; `TaskNamesOwnWork` and `SucceededIsTrue` everything but a
restart of a daemon; `InFlightHasTask` and `AttemptsBounded` everything;
`ReleasedIsLeftAlone`, `EndIsFinal` and `BusyForAReason` survive everything, and name the one
way in which the code breaks what a reader would expect: a released fileset changed by a
request that was at it before, an end overwritten by who read the row before it, a fileset
left busy by a preparation that outlasts its warm. `ReleasedIsDeleted` survives everything but overlapping requests and a
warm of a fileset that is already there; `NoEndIsMissed` everything that does not part a
row from its task. `OneMoverPerFileset`, `NothingDeletedUnderMovers` and `EveryReportIsTaken`
hold for requests that come one after another, neither cancel nor warm again, with no crash
of the controller and no lost answer; the last also needs daemons that do not restart.
`TransfersSettle` and `FilesetsSettle` say what liveness the ordinary schedule leaves: a
transfer ends, or its task does and the row stays ASSIGNED because what was told of it came
before the commit (`Forgotten`); a fileset comes to rest, or waits for such a transfer, or
was marked by a preparation that came after the end of its warm (`Stranded`).
`ReportsStay` is about rows that are removed as they were read. `DaemonsCatchUp` is about
daemons whose loops live and a controller that serves; the three other properties of
Distribution hold unless the controller is started on a file it would not reload.
`LandsAtTarget` and `OwnWorkOnly` are about transfers of storages that stay on their daemons
(`Fixed`), which is what an operator may count on while others move; `StartedSomeDay` is
about times when no waiting transfer needs a storage that is gone. `OwesOnlyForWork` and
`DecayIsLazy` hold while transactions on points do not overlap.

Fairness. `Controller`: weak fairness of the scheduler's pass, of a daemon's threads, of
answers, of reports and of reconciliation – the loops of `api/app.py` run again after
each sleep whatever a pass raised, and an HTTP call ends by its timeout. Users owe
nothing. `Distribution`: weak fairness of refresh steps, strong fairness of the fetch
(`RefreshFetched`), because the network is not down for good. `TaskRunner`: weak fairness
of threads and of the drain, and of `Exit`: that an rsync ends some day is an
assumption. The time limit of `engines/rsync.py:203` starts when its stdout has closed, and its
stderr is a pipe that is read only then: an rsync that fills it (a line per file it may not
read) waits for a reader, and the task for it, for ever. `EveryEndIsTold` is therefore about
processes that end. `Usage`: weak fairness of a storage's
passes, which follow one another whatever the last one raised (`_usage_loop`) and are
answered some day. `Topology`: weak fairness of the pass (`_scheduler_loop` catches
everything and goes on) and of reconciliation; edits, restarts and requests owe nothing.

## Proofs

Eight modules prove theorems, without further assumptions than the named `ASSUME`s of the
modules they extend (constants are apart from one another, bounds are naturals, sets
whose size matters are finite). TLC evaluates those on every run.
The types of all modules, and `OnlySound`, are proved and no longer part of a run. Every
invariant and every action property that a passing run checks is stated by a theorem, for
all values of the constants and in the surroundings the table names; what the runs have
beside that is liveness.

| Theorem | States |
|---|---|
| `ControllerProofs!TypeCorrect` | `TypeOK`, in every environment |
| `ControllerProofs!HasTask`, `Attempts` | `InFlightHasTask`, `AttemptsBounded`, in every environment |
| `ControllerProofs!NamesOwnWork`, `SuccessIsTrue` | `TaskNamesOwnWork`, `SucceededIsTrue`, unless a daemon restarts |
| `ControllerProofs!OneTask` | `OneTaskPerTransfer`, without a crash or a lost answer |
| `ControllerProofs!LeftAlone` | `ReleasedIsLeftAlone`, in every environment |
| `ControllerProofs!Busy` | `BusyForAReason`, in every environment |
| `ControllerProofs!DeletedFirst` | `ReleasedIsDeleted`, for one request at a time and no warm of a fileset that is there (`refresh`) |
| `ControllerProofs!EndsAreFinal` | `EndIsFinal`, in every environment |
| `ControllerProofs!EndsAreHeard` | `NoEndIsMissed`, without restarts of controller or daemon and lost answers |
| `ControllerProofs!OneMover`, `ReleaseStays`, `NothingDeletedUnder` | `OneMoverPerFileset`, `ReleaseIsFinal`, `NothingDeletedUnderMovers`, when *undisturbed*: requests one after another, no refresh, no cancel, no request between a flush's end and its release, no crash of the controller, no lost answer; restarts of the daemon, refusals, and lost, reordered and early reports included |
| `ControllerProofs!ReportsAreTaken` | `EveryReportIsTaken`, when undisturbed and without a restart of a daemon; lost, reordered and early reports included |
| `AdmissionProofs!TypeCorrect`, `CountLimit`, `NameStaysFree` | `TypeOK`, `CountWithinLimit`, `AdmittedNameIsFree` |
| `AdmissionProofs!NothingLeftReserved` | `NothingStaysReserved`, without a crash |
| `AdmissionProofs!NothingPastLimits` | `NeverPastLimits`, whatever limits are set meanwhile and whoever crashes |
| `AdmissionProofs!LimitAlwaysHolds` | `UserWithinLimit`, without resizes and with the configured limits |
| `AdmissionProofs!CapacityAlone` | `StorageWithinCapacity`, for one user and without resizes |
| `AdmissionProofs!Implements`, `LimitsStay`, `NothingLeftByUsage`, `NothingPastLimitsByUsage` | Usage implements Admission, and so keeps `CountWithinLimit`, `AdmittedNameIsFree`, `NothingStaysReserved` and `NeverPastLimits` |
| `AdmissionProofs!UsageTypes` | `UsageTypeOK` |
| `DispatchingProofs!TypeCorrect`, `LimitsAlwaysHold` | `TypeOK`, `LimitsHold` |
| `DispatchingProofs!NobodyEverOvertaken`, `QueueAlwaysBounded` | `NobodyIsOvertaken`, `QueueIsBounded`, for any order of places and any points |
| `DispatchingProofs!SharesAlwaysHarmonic` | `SharesAreHarmonic`, for any aggregate, share and slots |
| `DistributionProofs!TypeCorrect`, `OnlySoundUsed` | `TypeOK`, `OnlySound`, in every environment |
| `DistributionProofs!RevisionsIdentify`, `RowsAreHeld`, `NeverGoesBack` | `RevisionIdentifies`, `RecordedIsHeld`, `NeverBackwards`, unless the controller is started on a file it would not reload |
| `TopologyProofs!TypeCorrect`, `LandsThere`, `OwnWork`, `Forgets` | `TypeOK`, `LandsAtTarget`, `OwnWorkOnly`, `ForgetsOnlyOverLost`, for every set of documents |
| `AccountingProofs!TypeCorrect` | `TypeOK`, in every environment |
| `AccountingProofs!DecaysLazily` | `DecayIsLazy`: Accounting implements `Ledger`, without transactions of one user that overlap |
| `AccountingProofs!OwesForWork` | `OwesOnlyForWork`, without those and without transfers that end between their row and their charge |
| `AccountingProofs!TotalsSurvive` | `ReportsStay`, in every environment, for any second, day and retention: what pruning moves in a total is less than a second of waiting and of running per row |
| `TaskRunnerProofs!RunnerInvariant` | `TypeOK`, and that tasks, threads, processes and reports agree |
| `TaskRunnerProofs!EndedMoveNothing` | `EndedMovesNothing` |
| `TaskRunnerProofs!RunnerImplementsDaemon` | `ImplementsDaemon`: initial states map to initial states of `Daemon`, each step to a step or a stutter |

The hypotheses about filesets are not there for convenience: with any of them dropped, TLC
finds a behaviour that breaks the property, some of which need three or four transfers, two
crashes or a retry and are out of the bounds of the runs. One is the proof's: that a daemon
does not restart in `ReportsAreTaken`, where TLC finds nothing wrong with restarts (2
transfers, 2 restarts, lost reports), and only `NumberInv` needs it. No hypothesis excludes
the schedules of the code itself: reports that come before the commit of their pass, and
warms that are dispatched before they are prepared, are in every theorem. The hypotheses of `OwesForWork` and `DecaysLazily` are rows of
the table below, and those of `LimitAlwaysHolds` and `CapacityAlone` the stale resize and the
second user that break the two properties.

The invariants, and why the properties alone are not inductive:

- **Controller, types.** A handler writes, after waiting, to the row it remembers. `TypeInv`
  adds to `TypeOK` that whatever requests, tasks, reports, passes and reconciliation name
  exists.
- **Controller, rows.** `HowRowsChange` classifies every step by what it does to the table
  of transfers (inserted, moved, told, committed, released); the row-local invariant
  `RowSound` (attempts bounded; in flight only with a task or as a release) follows from
  the classification, for all circumstances at once.
- **Controller, own work.** A success is true because a number names one task
  (`TasksClean`: numbers are given out in order), rows and the pass hold numbers of their
  own tasks (`RowsOwn`, `SentOwn`), reports of a success come from a task that ended well
  (`EventsTrue`), and tasks only grow (`TasksGrow`, which a restart of a daemon breaks).
- **Controller, one task.** `OneTaskInv` follows a transfer through a pass and a retry: while
  a task of it lives, or a report of its failure is under way, it is *engaged*, and an
  engaged transfer is neither waiting in a pass nor offered again.
- **Filesets, one mover.** A fileset is written by requests that wait between reading and
  writing, by reports, and by the release that follows a flush. `FilesInv` ties its row to
  the work on it: whoever works shows in its state (`WorkShown`), and works alone
  (`WorkAlone`). That requests keep it so is the other half: a flush that found its fileset
  ready still finds it so when it writes (`FlushReady`), and nobody who could change the
  fileset comes before a release that is due or between its steps (`DueReady`,
  `ReleaseAlone`). `Grounds` collects what that rests on: types, `OneTaskInv`, that nobody
  works for a fileset without a row (`NewInv`) and that every release has its handler
  (`ReleaseInv`).
- **Filesets, directory.** A directory goes when a release commits its deletion, and
  `ReleaseAlone` says that nobody works on the fileset of a release: `NothingDeletedUnder` is
  `OneMover` seen from the other side. That a directory *is there* while data moves is not
  provable, since it is not so: see below.
- **Filesets, reports.** A report is refused when the row has not been told what comes before
  it. `NewsIsEarly`: what is told of a row that still waits was sent before the commit of its
  pass, and the pass still holds the task's number; `NumberInv` (numbers are given once, an end
  has the last) keeps a retry apart from what was told of the try before. Every other refusal
  is then a success told to a row that is ASSIGNED; a fileset never refuses (`EndsFitFilesets`).
- **Filesets, busy for a reason.** `OwnInv`: the handler that prepares a warm or carries out a
  release has a row of that fileset for it. A step that ends the transfer frees the fileset in
  the same transaction; what is left is the handler whose own warm has ended (`PreparedTooLate`).
- **Ends.** `EndInv` says that what a pass holds was waiting when it was read, and since then can
  only have failed or been cancelled (`HandedRows`); that the row of a release is nobody else's
  business (`ReleaseRows`); and that a controller that is down holds nothing (`Down`). `NoEndIsMissed`
  rests on `NumberInv` and `OneTaskInv`.
- **Task runner.** `TaskSound` is what one task is, whatever the others and the drain do:
  a process lives only from its launch until its end is collected, and is killed only
  once the task is marked. `ToldInTime`: until a drain cuts tasks off, the table and the
  reports follow the threads. The refinement counts the reports promised (`Counted`), so
  that an end decided by a thread is `Daemon`'s end although it is told later.
- **Sums.** A sum is defined in the models by a fold, which the prover cannot unfold by
  induction over data. `Sums` defines it as the cardinality of a set of units instead, so
  that adding an element, taking a part or splitting into groups are facts about
  cardinalities, and shows that any function that satisfies the recursion of the fold is
  that sum: a smallest set on which they differ is not empty, and without one of its
  elements they do not differ. Folds of records (`Plus`) are taken field by field.
- **Admission.** `LocksHeld` (who has decided holds the lock of the user it decided for)
  and `RoomLeft` (as long as it does, there is room for one more row) carry the count and
  the free name across the step between deciding and inserting. Releases, which take no
  lock, only shrink what is reserved (`Shrinks`). For amounts, `Promises` says of every
  request what it found to fit, in terms of what is reserved *now*: until its row is in,
  the sum of its user's reservations only becomes less, and a change of the limits does
  not touch the one the request keeps.
- **Accounting.** That amounts halve to naturals is that a power of two is the number of
  subsets of a set. `Undisturbed`: what a transaction has read of an account is still
  there when it commits; then each step of an account is one of `Ledger` on the decayed
  points. For `OwesOnlyForWork`, `ForWork` bounds what is in an account by what its user's
  transfers were charged that ran or may still, and `InTurn` says that what is about to be
  charged has not ended without running, and that what is being ended is as it was read.
  `ReportsStay` needs no such thing: a total is a sum over rows and a sum over buckets, and
  in a window of whole days what leaves the one comes to the other, bucket by bucket, cut to
  seconds row by row; `SumOfLess` adds up what was cut, `SumOfMultiples` turns seconds into
  ticks.
- **Dispatching.** A pass works on counts older than the rows. `CountsCover`: the counts
  include whatever moves data or is about to, so ends make them too large, never too
  small; limits hold for the counts once releases are taken out. That nobody is overtaken
  rests on `InTurn`: what the walk has not come to is not counted, and is behind all it has
  come to. `QueueIsBounded` rests on `LimitsHold`: where a warm finds room in the queue,
  what runs besides is within its own limit. `SharesAreHarmonic` is not inductive either: when
  a transfer with a small share ends, those left may have more than their number allows.
  `SharesInv` says it of every part of what occupies a route, and a new share is no larger
  than it would be beside that part only.
- **Distribution.** `FlowInv` follows documents from the controller over the wire and the
  disk: wherever one is, the controller is at least as far, and who is as far as the
  controller has its document.
- **Topology.** A number is written into a row by the commit of a pass, long after the daemon
  gave it, and is told to a daemon that is looked up again much later. `NumbersSound` (the
  numbers of a daemon have no gap, so the next is new), `RowsSound` and `PassSound` (whoever
  holds a number holds that of its own task, and asks the daemon that gave it wherever the
  source was not moved) carry it there; `KillsSound` remembers by the number which cancels
  named a task. `LookupFinds` is why a pass raises over a lost storage only: in a document
  that validates, every storage has a declared daemon.

Only model-checked: liveness (`TransfersSettle`, `FilesetsSettle`, `FlushReleases`,
`DaemonsCatchUp`, `EveryEndIsTold`, `RecordsFollow`, `FlagsFollow`, `StartedSomeDay`), since
the prover handles neither fairness with `ENABLED` nor leads-to chains over it.
`StorageWithinCapacity` is not proved but violated: `over_committed` shows how two users do
it. No module declares a `RECURSIVE` operator.

## Where the code falls short of its words

`over_committed` is a run of its own: `services/filesets.py:4-5` promises that two requests
that each fit but together do not are never both admitted, while the lock taken at 183 is
the user's and the capacity is everybody's. The following were found the same way. Each
property is in its module, and is violated by TLC when a configuration of the module is
given the constants named here.

| Property | With | What happens |
|---|---|---|
| `OneTaskPerTransfer` | `Env` controller_crash | the pass commits after all daemons have answered (`scheduler/loop.py:82`): a crash in between leaves a task nobody knows, and the transfer is dispatched twice; `CHANGELOG.md:81-82` says it cannot be |
| `ReconcileSettlesEnded` | controller_crash | an end found for a row still ASSIGNED is a move the table refuses (`services/reconcile.py:69`): the row stays, and the rows after it are not looked at |
| `ReconcileOffersAgain` | controller_crash | a release in flight has no task and may not be offered again, though `reconcile.py:54` says so; the refused move ends reconciliation |
| `FlushReleases` | `FairSpec`, controller_crash | a flush adopted by reconciliation is never followed by its release (`docs/CONCEPTS.md:34`) |
| `TaskNamesOwnWork` | daemon_restart | numbers start again at 1 (`tasks/threaded.py:91`): a kept number names another transfer's task |
| `EndStaysEnd` | `Env` {}, 1 handler, `Ops` warm, flush, release | a task that fails at once is told so before its pass commits, and the pass writes ASSIGNED over the FAILED (`scheduler/loop.py:82`, 210); `services/events.py:4-5` says no transition ever moves a transfer backwards. A cancel between the two is overwritten in the same way |
| `NoReportIsRefused` | the same | "started" reaches a row that is still SUBMITTED, which the table refuses (`tasks/threaded.py:110`, `services/events.py:86`), and the daemon does not send it again |
| `EveryTransferEnds` | the same, `FairSpec` | after a lost or refused "started", "finished" reaches an ASSIGNED row and is refused as well: the data has been moved, the row stays ASSIGNED until the controller starts again, and reconciliation meets the same refusal; `clients/events.py:51-52` says a lost event "delays the truth rather than losing it" |
| `EveryFilesetRests` | the same, `FairSpec` | the fileset of such a transfer stays POPULATING or FLUSHING and cannot be used, flushed or released |
| `AlwaysBusyForAReason` | the same | the row is committed at `services/warm.py:272`; when its transfer has failed before the preparation is answered, `warm.py:330-333` writes POPULATING over FAILED, and no transfer is left to end it |
| `StoppedNeverStarts` | `Ops` create, flush, cancel | a stop of a queued task finds no process (`engines/rsync.py:173`); the task runs later, and is called cancelled when its data has been moved; `CHANGELOG.md:107-108` |
| `ReleaseIsFinal` | 2 handlers | a flush moves on from the state its preflight read (`services/flush.py:151`): a fileset released since is FLUSHING again |
| `ReleaseIsFinal` | 3 transfers, `Ops` cancel | a release cancelled while its daemon deletes leaves the fileset FAILED (`services/cancel.py:57`): a flush finds it so, and moves it to FLUSHING after the release has been committed all the same |
| `ReleaseIsFinal` | 3 transfers, release_gap | the release that follows a flush begins by a row it read before a user's release of the same fileset (`services/events.py:109`) |
| `ReleaseIsFinal` | 4 transfers, controller_crash or lost_reply | the second task of a flush that was dispatched twice fails while its fileset is being released, and leaves it FAILED: a flush finds it so, as above |
| `ReleasedIsDeleted` | 3 transfers and 2 handlers, or 4 and `Ops` refresh | the directory a warm asked for (`services/warm.py:274`) is made after the one it is to replace has been deleted |
| `MoversHaveADirectory` | `Env` {}, 1 handler | the row is committed at `services/warm.py:272` and the directory asked for at 274; a pass in between (`scheduler/loop.py:93-103` takes every SUBMITTED row) starts rsync into a directory that is not there |
| `OutputsAreNotFilled` | 2 handlers | only the preflight looks at the kind (`warm.py:150`): an output fileset created since is filled |
| `UserWithinLimit` | those of `admission_locked` | growth is computed from the size read before the lock (`services/filesets.py:273`), so a resize may pass a limit; `NeverPastLimits` says that nothing else does but what was admitted before a limit was lowered |
| `NothingStaysReserved` | crash | the reservation is committed before the directory is made (`filesets.py:225`); only its handler would take it back |
| `EveryFilesetIsMeasured` | those of `usage_settles` | a fileset whose warm was never prepared has no path, the driver refuses to measure it, and the whole request fails (`drivers/posix.py:185-194`, `clients/usage.py:68`): until it is warmed again nothing on that storage is measured or flagged, and releasing it is refused as well; `docs/OPERATIONS.md:53-54` says every fileset is measured |
| `FlaggedIsOverrun` | those of `usage_settles` | a fileset that grew while it was measured is flagged by the reservation read before (`services/usage.py:57`), until the next pass; `docs/CONCEPTS.md:61-62` |
| `RecordsFollow`, `FlagsFollow` | `Env` unreadable | a measurement that fails is told as zero bytes (`drivers/posix.py:150-156`): the record is zeroed and the flag cleared |
| `LoopsGoOn` | `FairSpec`, disk_full | the refresh loop catches nothing (`api/app.py:233`): one failed write ends it, and the daemon stays on what it has |
| `RevisionIdentifies` | controller_restart, start_anyhow | a start takes an edited file with the old revision (`cli.py:180`, `config/reload.py:5-6`) |
| `StartsFromCache` | daemon_stop | `write_text` truncates first (`config/distribution.py:40`, `docs/OPERATIONS.md:10-11`) |
| `ClientsFollow` | – | clients keep the document of the start (`cli.py:131`), the scheduler plans by the new one |
| `PoolSuffices` | `PoolSize` 1 | the pool is compared with the config at a daemon's start only (`cli.py:141`) |
| `AsksWhoRanIt` | those of `topology_changes` | the daemon is found by the source storage in the config of the start (`services/reconcile.py:62`), so a moved storage sends the question to another one; `services/reconcile.py:3` and `CHANGELOG.md:88-90` say it is the one "that was running it" |
| `CanBeCancelled` | those of `topology_changes` | a cancel of a transfer whose storage has been removed raises `KeyError` (`services/cancel.py:91`, `clients/transfers.py:153`), which is no `StashError` |
| `OneDocumentPerTask` | those of `topology_changes` | after a reload that moves a storage the daemon comes from one document and the end point from another (`scheduler/loop.py:190`, 231): a task may get a bare path on a daemon that does not own it |
| `PreparedBeforeMoved` | `Documents` GrowsMC, `Start` Without, `Transfers` w3, `Flushes` none | a warm to a storage added since the start is committed, its preparation raises `KeyError` (`services/warm.py:274`), and it is dispatched without a directory |
| `OwesOnlyForWork` | `Env` ended_early | a transfer cancelled before it is charged is refunded first and charged then (`services/warm.py:275`, `services/cancel.py:61`) |
| `OwesOnlyForWork`, `DecayIsLazy` | `Env` overlap | of two transactions that read the same account one is lost (`services/fairshare.py:37`) |
| `WorkIsOwed` | `Env` overlap | a cancel refunds by the start it read before it asked the daemon (`services/cancel.py:61`); `services/events.py:172` says only what never ran is refunded |
| `WorkIsOwed` | – , or uncharged | a refund gives back the full charge although half-lives have passed since, or although none was made: the points of other work go with it (`services/events.py:178`) |
| `TotalsStay` | – | `services/retention.py:89-95` cuts each wait and run to whole seconds, the report adds up the fractions of the rows that are left (`services/reports.py:128`, 133): a run of less than a second is 0 once it is rolled up, and totals shrink as rows are pruned; `docs/OPERATIONS.md:72-73` says they "stay the same" |
| `ReportsStay` without its condition on `pruning` | `Env` uncharged, overlap | a row that a cancel rewrites between the select and the delete of retention is rolled up as it was and deleted as it became (`services/retention.py:44-55`) |
| `ReportsStayAnyTime` | – | a window that cuts a day moves when the day is rolled up (`services/reports.py:185-188`); `docs/OPERATIONS.md:72-73` says totals stay |
| `MeanWaitStays` | – | waits of rolled-up transfers are divided by all of them, of rows by those that started (`reports.py:131,197`) |

Seen while reading and not stated as a property: a measurement that runs out of time
reports 0 bytes and `complete=False` (`drivers/posix.py:92`), which nobody reads; the warm
is admitted with `bytes_total` 0, and every report with bytes then violates the constraint
`bytes_done <= bytes_total` (`models/transfer.py:46`, `services/events.py:94`), so its end is
lost. A stop between the start of a process and its registration (`engines/rsync.py:157`
and 165) does not kill it. During a drain the thread of a task that was cut off still
reports "cancelled" after `daemon_shutdown`, which ends the retry the latter may have
caused; and a thread that is freed may take a queued task that was already cut off. A
crash inside `execute_transfer` leaves the task without a failure class in the table while
the report says "internal". A fileset that was never given its path is refused by the
driver when it is released (`drivers/posix.py:185-194`). The shares of a route may
add up to more than its aggregate, since each is computed once (`domain/scheduling.py:64`,
`docs/CONFIGURATION.md:42`): `SharesAreHarmonic` says by how much. Two storages of one
daemon may have the same root: only a root *inside* another is refused
(`config/cluster.py:356`). A storage given to another daemon by a reload is not served by
anybody until both daemons are started again with other `storages`, and not found there by
the controller's clients until the controller is.

## Not modelled

Counts of files; which class an exit code is (any); percentiles, ratios and the allocation
report; types and ranges of single config fields, and the bootstrap file; config parameters
that change under work other than the topology (limits and intervals are read once or at
the moment they are used); the degraded flag, which is only reported; sources whose
measurement ran out of time; parsing of references, sizes and
durations; drivers beyond "a directory exists"; identity, authentication, schemas,
request plumbing, audit, metrics, migrations: single calls without state, or written and
never read by a rule. A collision of the digests two users' locks are taken by only makes
one wait for the other. The notes in `PROJECT.json` say the same per component.

## Plan

Done, in this order: `Rules`, `Daemon` and `Controller`; types and the safety theorems of
Controller; `Admission`, `Dispatching` and `Distribution` with their proofs; `TaskRunner` and
its refinement; `Accounting` and `Ledger`; `Usage` and its refinement of `Admission`; limits
that change in `Admission`; the order and the limit of the queue in `Dispatching`, with their
proofs; restarts of the controller in `Distribution`, proofs included; `Topology` and its proofs;
transactions that overlap in `Accounting`; the proofs of `TaskRunner`, its refinement
included, and of the filesets of `Controller`; sums, and with them the amounts of `Admission`,
the shares of `Dispatching`, and `Accounting`: its types, its ledger, what users owe, and
its reports; reports before the commit and warms before their preparation in every run and
theorem of `Controller`, and what pruning cuts off in `Accounting`.

Next:

1. Proofs: `EveryReportIsTaken` beside restarts of a daemon; what survives beside the
   hypotheses, such as which of `Controller`'s properties hold for the filesets that no
   overlapping request touches.
2. A drain in `Daemon` and `Controller` (the report of a cut-off task followed by its own).
3. The requests of several users in `Usage`, and the count of files.
4. An abstract transfer – submitted, tried at most so often, ended once – and Controller
   shown to implement it where requests do not overlap.
