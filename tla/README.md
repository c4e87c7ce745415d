# A TLA+ model of Harness Harbor

Harness Harbor lets a supervising model submit coding jobs to local harnesses
(Codex, MiniMax, Antigravity). A producer writes a job into a directory; a
daemon reserves it, leases its workspace and starts a worker process; the
worker runs the harness and records the outcome. There is no database and no
server between them: **files created with O_EXCL, files replaced atomically and
the liveness of process ids are the whole protocol.** That protocol is what
most of this project is about. Around it stand parts that run in processes of
their own and share nothing with the queue or with each other: the watch over a
run, the delivery of a branch, the caches behind the status tools, the runtime
behind the macOS app, the Windows launcher and its settings. Each is a module
of its own.

## 1. Inventory

| component | source | state | operations | interacts with |
|---|---|---|---|---|
| queue daemon | `codex_job_daemon.py` | `active_workers`; on disk `dispatch.lock`, `.dispatch_<harness>.lock`, `.workspace_leases/*`, `worker.identity.json` | `tick`, `reap_workers`, `recover_abandoned_jobs`, `reserve_job`, `acquire_workspace_lease`, `spawn_worker`, `shutdown` | other daemons and workers through the jobs directory, its children through `Popen` |
| job worker | `codex_job_worker.py`, `control_plane.claim_job` | `worker.lock`, `status.json`, `result.txt` | claim, run a harness, record, release | daemon, control plane, harness processes |
| job control | `control_plane.py` `start_task`, `cancel_task` | `status.json` | submit, cancel | daemon, workers |
| job polling | `control_plane.py` `poll_task` | poll metadata on disk and in memory, `poll.lock` | throttled read of a job | workers, other pollers |
| harness run | `codex_job_worker.py` routes and lifecycles, `run_safe_subprocess` | attempts, last look at the output, stable result, reason of the end | route fallback, self exit, hard timeout, settle and exit grace, collectors | the harness's process group |
| process ownership | `harbor_platform/` | process identities, registry | `spawn_owned`, `terminate_tree`, `descendants`, `is_alive` | daemon, runtime |
| queue root | `runtime_queue.py` | fingerprint in every job | `queue_root_matches` | daemon, control plane |
| runtime lifecycle | `harbor_runtime/` | `processes`, `identities`, `components.json`, registry of children | acquire, recover, start, stop, restart | MCP server, daemon, tunnel, and the workers and harnesses they start |
| git delivery | `control_plane.py` `git_push_*_result` and helpers | none: a repository and its remote | resolve, compare, dry run, recheck, push, verify | git, whoever else moves the branches |
| telemetry | `harness_telemetry.py`, `_agy_cli_status` | quota per harness, `_last_attempt`, `_AGY_PROBE_CACHE` | snapshot, probe, mark stale | harness command lines; threads of one server |
| host diagnostics | `host_diagnostics.py` | none | read and format counters | operating system |
| MCP servers | `server.py`, `server_legacy.py` | none | tool wrappers | control plane |
| launcher | `launcher/lifecycle.py`, `process_manager.py`, `health_checker.py` | none: the process table | start, stop, restart | supervisors and their children |
| launcher UI | `launcher/ui/` | `is_busy`, the buttons | click, tray commands, wizard | launcher, settings |
| settings, credentials | `credential_store.py`, `user_settings.py`, `SettingsController` | `settings.json`, profiles, two secrets | preflight, apply, roll back | launcher UI, runtime |
| macOS app | `macos/` | a view of the runtime | commands over the bridge | runtime bridge |

**What is hard.** Several daemons, workers and tools change the same files with
no common lock; a lock is judged stale in one system call and unlinked in
another; anything can be killed between two writes; what a dead worker started
may still be at work; the scan of queued jobs is done under no lock. `hazards`
in `PROJECT.json` lists them with their lines.

**What makes each part correct.** Daemon: capacity, exclusive workspaces, no
prompt run twice, every slot returned, every job ends. Worker: one claim, one
final record. Control: a confirmed cancellation is honoured. Polling: a terminal
answer is never withheld, the throttle holds across processes. Harness run: a
run always ends, kills nothing early, loses no answer given in time, and a
paid route is taken only after an exhausted quota, alone. Runtime: no component
twice, no stranger taken for one, nothing survives a stop, whoever died before. Delivery: what is replaced
is what was expected, and the reply is true. Telemetry: what is old is marked
or not shown. Launcher: no component twice, a stop brings nothing back.
Settings: all or nothing, and never unusable.

## 2. Modules

```
QueueState          files, processes, and what the code concludes from them
  HarborDaemon      HarborScheduler.tick and its helpers
  JobWorker         claim_job, main, release_job_lock
  JobControl        start_task, cancel_task
HarborQueue         the composition, its properties and fairness
  HarborService     what the queue promises, as an abstract specification
  MCHarborQueue     instances for TLC
  HarborQueueProofs theorems: types, locks, one daemon, foreign jobs
    DispatchProofs  theorems: any number of daemons that keep running
    ServiceProofs   theorems: one daemon, and daemons one after the other,
                    implement HarborService
JobPoll             poll_task and _job_poll_lock
  MCJobPoll         instances for TLC
  JobPollProofs     theorems checked by TLAPS
HarborTools         the parts around the queue, side by side
  HarnessRun        run_{minimax,agy}_with_lifecycle and their collectors
  CodexRoutes       run_codex_with_routes, run_safe_subprocess
  GitDelivery       git_push_dry_run_result, git_push_ref_result
  StatusCache       _agy_cli_status
  QuotaCache        HarnessTelemetryProvider._cached_quota
  RuntimeLifecycle  Runtime and the bridge that serves it
  Launcher          the launcher's buttons, lifecycle.py and supervisors
  SettingsApply     SettingsController.apply and its stores
  MCHarborTools     an instance for TLC
  RuntimeLifecycleProofs, LauncherProofs, TelemetryProofs
                    theorems about Runtime; Launcher and SettingsApply;
                    StatusCache and QuotaCache
  HarborToolsProofs theorems about HarnessRun, CodexRoutes, GitDelivery and all
                    the parts side by side
```

### The queue and the polls

`QueueState` declares everything on disk. A file that holds a process id holds
the process in the model: a daemon `d`, or the worker `<<d, j>>` that `d`
started for job `j`; a restarted daemon is another element of `Daemons`.
`status`, `workerLock`, `dispatchLock`, `lease`, `harnessLock` and `identity` are
the files of the same names, `pidWritten` tells an empty `worker.lock` from one
with its pid, `recordedPid` is `worker_pid` in `status.json`.

`HarborDaemon` follows `tick` with a program counter: *idle* (reap, scan) →
*lock* → *recover* → *count* → *reserve* ⇄ *lease* → *spawn* ⇄ *identify* → next
harness. There is a step boundary wherever another process can act between two
system calls that matter: a stale lock or lease is found in one step
(`FindStaleLease`) and unlinked in the next (`UnlinkLease`), whatever is there by
then. `turn`, `queue`, `slots`, `current`, `chosen` are tick's local variables,
`active` is `active_workers`.

`JobWorker` splits `claim_job` into the creation of the lock, the write of its
pid, the read and the write of the status. `JobControl` splits `cancel_task`
into its check and its write.

`HarborService` knows only whether a job waits, is worked on or is over.
`JobPhase` in `HarborQueue` is the refinement mapping: a job is *working* while a
process tree works on it, *over* when it has a terminal status or has run.

`JobPoll` stands apart from the queue: a poll writes nothing the queue reads. The
job is reduced to *queued* → *running* → *over*. A poll goes *thread* → *file* →
*locked* → *reread* → *noted* → *answered*, or gives up and answers from
`Remembered`; `steal` is the gap between judging `poll.lock` abandoned and unlinking
it. `memory` is `_JOB_POLL_IN_MEMORY_META` of each process, `disk` is
`poll_meta.json`. `lastFresh`, `best` and `began` are history.

### The parts around the queue

`HarborTools` puts the parts side by side. They share no state, so interleaving
them shows nothing; a behaviour is about one of them, its `scene`, and the other
variables keep their initial values. Each part has its own `Init`, `Next` and
specification; its theorems are about that specification, and
`ToolsKeepTheirPromises` carries them over to the composition.

`HarnessRun` is one call of `run_minimax_with_lifecycle` or
`run_agy_with_lifecycle`: the loop *poll* → *look* → *sleep*, once the answer has
settled *settled* → *grace* ⇄ *nap* → *kill*, then the finally clause (*reap*) and
`collect_*_lifecycle_result`. The harness acts between any two of these: it writes,
reports, forks and exits. Time is counted in poll intervals and passes in the
supervisor's sleeps. Output is a kind and a count of changes, enough for
"unchanged since the last look".

`CodexRoutes` is `run_codex_with_routes` with `run_safe_subprocess` for each attempt.
`codexTree` holds the attempts of which some process is alive; a process may exit
with a code of its own while it is being terminated; the result file belongs to
the route that wrote it.

`GitDelivery` takes one step for every git command of a push. Between two of them
the remote branch, the local branch and the URL may move, and any command may
fail. `landed` and `moved` are history.

`StatusCache` and `QuotaCache` have one step per access of a cache by a thread.
`mayReport` is the set of statuses a request may honestly answer; `lastFetch` and
`overlapped` record what was fetched and whether snapshots have overlapped.

`RuntimeLifecycle` gives the runtime the places of `start`, `stop` and `acquire`, and
every process it may own a `life`: alive, gone with its group still alive
(*orphans*), or gone and its pid given to a stranger (*reused*). A process is named
by its kind and the instance in its environment. The runtime may be killed
anywhere, a process may die anywhere, a pid that has been waited for may go to a
stranger while any record or handle leads to it, and the daemon starts workers
and these start harnesses, in groups of their own, at any time. Children exist
before they are on record (`tracking`, then `registry`), and components before they
are in the manifest (`unsaved`); when the runtime ends in between they run on as
`lost`, and so they do when SIGTERM comes between `Popen` and the assignment of the
handle (`SpawnInterrupted`). The look at an identity and the signal are two steps:
`Handle` and `held` are what the runtime has taken hold of (`AtHand`), `Signals` is
`terminate_tree`, which looks no more. `late`, `slipped`, `doubled` and `strangerHit` are
history: children a listing could not show, processes at hand that ended without
it, components spawned beside a running one, a signal to what was a stranger's
when it was taken hold of.

`Launcher` has the three buttons as threads. A component is a supervisor and its
child; a supervisor starts its child again when it has ended. A stop ends what
its one scan has shown; a scan may fail, and is then taken for an empty one. A
start makes two attempts: `LaunchTask` starts the scheduled task, or not, and is
told one or the other, whatever has happened; told no, it goes on to
`SpawnSupervisor`. `doubtful` marks the components whose task had started after all.

`SettingsApply` has one step per store that is written, forwards and backwards;
each may fail, and the launcher may be killed between any two. On macOS the
secrets that stay as they are are not read, hence `platform`.

### Abstractions

* Creating a lock file and writing its owner is one step, except for
  `worker.lock`, where the empty file is observable. `status.json` is replaced by
  rename, so reading it never sees half a record.
* `reap_workers` and `recover_abandoned_jobs` treat one child, or one scan, in one
  step, and so do the scans of the jobs directory. `dispatch.lock` is judged and
  unlinked in one step; the two-step judgement is kept where it matters most,
  for leases and harness locks.
* Process ids are not reused, a dead child counts as dead even before its parent
  has waited for it, unreadable or corrupted files (and the TTLs that clear them)
  do not occur, and only the POSIX branches are modelled, but for one question.
* That question is what the daemon sees of a harness whose worker is dead, an
  *orphan*. `TreeCovers` decides. On Windows a harness stays in the Job Object of its
  worker, and `descendants` lists it: `TreeCovers = TRUE`. On POSIX `spawn_owned` gives
  every harness a session of its own, and `owned_tree_alive`, `_job_tree_alive` and
  `terminate_tree` look at, or signal, the group of the worker only: `TreeCovers = FALSE`.
  Since a harness need not outlive its worker, TRUE also stands for every POSIX
  behaviour in which none does.
* Time appears as the choice whether a grace is over. `GraceCovers` assumes that a
  worker writes its pid sooner than the 5 second hand-off grace.
* In `JobPoll` the clock counts units longer than `lock_timeout` and the ages at
  which a lock file counts as abandoned (5 and 120 seconds); a poll may give up at
  any time, and the pid is written into `poll.lock` as it is created unless the
  process dies between the two.
* A signal to a daemon acts between two steps. A worker that is terminated either
  runs its handler (failed, lock removed) or is killed as it stands.
* In `HarnessRun` an interrupt comes during the watch; the steps after it do not
  sleep. Graces and the timeout are multiples of the poll interval.
* In `RuntimeLifecycle` there is one process of a kind per instance at a time: a
  daemon has one worker, a worker one harness, and neither has a successor while
  its record is there. A component that a runtime starts again replaces its old
  handle and identity, as in the dictionaries of the code. A component that was
  `lost` has the name of a predecessor the manifest may still hold, which has ended.
* In `Launcher` the tunnel client and the MCP server it starts are one child: both
  are found by the same scan and ended in the same pass, after the supervisor. A
  scheduled task is there as soon as it has started.
* In `SettingsApply` nobody else changes the credentials during an apply, and there
  is no installation of the old layout to migrate.
* Refusals that happen before anything has changed (arguments, missing files,
  wrong platform) are left out everywhere.

## 3. What TLC checks

`twodaemons` (2 daemons at once, 1 harness, 1 slot, 2 jobs, one killed worker,
symmetric daemons): capacity, mutual exclusion in the harness lock, no second
run of a prompt, a job at work is recorded as running, terminal states are
final. Two daemons and one slot is the smallest instance where the count and
the reservation can interleave.

`restarts` (a daemon killed or stopped anywhere, then another; a killed worker with
or without an orphaned harness; 2 harnesses, 2 jobs in one workspace): with a slot
for each job only the lease keeps them apart. It exists, in the name of the right
job, as long as anything works in the workspace; no prompt is run twice, and the
queue implements `HarborService`.

All runs but the next one and `orphan` have `TreeCovers = TRUE`.

`posix` (`TreeCovers = FALSE`; sequential daemons, one fault of every kind but a
failed spawn, one cancelled job, one job of another queue root, symmetric
daemons): a worker that is killed, also by a daemon that stops, leaves a harness
nobody sees, its job is failed and its workspace given away. No prompt is handed
over twice even then, and the foreign job's record is changed by its own worker
only; that workspaces are exclusive is what `orphan` refutes.

`liveness` (sequential daemons, a killed daemon, a killed worker and a failed
spawn, a disabled harness visited first): every job ends, every slot is
returned.

`polling` (a process that may die with one thread, a second with two; an interval
of two units; damaged and unwritten metadata): mutual exclusion under `poll.lock`,
which no live process leaves behind; fresh answers an interval apart; no answer
older than one given before the poll began. The process that dies may ask for
immediate answers. A third process would open the window in `UnlinkPollLock`.

`components` (1,408,464 states; one instance of every part around the queue):

* the watch, with a settle grace of 1, an exit grace of 2 and a timeout of 5 poll
  intervals and 2 changes of the output: long enough for an answer, a change of
  it, both graces and the timeout to fall in every order. An answer in time
  completes the job, nothing is killed early, every run ends with no process left;
* the Codex routes, all requests: serial, fallback only when due, the message is
  the named route's own;
* a push among 3 commits in two branches and 2 URLs, so that a move may or may not
  be a fast forward and may go to another repository: drift is never overwritten,
  the reply is true;
* 2 threads that snapshot and one that asks, a time to live of 0 and one tick of
  the clock: the smallest instance in which a forgotten entry can be brought back
  by another thread; 2 viewers of quotas over 2 ticks;
* 2 runtimes and 3 events (a child that starts, a death, a reused pid, an exception
  or an interruption; the end of a runtime costs nothing): a killed runtime and its
  successor, a process dead before or after the recovery, and its pid reused.
  `RuntimeLifecycle` alone was also run with 3 runtimes, and with 4 events;
* 4 processes started, 2 clicks and 1 loss for the launcher: two operations that
  could overlap, a supervisor that acts between them, and a task that starts
  unnoticed with its child beside a second supervisor with its own;
* 2 settings that need different keys, sharing a profile, and 3 secrets, one of
  them blank, on both platforms, over any number of applies.

Six runs are expected to fail; each shows the code doing something its
documentation denies (`findings` in `PROJECT.json`):

* `orphan`: one daemon, two jobs of one workspace, `TreeCovers = FALSE`. A worker is
  killed and its harness goes on in a process group of its own; the worker's group
  is empty, so the job is failed, its lease released, and the next job works
  beside the harness.
* `leaserace`: two daemons, two harnesses, three jobs, no fault. A daemon that
  judged a lease stale unlinks its successor; two jobs work in one workspace.
  Daemons that serve one harness only are kept from this by its dispatch lock; no
  run or theorem here says more about several of them at once in one workspace.
* `cancelrace`: a cancellation is confirmed for a job that runs.
* `slotleak`: a worker killed between creating `worker.lock` and writing its pid
  occupies its slot for good.
* `pollmeta`: one process, and the metadata of its second fresh answer cannot be
  written; the outdated file is preferred to memory and the cooldown is lost.
* `codextimeout`: a Codex process that handles SIGTERM and exits with 0 after its
  timeout gives a completed job; `run_safe_subprocess` promises -1.

**Bounds.** Two jobs (three where a stale judgement needs a predecessor), two
daemons, one fault of a kind: every race above needs two actors, and a race
with a file left behind needs one more that left it. In the queue
`MaxFaults` is the only bound on behaviours. The other bounds (`MaxOutputs`,
`MaxStatusClock`, `MaxQuotaClock`, `MaxInstances`, `MaxEvents`, `MaxStarted`,
`MaxClicks`, `MaxLosses`) are constants in the guards they cap.

**Properties are stated where they hold.** `TerminalIsFinal` is checked without
shutdown and claim errors: SIGTERM after the last write, or an error in
`claim_job` on a finished job, writes failed over a result. `CapacityRespected`
is checked without a killed daemon: its successor does not count a worker that
has not created `worker.lock`. `RunningWhileExecuting` is checked where no harness
outlives its worker unseen, and for one attempt per job: an identity file of an
earlier attempt can hide what a later worker left behind. `WorkspaceExclusive`
and `LeaseProtectsExecution` need the first of these too.
`HarnessLockExclusive` needs that no daemon was killed. `NoStrayAfterStop` excepts the
children in `late` and the components in `lost`, with what a daemon among them starts;
`NeverDoubled` the components in `lost`. `StrangersSpared` is about what the runtime
takes hold of: a process that ends while it is at hand (`slipped`) may be a stranger's
by the time it is signalled, and the model shows that it is then signalled.
`OneOfEach` allows a second supervisor of a component in `doubtful`, and with
`StopLeavesNothingBehind` holds while no scan of the
process table has failed; `FailureMarksStale` while snapshots have not overlapped
(the slower one overwrites the newer quota); `FailedApplyRestores` unless the
rollback fails, which the code swallows; `SettingsUsable` unless an apply was killed
or not rolled back; `AnswerOfRouteUsed` while an old result file could be removed;
`ReplyTellsTheTruth` excepts a push that lands although its command fails. Each
exception is something the code does, met while modelling. These limits are hazards in `PROJECT.json`.

**Fairness.** A process that can take its next step takes it (weak fairness per
daemon and worker): the daemon loops without waiting on anything unbounded, and a
harness run is bounded by its timeout. Strong fairness is assumed for reaping,
for recovery of every aged job and for judging a lease: each is tried again every
half second, and a file's age only grows, so an opportunity that comes back is
not missed for ever. Nothing is assumed of cancellations or faults. In `components` the
supervisor of a run takes its next step (weak fairness of `Supervise`): it is a loop
that sleeps for fixed times, and `terminate_tree` ends in SIGKILL; nothing is
assumed of the harness.

## 4. What is proved

Every theorem is for any values of the constants that satisfy the named
assumptions of the modules (`StateAssumption`, `DaemonAssumption`, ...); what a
theorem assumes beyond them is said here, with the reason. The invariants below
were first checked by TLC on the instances of section 3.

### The queue

`HarborQueueProofs`, for any daemons, harnesses, workspaces and faults and any
finite set of jobs:

* `TypeCorrect`: `Spec => []TypeOK`. `TypeOK` is not inductive: a step that takes a
  lease writes the file of `current[d]`, and one that registers a child takes
  `Oldest(chosen[d])`, which is a job only if there is one. `HandOK` adds that. That
  a nonempty set of jobs has an oldest element is `LeastNatural`, proved from the
  well-foundedness of strict inclusion on finite sets.
* `HarnessLockCorrect`: while no daemon has been killed, `HarnessLockExclusive`.
  The inductive invariant `LockInv` says that a harness lock file exists exactly
  when its owner is in the critical section, and therefore that no daemon is ever
  about to unlink a stale one. Stopping a daemon, killing workers, failed spawns
  and every other fault are allowed.
* `OneDaemonExclusive`: with one daemon process and `TreeCovers`, `LeaseProtectsExecution`
  and `WorkspaceExclusive`, whatever fails and however often, and whether or not the
  handoff grace is long enough (`GraceCovers` is free). Without `TreeCovers` it is
  false (`orphan`), and so it is for two daemons at the same time (`leaserace`). A
  restarted daemon is another process: see the restart theorems below, which need
  more. The conclusion alone
  is far from inductive; `OneDaemonInv` adds what the lease rests on:
  - the files of a job name the one worker it can have (`OwnFiles`), and one that has
    claimed its job is seen through `worker.lock` (`ClaimInv`);
  - a job queued or in hand has no worker, and one reserved has its `dispatch.lock`
    and its lease (`QueueInv`, `CurrentInv`, `ChosenInv`); a job at work that still reads as
    queued keeps its `dispatch.lock`, so no scan takes it again (`DispatchInv`);
  - a worker that may still hand over its prompt has the lease, unless the job is
    terminal before the worker has read its status (`LeaseInv`);
  - between the judgement that a lease is stale and its unlink nobody comes to need
    it (`UnlinkInv`): the clause that a second daemon breaks.
* `ForeignIsLeftAlone` (`ForeignLeftAlone`), without any hypothesis: whatever the
  daemons, the cancellations and the faults are, only its own worker touches the
  record of a job of another queue root. `ForeignInv` is needed for one branch of
  `cancel_task`, whose write does not look at the root again: its check has.

`DispatchProofs` is about any number of daemons at the same time. `DispatchedOnce` and
`TerminalStatusIsFinal` hold whatever `TreeCovers` is; the other two assume it. Its invariant
`DispatchIInv` is stated while no daemon has ended (`NoDaemonEnded`), since then a
`dispatch.lock` means what it says: its owner is alive. What a dead daemon leaves
behind is kept by other files, and a successor does run jobs in ways these
theorems exclude: it does not count a worker that has not created `worker.lock`.
Workers may die anywhere, fail to start and go without an identity file.

* `DispatchedOnce` (`RunsAtMostOnce`): no prompt is handed to a harness twice.
  `HandlesInv` says that the `dispatch.lock` of a job that is not over names the one
  daemon that answers for it: which has it in hand, has reserved it or is the
  parent of its worker. `PlaceInv` adds that it is in one place of that daemon,
  `IdentityInv` and `ClaimedInv` that its other files are its worker's, and `OnceInv` that
  whoever has seen the job queued is the first to. It holds with cancellations too.
* `RecordedAsRunning` (`RunningWhileExecuting`), from `RecordInv`; a job whose
  cancellation was confirmed is excepted, it reads as cancelled while it runs (the
  `cancelrace` finding).
* `LimitsRespected` (`CapacityRespected`), for any limits. Counting is the point:
  `SlotInv` says that the jobs held on a harness (reserved or with a worker, by
  anybody) do not exceed its limit, and that a daemon in the critical section has
  room for what it may still reserve. That every job held counts on disk
  (`HeldIsOccupied`) is where `HandlesInv` is used, and that no other daemon reserves
  at the same harness is `HarnessLockCorrect`.
* `TerminalStatusIsFinal` (`TerminalIsFinal`), where nobody cancels and no daemon ends,
  no exception escapes `claim_job` and no identity file goes unwritten (`Quiet`).
  Each of these is needed: TLC finds a terminal record replaced with two daemons
  and a single fault of any of these kinds.

`ServiceProofs` is first about one daemon process where `TreeCovers` holds and nobody
cancels, whatever fails, and how often, including the end of the daemon:

* `OneDaemonService` (`ImplementsService`): the queue is a refinement of
  `HarborService`. On top of `OneDaemonInv`, `PresentInv` says that nothing is known of
  a job nobody has submitted and `RunInv` that the record follows the worker. The
  phase of a job is then a function of one worker and one record (`PhaseOfJob`), and
  every step is shown to be a `Submit`, a `Begin`, an `End`, a `Drop` of a set of jobs or
  a stutter, from one lemma per kind of step.
* `OneDaemonRecords` (`RunningWhileExecuting`): holds there after the daemon's own end
  too, which `RecordedAsRunning` leaves out.

Then about daemons one after the other (`~Concurrent`), as the runtime restarts the
queue: a daemon may be stopped or killed anywhere, and its workers, locks and
leases are there when the next one starts. All of these assume `TreeCovers`, and
`GraceCovers`: otherwise the lease of a dead daemon is reclaimed under a worker that
is still starting.

* `RestartsExclusive`, for any number of daemons, any faults and cancellations:
  `LeaseProtectsExecution`, `WorkspaceExclusive` and `RunsAtMostOnce`, of every behaviour
  that satisfies `[]WorkersSeen`. `WorkersSeen` says that, when leases are judged or
  jobs recovered, the identity file of a job does not name an earlier worker than
  one that has left its harness behind, or is at work on a job that is over. It
  is a condition on behaviours because the code does not ensure it: with three
  daemons in a row, a file the first one left decides for the worker the second
  one started, and the third takes the lease from its orphan.
* `RestartExclusive` (`WorkspaceExclusive` and `LeaseProtectsExecution`) and `RestartRunsOnce`
  (`RunsAtMostOnce`): one restart, where every identity file is written
  (`MaxFaults["identity"] = 0`), for any other faults and any cancellations. Here
  `WorkersSeen` is proved (`TwoDaemonsSee`): to hide an engaged worker it takes a daemon
  that left an older file and one that ended before it wrote the newer, and then
  there is no third to be misled.
* `RestartService` (`ImplementsService`, and `RunningWhileExecuting`): in the same setting
  where nobody cancels.
* `RestartsService` (both, and the three above): any number of restarts, with or
  without identity files, where no worker is killed from outside
  (`MaxFaults["worker"] = 0`) and nobody cancels.

The argument is another than for one daemon, whose `OneDaemonInv` speaks of the one
worker a job can have. A job now has a worker for every daemon that has started
one. One is *engaged* if it is at work, or its job still waits and it may begin, or
hold off one that would; it is *barred* if `worker.lock` is somebody else's. Every
conjunct of `SuccessionInv` is about these:

* of the workers of a job one at most is engaged, and the others are gone
  (`SoleInv`); `worker.lock` is its own from the moment it is created, and is not
  removed from under one that came too late (`LockFileInv`); a job that has begun
  does not wait again (`BegunInv`), and who has read its job as queued is the first
  to hand it over (`FirstInv`);
* unless it is barred an engaged worker has the lease (`EngagedLeaseInv`), and while
  one is barred nobody starts another (`BarredInv`);
* what the daemon that is up has reserved has a lease and no engaged worker of a
  predecessor (`ReservedInv`); it reaps and ends no engaged worker but its own children
  (`ChildInv`); nobody needs the lease it is about to unlink (`NotNeededInv`);
* one daemon is up at a time, what the memory of each contains comes from its own
  tick, and of a job nobody has submitted nothing is known (`AloneInv`, `MemoryInv`,
  `SubmittedInv`).

`IdentityInv` is the addition for one restart, and `RecordInv`, that the record follows
the worker at work whoever started it, the one for the refinement.

### The polls

`JobPollProofs`, for any processes, threads, interval and clock bound:

* `PollTypeCorrect`: `Spec => []TypeOK`. `ReadOK` strengthens it: between the second
  read of the status and the answer, what was read is not terminal, so no terminal
  state gets into the metadata.
* `PollLockCorrect`: while no process has died, `PollLockExclusive`. `PollLockInv`
  adds that there is a lock file while a poll is under the lock, that its owner is a
  process, and hence that nobody is about to unlink it.
* `NoLockLeftBehind` (`LiveLockInUse`), without any hypothesis.
* `PollLockOfTwo` (`PollLockExclusive`), `CooldownIsKept` (`CooldownKept`) and `AnswersOnlyAdvance`
  (`NeverAnswersOlder`) assume `FewProcesses`: no process may die, or there are two of
  them at most, with any number of threads. Three would be too many: two of them
  judge the lock of the dead one abandoned, the first removes it and takes the
  lock, the second removes that one. With two, whoever judges the other's lock is
  the last process alive, and its threads come one by one (`ThreadInv`, from
  `_JOB_POLL_LOCKS`). `CooldownInv` bounds the last fresh answer by the file, by memory or
  by what the poll under the lock has read; `AgeInv` bounds what was answered before a
  poll began by every place it may still answer from.

### The parts around the queue

`HarborToolsProofs`, on `HarnessRun` for any graces, timeout and amount of output:
`RunTypeCorrect`; `KilledOnlyInTime` (`NoEarlyKill`), from `KillInv`: the first settled look
is not before the first answer, and the deadline of the exit grace not before the
settled look plus the grace; `InTimeCompletes` (`AnsweredInTimeCompletes`), from `EndInv`,
which ties the reason a run ended for to what was true at that moment;
`NothingLeftBehind`. On `CodexRoutes`: `CodexTypeCorrect`, `RoutesSerial`,
`FallbackOnlyWhenDue` and `MessageOfRoute`, all from `CodexInv`: at most the tree of the
current attempt is alive and none between two attempts, the first attempt is on
record before the second begins, and the result file is missing or the current
attempt's own. On `GitDelivery`, for any commits, ancestry and URLs: `GitTypeCorrect`,
`PushReplacesExpected` (`DriftNeverOverwritten`) and `AnswersAreTrue`
(`ReplyTellsTheTruth`), action properties. `PushInv` says where the call may be when
something has landed, and what the last look is worth once the remote has moved.

`TelemetryProofs`, for any threads and time to live: `StatusTypeCorrect` and
`SnapshotsAreCurrent` (`StatusCurrent`), where `ReportInv` follows everything a request
may still report: what is in the cache and what probes under way will put there;
`QuotaTypeCorrect` and `StaleAfterFailure` (`FailureMarksStale`), where `QuotaInv` says that
the one snapshot that has asked the source still knows what is in the cache.

`LauncherProofs`, for any settings, profiles and secrets: `SettingsTypeCorrect`,
`RollbackIsComplete` (`FailedApplyRestores`) and `AppliedIsUsable` (`SettingsUsable`). The
invariant says for every phase which stores hold the new value and which the
old, and that what the rollback will write is what was there. For any number of
clicks, processes and losses: `LauncherTypeCorrect`, `NeverTwoOfAKind` (`OneOfEach`) and
`StoppedIsStopped` (`StopLeavesNothingBehind`). `LauncherInv` says that one thread works at a
time (`BusyInv`), that a child belongs to the supervisor of its component unless that
is doubtful (`FamilyInv`), that what a start is about to launch is still missing, or
is the doubtful component it tries a second time, with one supervisor
(`LaunchInv`), and that what a stop has not seen came back for a reason of its own
(`ExcuseInv`, `SignalInv`). The exception of `OneOfEach` is an exact one, a third
supervisor and a second child of one supervisor are excluded.

`RuntimeLifecycleProofs`, for any number of runtimes and events: `RtTypeCorrect`,
`OneOfEachComponent` (`NeverDoubled`), `NoStrangerTakenFor` (`StrangersSpared`) and
`StopIsComplete` (`NoStrayAfterStop`). None of the last three is inductive. The
invariant says that all that runs and has not escaped belongs to one instance
(`Current`), which the runtime that is up acts on or the manifest names; that a
component which runs and is not lost is in the memory of the runtime that is up,
or in the manifest while there is none (`ComponentInv`); that what is in memory is in
the manifest unless it is still `unsaved`, which is what makes a killed runtime lose
no more than that (`ManifestInv`, and `FreshInv` for the time before there is a
manifest); that children carry the current instance or have escaped (`KidInv`); that
once the registry has been listed every child that runs is listed or has escaped
(`StopInv`); and that whatever is at hand and not alive ended while it was at hand
(`HandleInv`), from which the stranger's half follows.

The composition: `PartsKeepTheirSpecs`, a step of one part is a stutter of every
other; from it `ToolsTypeCorrect` and `ToolsKeepTheirPromises`, all the safety properties of
the `components` run, of the very specification that run checks.

### Only model-checked

* `RunEnds`, `EveryJobEnds` and `SlotsReturned`: liveness under fairness is outside TLAPS.
* `RunsAtMostOnce` where daemons are restarted and harnesses outlive their workers
  unseen (`posix`): the restart theorems keep a prompt from running twice through
  the lease, which does not protect such a harness; another argument, by
  `status.json` alone, would be needed.
* `ImplementsService` over restarts with killed workers and cancellations, or for
  three daemons and more with killed workers, beyond `restarts`.
* The six runs that expect a violation.

## 5. Not modelled, and the plan

Not modelled at all: the MCP tool wrappers (stateless, one thread per call, which
is how the modules model their callers), the macOS app (a view of the runtime),
host diagnostics and log reading (read-only), drawing and the polling of the
health display, argument validation, parsing and migration of settings, file
modes, and Windows process ownership.

Known, and outside the properties:

* `queued_jobs` and `claim_job` do not compare the queue root, so a job of another root
  is dispatched like any other.
* `worker.identity.json` of an earlier attempt, left by a shutdown, decides for a
  later one.
* A launcher thread that raises before it clears `is_busy` leaves the buttons dead;
  two launcher windows share no `is_busy`.
* A scan of the process table that fails counts as an empty one.
* A scheduled task that is said not to have started, after five seconds, may have:
  the component has two supervisors until a stop.
* A runtime killed between `Popen` and `save_manifest` leaves a component that no later
  one knows of; the next start runs another beside it.
* `RecoveredProcess` says that its identity "is verified again immediately before group
  control" (`harbor_platform/process.py:223`). It is not: `terminate_tree` signals the
  group of the pid it holds, and the check at `harbor_runtime/lifecycle.py:213` is
  skipped when `poll` answers 0, as it does once the identity differs. A pid reused between
  `acquire` and `stop`, or between lines 244 and 247, by a stranger that leads a group
  of its own is signalled.
* After a second failure of its source a quota that was never fetched is stamped
  stale rather than unavailable.
* A MiniMax run that exits by itself with a message is completed whatever its exit
  code.

Next, in this order: `RunsAtMostOnce` over restarts without `TreeCovers`;
`WorkspaceExclusive` for any number of daemons that serve a single harness;
`TerminalIsFinal` for one daemon with claim errors; a refinement that shows `HarnessRun` and `CodexRoutes`
to implement the single step from *exec* to *final* of `JobWorker`.
