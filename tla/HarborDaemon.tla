---------------------------- MODULE HarborDaemon ----------------------------
(***************************************************************************)
(* The queue daemon: HarborScheduler.tick, statement by statement wherever *)
(* another process can act in between, with reap_workers, the harness      *)
(* dispatch lock, recover_abandoned_jobs, the reservation of jobs and      *)
(* workspaces, spawn_worker and shutdown.                                  *)
(*                                                                         *)
(* A file is looked at in one step and unlinked in the next, as in the     *)
(* code.  Creating a lock file and writing its owner into it is one step.  *)
(***************************************************************************)
EXTENDS QueueState

CONSTANTS
    HarnessOrder,   \* the order in which tick visits the harnesses
    Limit,          \* concurrency_limits
    Concurrent,     \* may several daemons run at the same time
    GraceCovers     \* is a worker always quicker to write its pid to
                    \* worker.lock than WORKER_HANDOFF_GRACE_SECONDS

ASSUME DaemonAssumption ==
    /\ HarnessOrder \in Seq(Harnesses) /\ HarnessOrder # <<>>
    /\ Limit \in [Harnesses -> Nat]
    /\ Concurrent \in BOOLEAN
    /\ GraceCovers \in BOOLEAN

VARIABLES
    turn,           \* index in HarnessOrder of the harness being visited
    queue,          \* queued: this tick's jobs not considered yet
    slots,          \* available_slots
    current,        \* the job being reserved
    chosen,         \* jobs_to_spawn
    active          \* active_workers: the jobs of this daemon's children

daemonVars == <<daemonPc, turn, queue, slots, current, chosen, active>>

\* Where a daemon is while it holds the harness dispatch lock.
CriticalSection == {"recover", "count", "reserve", "lease",
                    "unlink_lease", "create_lease"}

DaemonPcs == CriticalSection \cup
    {"off", "idle", "lock", "unlink_lock", "create_lock", "spawn", "identify",
     "stopping", "dead"}

HarnessAt(d) == HarnessOrder[turn[d]]

InCriticalSection(d, h) == daemonPc[d] \in CriticalSection /\ HarnessAt(d) = h

\* queued is FIFO by created_at.
Oldest(S) == CHOOSE j \in S : \A k \in S : j <= k

Goto(d, label) == daemonPc' = [daemonPc EXCEPT ![d] = label]

InitDaemon ==
    /\ turn = [d \in Daemons |-> 1]
    /\ queue = [d \in Daemons |-> {}]
    /\ slots = [d \in Daemons |-> 0]
    /\ current = [d \in Daemons |-> None]
    /\ chosen = [d \in Daemons |-> {}]
    /\ active = [d \in Daemons |-> {}]

\* Everything the daemon remembers is lost or dropped.
Forget(d) ==
    /\ turn' = [turn EXCEPT ![d] = 1]
    /\ queue' = [queue EXCEPT ![d] = {}]
    /\ slots' = [slots EXCEPT ![d] = 0]
    /\ current' = [current EXCEPT ![d] = None]
    /\ chosen' = [chosen EXCEPT ![d] = {}]

(***************************************************************************)
(* main: the process starts, dies, or is told to stop.                     *)
(***************************************************************************)
StartDaemon(d) ==
    /\ daemonPc[d] = "off"
    /\ Concurrent \/ \A e \in Daemons : ~DaemonAlive(e)
    /\ Goto(d, "idle")
    /\ UNCHANGED <<files, turn, queue, slots, current, chosen, active, workerPc, faults>>

\* The process is killed; its files stay as they are.
CrashDaemon(d) ==
    /\ DaemonAlive(d)
    /\ Fault("daemon")
    /\ Goto(d, "dead")
    /\ Forget(d)
    /\ active' = [active EXCEPT ![d] = {}]
    /\ UNCHANGED <<files, workerPc>>

\* SIGTERM: KeyboardInterrupt unwinds tick wherever it is, which releases the
\* harness lock; jobs reserved but not registered are left as they are.
StopDaemon(d) ==
    /\ DaemonAlive(d) /\ daemonPc[d] # "stopping"
    /\ Fault("stop")
    /\ Goto(d, "stopping")
    /\ Forget(d)
    /\ harnessLock' = IF daemonPc[d] \in CriticalSection
                      THEN [harnessLock EXCEPT ![HarnessAt(d)] = None]
                      ELSE harnessLock
    /\ UNCHANGED <<status, recordedPid, workerLock, pidWritten, dispatchLock, identity,
                   lease, active, workerPc>>

\* terminate_tree: SIGTERM, then SIGKILL, for a child's whole group.  A worker
\* inside main's try block gets to run its handler and its finally clause; one
\* that is still starting, or too slow, is just killed, and then a harness
\* outside its group goes on.
TerminateTree(d, j) ==
    /\ \/ /\ workerPc[<<d, j>>] \in {"locked", "claimed", "read", "exec", "final", "lost"}
          /\ status' = [status EXCEPT ![j] = "failed"]
          /\ workerLock' = [workerLock EXCEPT ![j] = None]
          /\ pidWritten' = [pidWritten EXCEPT ![j] = FALSE]
          /\ workerPc' = [workerPc EXCEPT ![<<d, j>>] = "gone"]
       \/ /\ \/ workerPc' = [workerPc EXCEPT ![<<d, j>>] = "gone"]
             \/ /\ ~TreeCovers /\ workerPc[<<d, j>>] = "exec"
                /\ workerPc' = [workerPc EXCEPT ![<<d, j>>] = "orphan"]
          /\ UNCHANGED <<status, workerLock, pidWritten>>

\* shutdown(terminate=True).
TerminateWorker(d, j) ==
    /\ daemonPc[d] = "stopping" /\ j \in active[d] /\ TreeAlive(<<d, j>>)
    /\ TerminateTree(d, j)
    /\ UNCHANGED <<recordedPid, dispatchLock, identity, lease, harnessLock,
                   daemonVars, faults>>

\* shutdown returns: every child was terminated, and reaped if time allowed.
ExitDaemon(d) ==
    /\ daemonPc[d] = "stopping"
    /\ \A j \in active[d] : ~TreeAlive(<<d, j>>)
    /\ Goto(d, "dead")
    /\ active' = [active EXCEPT ![d] = {}]
    /\ UNCHANGED <<files, turn, queue, slots, current, chosen, workerPc, faults>>

\* Mutant: the child has ended, what it started is not looked for.
ReapWithoutTree(d, j) ==
    /\ daemonPc[d] \in {"idle", "stopping"}
    /\ j \in active[d] \ Foreign
    /\ workerPc[<<d, j>>] \in {"orphan", "gone"}
    /\ status' = [status EXCEPT ![j] = IF @ \in Terminal THEN @ ELSE "failed"]
    /\ lease' = LeasesReleasedBy({j})
    /\ dispatchLock' = [dispatchLock EXCEPT ![j] = None]
    /\ active' = [active EXCEPT ![d] = @ \ {j}]
    /\ UNCHANGED <<recordedPid, workerLock, pidWritten, identity, harnessLock, daemonPc,
                   turn, queue, slots, current, chosen, workerPc, faults>>

\* Mutant: the terminal status the worker wrote is not looked at.
ReapFailing(d, j) ==
    /\ daemonPc[d] \in {"idle", "stopping"}
    /\ j \in active[d] \ Foreign
    /\ ~TreeAlive(<<d, j>>)
    /\ status' = [status EXCEPT ![j] = "failed"]
    /\ lease' = LeasesReleasedBy({j})
    /\ dispatchLock' = [dispatchLock EXCEPT ![j] = None]
    /\ active' = [active EXCEPT ![d] = @ \ {j}]
    /\ UNCHANGED <<recordedPid, workerLock, pidWritten, identity, harnessLock, daemonPc,
                   turn, queue, slots, current, chosen, workerPc, faults>>

(***************************************************************************)
(* reap_workers, one finished child: a job left without a terminal status  *)
(* is failed, then its lease and its reservation are released.  worker.lock *)
(* is not touched.  A child may be found finished by a later tick only, or *)
(* the record may not be writable: the daemon then goes on without.        *)
(***************************************************************************)
ReapWorker(d, j) ==
    /\ daemonPc[d] \in {"idle", "stopping"}
    /\ j \in active[d] \ Foreign
    /\ ~TreeAlive(<<d, j>>)
    /\ status' = [status EXCEPT ![j] = IF @ \in Terminal THEN @ ELSE "failed"]
    /\ lease' = LeasesReleasedBy({j})
    /\ dispatchLock' = [dispatchLock EXCEPT ![j] = None]
    /\ active' = [active EXCEPT ![d] = @ \ {j}]
    /\ UNCHANGED <<recordedPid, workerLock, pidWritten, identity, harnessLock, daemonPc,
                   turn, queue, slots, current, chosen, workerPc, faults>>

\* queued = queued_jobs(), under no lock.
ScanQueue(d) ==
    /\ daemonPc[d] = "idle"
    /\ queue' = [queue EXCEPT ![d] = QueuedJobs]
    /\ dispatchLock' = DispatchLocksAfterLookingAt(Unclaimed)
    /\ turn' = [turn EXCEPT ![d] = 1]
    /\ Goto(d, "lock")
    /\ UNCHANGED <<status, recordedPid, workerLock, pidWritten, identity, lease,
                   harnessLock, slots, current, chosen, active, workerPc, faults>>

(***************************************************************************)
(* One harness of the tick: the dispatch lock.                             *)
(***************************************************************************)
\* Mutant: one harness too many.
NextHarnessPastTheLast(d) ==
    IF turn[d] <= Len(HarnessOrder)
    THEN turn' = [turn EXCEPT ![d] = @ + 1] /\ Goto(d, "lock") /\ UNCHANGED queue
    ELSE /\ turn' = [turn EXCEPT ![d] = 1]
         /\ queue' = [queue EXCEPT ![d] = {}]
         /\ Goto(d, "idle")

\* The loop over supported_harnesses; tick returns after the last one.
NextHarness(d) ==
    IF turn[d] < Len(HarnessOrder)
    THEN /\ turn' = [turn EXCEPT ![d] = @ + 1]
         /\ Goto(d, "lock")
         /\ UNCHANGED queue
    ELSE /\ turn' = [turn EXCEPT ![d] = 1]
         /\ queue' = [queue EXCEPT ![d] = {}]
         /\ Goto(d, "idle")

\* A harness whose limit is 0 is passed over.
SkipDisabledHarness(d) ==
    /\ daemonPc[d] = "lock"
    /\ Limit[HarnessAt(d)] = 0
    /\ NextHarness(d)
    /\ UNCHANGED <<files, slots, current, chosen, active, workerPc, faults>>

\* _clean_stale_harness_lock_if_dead finds a lock whose owner is dead ...
FindStaleHarnessLock(d) ==
    LET owner == harnessLock[HarnessAt(d)]
    IN  /\ daemonPc[d] = "lock"
        /\ Limit[HarnessAt(d)] > 0
        /\ owner # None /\ ~DaemonAlive(owner)
        /\ Goto(d, "unlink_lock")
        /\ UNCHANGED <<files, turn, queue, slots, current, chosen, active, workerPc, faults>>

\* ... and then unlinks whatever file is there.
UnlinkHarnessLock(d) ==
    /\ daemonPc[d] = "unlink_lock"
    /\ harnessLock' = [harnessLock EXCEPT ![HarnessAt(d)] = None]
    /\ Goto(d, "create_lock")
    /\ UNCHANGED <<status, recordedPid, workerLock, pidWritten, dispatchLock, identity, lease,
                   turn, queue, slots, current, chosen, active, workerPc, faults>>

\* Mutant: O_CREAT without O_EXCL.
OverwriteHarnessLock(d) ==
    /\ daemonPc[d] \in {"lock", "create_lock"}
    /\ Limit[HarnessAt(d)] > 0
    /\ harnessLock' = [harnessLock EXCEPT ![HarnessAt(d)] = d]
    /\ Goto(d, "recover")
    /\ UNCHANGED <<status, recordedPid, workerLock, pidWritten, dispatchLock, identity, lease,
                   turn, queue, slots, current, chosen, active, workerPc, faults>>

\* O_CREAT | O_EXCL, at once when no stale lock was found.
AcquireHarnessLock(d) ==
    /\ daemonPc[d] \in {"lock", "create_lock"}
    /\ Limit[HarnessAt(d)] > 0
    /\ harnessLock[HarnessAt(d)] = None
    /\ harnessLock' = [harnessLock EXCEPT ![HarnessAt(d)] = d]
    /\ Goto(d, "recover")
    /\ UNCHANGED <<status, recordedPid, workerLock, pidWritten, dispatchLock, identity, lease,
                   turn, queue, slots, current, chosen, active, workerPc, faults>>

\* The file exists: look again, or give the harness up at the deadline.
HarnessLockBusy(d) ==
    LET owner == harnessLock[HarnessAt(d)]
    IN  /\ owner # None
        /\ \/ daemonPc[d] = "create_lock"
           \/ daemonPc[d] = "lock" /\ DaemonAlive(owner)
        /\ Limit[HarnessAt(d)] > 0
        /\ \/ Goto(d, "lock") /\ UNCHANGED <<turn, queue>>
           \/ NextHarness(d)
        /\ UNCHANGED <<files, slots, current, chosen, active, workerPc, faults>>

(***************************************************************************)
(* Under the lock: recovery, the count of occupied slots, reservations.    *)
(***************************************************************************)
\* Mutant: worker.lock is not unlinked.
RecoverLeavingWorkerLocks(d, aged) ==
    LET dead == Abandoned(HarnessAt(d)) \cap aged
    IN  /\ daemonPc[d] = "recover"
        /\ status' = [j \in Jobs |-> IF j \in dead /\ status[j] \notin Terminal
                                     THEN "failed" ELSE status[j]]
        /\ dispatchLock' = [j \in Jobs |-> IF j \in dead THEN None ELSE dispatchLock[j]]
        /\ lease' = LeasesReleasedBy(dead)
        /\ Goto(d, "count")
        /\ UNCHANGED <<recordedPid, workerLock, pidWritten, identity, harnessLock, turn,
                       queue, slots, current, chosen, active, workerPc, faults>>

\* recover_abandoned_jobs.  aged: the jobs whose status.json was last written
\* at least WORKER_HANDOFF_GRACE_SECONDS ago.
RecoverAbandonedJobs(d, aged) ==
    LET dead == Abandoned(HarnessAt(d)) \cap aged
    IN  /\ daemonPc[d] = "recover"
        /\ status' = [j \in Jobs |-> IF j \in dead /\ status[j] \notin Terminal
                                     THEN "failed" ELSE status[j]]
        /\ workerLock' = [j \in Jobs |-> IF j \in dead THEN None ELSE workerLock[j]]
        /\ pidWritten' = [j \in Jobs |-> pidWritten[j] /\ j \notin dead]
        /\ dispatchLock' = [j \in Jobs |-> IF j \in dead THEN None ELSE dispatchLock[j]]
        /\ lease' = LeasesReleasedBy(dead)
        /\ Goto(d, "count")
        /\ UNCHANGED <<recordedPid, identity, harnessLock, turn, queue, slots,
                       current, chosen, active, workerPc, faults>>

\* Mutants: only this daemon's own jobs; only the jobs that have a worker.
OccupiedInMemory(d, h) == {j \in active[d] : HarnessOf[j] = h}

OccupiedByWorkers(d, h) == {j \in Jobs : workerLock[j] # None /\ HarnessOf[j] = h}

\* get_occupied_count: the active jobs on disk and this daemon's own.
Occupied(d, h) == {j \in DiskActiveJobIds \cup active[d] : HarnessOf[j] = h}

CountSlots(d) ==
    LET h == HarnessAt(d)
        occupied == Cardinality(Occupied(d, h))
    IN  /\ daemonPc[d] = "count"
        /\ slots' = [slots EXCEPT ![d] = IF occupied < Limit[h]
                                         THEN Limit[h] - occupied ELSE 0]
        /\ dispatchLock' = DispatchLocksAfterLookingAt({j \in Jobs : workerLock[j] = None})
        /\ Goto(d, "reserve")
        /\ UNCHANGED <<status, recordedPid, workerLock, pidWritten, identity, lease, harnessLock,
                       turn, queue, current, chosen, active, workerPc, faults>>

\* The jobs of this harness the loop still has to look at.
Candidates(d) == {j \in queue[d] : HarnessOf[j] = HarnessAt(d)}

MoreToReserve(d) == Candidates(d) # {} /\ Cardinality(chosen[d]) < slots[d]

\* The next queued job: passed over if its workspace is already taken in this
\* tick or if reserve_job finds a live dispatch.lock.  A stale one is unlinked.
\* The status read by queued_jobs is not looked at again.
ReserveJob(d) ==
    LET j == Oldest(Candidates(d))
    IN  /\ daemonPc[d] = "reserve" /\ MoreToReserve(d)
        /\ queue' = [queue EXCEPT ![d] = @ \ {j}]
        /\ \/ /\ \E k \in chosen[d] : WorkspaceOf[k] = WorkspaceOf[j]
              /\ UNCHANGED <<dispatchLock, current, daemonPc>>
           \/ /\ \A k \in chosen[d] : WorkspaceOf[k] # WorkspaceOf[j]
              /\ IsDispatchLocked(j)
              /\ UNCHANGED <<dispatchLock, current, daemonPc>>
           \/ /\ \A k \in chosen[d] : WorkspaceOf[k] # WorkspaceOf[j]
              /\ ~IsDispatchLocked(j)
              /\ dispatchLock' = [dispatchLock EXCEPT ![j] = d]
              /\ current' = [current EXCEPT ![d] = j]
              /\ Goto(d, "lease")
        /\ UNCHANGED <<status, recordedPid, workerLock, pidWritten, identity, lease, harnessLock,
                       turn, slots, chosen, active, workerPc, faults>>

\* acquire_workspace_lease finds a lease in the way and judges it stale ...
FindStaleLease(d) ==
    LET l == lease[WorkspaceOf[current[d]]]
    IN  /\ daemonPc[d] = "lease"
        /\ l # None
        /\ \E graceOver \in BOOLEAN :
              /\ graceOver => ~(GraceCovers /\ HandoffPending(l.job))
              /\ IsStaleLease(l, graceOver)
        /\ Goto(d, "unlink_lease")
        /\ UNCHANGED <<files, turn, queue, slots, current, chosen, active, workerPc, faults>>

\* ... then unlinks whatever lease is there by now.
UnlinkLease(d) ==
    /\ daemonPc[d] = "unlink_lease"
    /\ lease' = [lease EXCEPT ![WorkspaceOf[current[d]]] = None]
    /\ Goto(d, "create_lease")
    /\ UNCHANGED <<status, recordedPid, workerLock, pidWritten, dispatchLock, identity, harnessLock,
                   turn, queue, slots, current, chosen, active, workerPc, faults>>

\* Mutant: O_CREAT without O_EXCL.
OverwriteLease(d) ==
    LET j == current[d]
    IN  /\ daemonPc[d] \in {"lease", "create_lease"}
        /\ lease' = [lease EXCEPT ![WorkspaceOf[j]] = [owner |-> d, job |-> j]]
        /\ chosen' = [chosen EXCEPT ![d] = @ \cup {j}]
        /\ current' = [current EXCEPT ![d] = None]
        /\ Goto(d, "reserve")
        /\ UNCHANGED <<status, recordedPid, workerLock, pidWritten, dispatchLock, identity,
                       harnessLock, turn, queue, slots, active, workerPc, faults>>

\* O_CREAT | O_EXCL, at once when no stale lease was found.
AcquireLease(d) ==
    LET j == current[d]
    IN  /\ daemonPc[d] \in {"lease", "create_lease"}
        /\ lease[WorkspaceOf[j]] = None
        /\ lease' = [lease EXCEPT ![WorkspaceOf[j]] = [owner |-> d, job |-> j]]
        /\ chosen' = [chosen EXCEPT ![d] = @ \cup {j}]
        /\ current' = [current EXCEPT ![d] = None]
        /\ Goto(d, "reserve")
        /\ UNCHANGED <<status, recordedPid, workerLock, pidWritten, dispatchLock, identity,
                       harnessLock, turn, queue, slots, active, workerPc, faults>>

\* The file exists, and was not judged stale: the job's reservation is given
\* back.
LeaseRefused(d) ==
    LET l == lease[WorkspaceOf[current[d]]]
    IN  /\ daemonPc[d] \in {"lease", "create_lease"}
        /\ l # None
        /\ \/ daemonPc[d] = "create_lease"
           \/ daemonPc[d] = "lease" /\ ~IsStaleLease(l, FALSE)
        /\ dispatchLock' = [dispatchLock EXCEPT ![current[d]] = None]
        /\ current' = [current EXCEPT ![d] = None]
        /\ Goto(d, "reserve")
        /\ UNCHANGED <<status, recordedPid, workerLock, pidWritten, identity, lease, harnessLock,
                       turn, queue, slots, chosen, active, workerPc, faults>>

\* The end of the with block: the lock file is unlinked, whoever owns it.
ReleaseHarnessLock(d) ==
    /\ daemonPc[d] = "reserve" /\ ~MoreToReserve(d)
    /\ harnessLock' = [harnessLock EXCEPT ![HarnessAt(d)] = None]
    /\ slots' = [slots EXCEPT ![d] = 0]
    /\ Goto(d, "spawn")
    /\ UNCHANGED <<status, recordedPid, workerLock, pidWritten, dispatchLock, identity, lease,
                   turn, queue, current, chosen, active, workerPc, faults>>

(***************************************************************************)
(* spawn_worker for every job reserved, in order.                          *)
(***************************************************************************)
\* Popen.
SpawnWorker(d) ==
    LET j == Oldest(chosen[d])
    IN  /\ daemonPc[d] = "spawn" /\ chosen[d] # {}
        /\ workerPc' = [workerPc EXCEPT ![<<d, j>>] = "boot"]
        /\ Goto(d, "identify")
        /\ UNCHANGED <<files, turn, queue, slots, current, chosen, active, faults>>

\* settled_identity goes to worker.identity.json, or, if it does not settle, an
\* older file stays there; then the child is registered.
RegisterWorker(d) ==
    LET j == Oldest(chosen[d])
    IN  /\ daemonPc[d] = "identify"
        /\ \/ identity' = [identity EXCEPT ![j] = <<d, j>>] /\ UNCHANGED faults
           \/ UNCHANGED identity /\ Fault("identity")
        /\ active' = [active EXCEPT ![d] = @ \cup {j}]
        /\ chosen' = [chosen EXCEPT ![d] = @ \ {j}]
        /\ Goto(d, "spawn")
        /\ UNCHANGED <<status, recordedPid, workerLock, pidWritten, dispatchLock, lease,
                       harnessLock, turn, queue, slots, current, workerPc>>

\* Popen raises: the lease and the reservation are released.
SpawnFails(d) ==
    LET j == Oldest(chosen[d])
    IN  /\ daemonPc[d] = "spawn" /\ chosen[d] # {}
        /\ Fault("spawn")
        /\ lease' = LeasesReleasedBy({j})
        /\ dispatchLock' = [dispatchLock EXCEPT ![j] = None]
        /\ chosen' = [chosen EXCEPT ![d] = @ \ {j}]
        /\ UNCHANGED <<status, recordedPid, workerLock, pidWritten, identity, harnessLock,
                       daemonPc, turn, queue, slots, current, active, workerPc>>

\* worker.identity.json cannot be written: the child is terminated, and the
\* lease and the reservation are released as when Popen raises.
IdentityNotWritten(d) ==
    LET j == Oldest(chosen[d])
    IN  /\ daemonPc[d] = "identify"
        /\ Fault("identity")
        /\ TerminateTree(d, j)
        /\ lease' = LeasesReleasedBy({j})
        /\ dispatchLock' = [dispatchLock EXCEPT ![j] = None]
        /\ chosen' = [chosen EXCEPT ![d] = @ \ {j}]
        /\ Goto(d, "spawn")
        /\ UNCHANGED <<recordedPid, identity, harnessLock, turn, queue, slots, current, active>>

FinishHarness(d) ==
    /\ daemonPc[d] = "spawn" /\ chosen[d] = {}
    /\ NextHarness(d)
    /\ UNCHANGED <<files, slots, current, chosen, active, workerPc, faults>>

\* A step of HarborScheduler.tick.
Tick(d) ==
    \/ ScanQueue(d) \/ SkipDisabledHarness(d) \/ FindStaleHarnessLock(d)
    \/ UnlinkHarnessLock(d) \/ AcquireHarnessLock(d) \/ HarnessLockBusy(d)
    \/ \E aged \in SUBSET Jobs : RecoverAbandonedJobs(d, aged)
    \/ CountSlots(d) \/ ReserveJob(d) \/ FindStaleLease(d) \/ UnlinkLease(d)
    \/ AcquireLease(d) \/ LeaseRefused(d) \/ ReleaseHarnessLock(d)
    \/ SpawnWorker(d) \/ RegisterWorker(d) \/ IdentityNotWritten(d)
    \/ SpawnFails(d) \/ FinishHarness(d)

DaemonStep(d) ==
    \/ StartDaemon(d) \/ CrashDaemon(d) \/ StopDaemon(d) \/ ExitDaemon(d)
    \/ \E j \in Jobs : TerminateWorker(d, j) \/ ReapWorker(d, j)
    \/ Tick(d)
=============================================================================
