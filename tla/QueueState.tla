----------------------------- MODULE QueueState -----------------------------
(***************************************************************************)
(* The state every process of the Harbor queue shares: the files of the    *)
(* jobs directory (status.json, worker.lock, dispatch.lock,                *)
(* worker.identity.json, the workspace leases, the per-harness dispatch    *)
(* locks) and which processes are alive, with the judgements the code      *)
(* passes on those files (is this lock stale, is this job active).         *)
(*                                                                         *)
(* A file that holds a process id holds, here, the process itself: a       *)
(* daemon d, or the worker <<d, j>> that daemon d started for job j.       *)
(* Process ids are never reused.                                           *)
(***************************************************************************)
EXTENDS Integers, Sequences, FiniteSets

CONSTANTS
    Daemons,        \* daemon processes; a restarted daemon is another process
    Jobs,           \* job ids, numbered in the order of created_at
    Harnesses,      \* supported_harnesses
    Workspaces,     \* canonical workspaces
    HarnessOf,      \* the harness recorded in a job's status.json
    WorkspaceOf,    \* get_canonical_workspace(get_job_cwd(job))
    Foreign,        \* jobs whose queue_root_fingerprint names another root
    MaxFaults,      \* how often each kind of fault may happen in a behaviour
    TreeCovers,     \* what a dead worker left running is in the tree looked at
    None            \* no such file, or no such process

Workers == Daemons \X Jobs

Lease == [owner : Daemons, job : Jobs]

Terminal == {"completed", "failed", "cancelled"}
Statuses == {"absent", "queued", "running"} \cup Terminal

\* A daemon or a worker killed, a worker killed in the middle of claiming, a
\* exception while claiming, a spawn that raises, a child whose identity does
\* not settle or cannot be written, a daemon told to stop.
FaultKinds == {"daemon", "worker", "claim", "error", "spawn", "identity", "stop"}

ASSUME StateAssumption ==
    /\ Jobs \subseteq Nat /\ IsFiniteSet(Jobs)
    /\ HarnessOf \in [Jobs -> Harnesses]
    /\ WorkspaceOf \in [Jobs -> Workspaces]
    /\ Foreign \subseteq Jobs
    /\ MaxFaults \in [FaultKinds -> Nat]
    /\ TreeCovers \in BOOLEAN
    /\ None \notin Daemons \cup Jobs \cup Workers \cup Lease

VARIABLES
    status,         \* status.json: "status"
    recordedPid,    \* status.json: worker_pid and native_process.launcher_pid
    workerLock,     \* worker.lock: the worker that created it
    pidWritten,     \* worker.lock: its creator has written its pid
    dispatchLock,   \* dispatch.lock
    identity,       \* worker.identity.json
    lease,          \* .workspace_leases/<hash>.lease, per workspace
    harnessLock,    \* .dispatch_<harness>.lock, per harness
    daemonPc,       \* where each daemon process is
    workerPc,       \* where each worker process is
    faults          \* how many faults of each kind have happened

files == <<status, recordedPid, workerLock, pidWritten, dispatchLock, identity,
           lease, harnessLock>>

(***************************************************************************)
(* Processes.  "orphan" is a worker that died while the harness it started *)
(* is still working.  On Windows the harness stays in the worker's Job     *)
(* Object; on POSIX spawn_owned makes it the leader of a session, so of a  *)
(* process group, of its own, where nobody looks (~TreeCovers).            *)
(***************************************************************************)
DaemonAlive(d) == daemonPc[d] \notin {"off", "dead"}

WorkerAlive(w) == workerPc[w] \notin {"none", "orphan", "gone"}

\* owned_tree_alive and descendants, for a worker.
TreeAlive(w) == WorkerAlive(w) \/ (TreeCovers /\ workerPc[w] = "orphan")

\* Its prompt has been handed to a harness that is at work in the workspace.
Executing(w) == workerPc[w] \in {"exec", "orphan"}

(***************************************************************************)
(* Judgements on the files of one job.                                     *)
(***************************************************************************)
\* get_worker_lock_pid: no pid while worker.lock is still empty.
WorkerLockPid(j) == IF pidWritten[j] THEN workerLock[j] ELSE None

\* The worker pids a job's files name.
JobOwners(j) == {WorkerLockPid(j), recordedPid[j]} \ {None}

\* _job_tree_alive, the POSIX branch: an identity file decides alone.
JobTreeAlive(j) ==
    \/ identity[j] # None /\ TreeAlive(identity[j])
    \/ identity[j] = None /\ \E w \in JobOwners(j) : TreeAlive(w)

\* Mutant: a dead owner does not make the lock stale.
IsStaleForTerminalOnly(j) == status[j] \in Terminal

\* _is_stale_dispatch_lock: a terminal job, or a dead owner and no worker.lock.
IsStaleDispatchLock(j) ==
    \/ status[j] \in Terminal
    \/ workerLock[j] = None /\ ~DaemonAlive(dispatchLock[j])

IsDispatchLocked(j) == dispatchLock[j] # None /\ ~IsStaleDispatchLock(j)

\* is_dispatch_locked unlinks a stale lock as it looks: the dispatch locks
\* left when it has looked at those of the jobs in S.
DispatchLocksAfterLookingAt(S) ==
    [j \in Jobs |->
        IF j \in S /\ ~IsDispatchLocked(j) THEN None ELSE dispatchLock[j]]

\* A worker of j was started and has not written its pid to worker.lock yet.
HandoffPending(j) ==
    \E w \in Workers : w[2] = j /\ workerPc[w] \in {"boot", "locked"}

\* Mutant: the death of the worker alone makes its lease stale.
IsStaleWithoutTree(l, graceOver) ==
    \/ status[l.job] \in Terminal
    \/ WorkerLockPid(l.job) # None /\ ~WorkerAlive(WorkerLockPid(l.job))
    \/ WorkerLockPid(l.job) = None /\ ~DaemonAlive(l.owner) /\ graceOver

\* _clean_stale_workspace_lease_if_dead on lease l; graceOver says whether l
\* is older than WORKER_HANDOFF_GRACE_SECONDS.
IsStaleLease(l, graceOver) ==
    /\ ~JobTreeAlive(l.job)
    /\ \/ status[l.job] \in Terminal
       \/ WorkerLockPid(l.job) # None /\ ~WorkerAlive(WorkerLockPid(l.job))
       \/ /\ WorkerLockPid(l.job) = None
          /\ ~DaemonAlive(l.owner)
          /\ graceOver

(***************************************************************************)
(* Scans of the jobs directory.                                            *)
(***************************************************************************)
\* queued_jobs, which looks at the dispatch locks of the jobs in Unclaimed.
Unclaimed == {j \in Jobs : status[j] = "queued" /\ workerLock[j] = None}

QueuedJobs == {j \in Unclaimed : ~IsDispatchLocked(j)}

\* get_disk_active_job_ids, which looks at the dispatch locks of every job
\* without a worker.lock.
DiskActiveJobIds ==
    {j \in Jobs : \/ workerLock[j] # None
                  \/ IsDispatchLocked(j)
                  \/ status[j] = "running"}

\* Mutant: what a dead worker left running is not looked for.
AbandonedByWorker(h) ==
    {j \in Jobs \ Foreign :
        /\ HarnessOf[j] = h
        /\ status[j] \in {"queued", "running"} \/ workerLock[j] # None
        /\ JobOwners(j) # {}
        /\ \A w \in JobOwners(j) : ~WorkerAlive(w)}

\* Mutant: the queue root recorded in the job is not looked at.
AbandonedAnywhere(h) ==
    {j \in Jobs :
        /\ HarnessOf[j] = h
        /\ status[j] \in {"queued", "running"} \/ workerLock[j] # None
        /\ JobOwners(j) # {}
        /\ \A w \in JobOwners(j) : ~WorkerAlive(w)
        /\ ~JobTreeAlive(j)}

\* The jobs recover_abandoned_jobs may declare dead, for one harness: their
\* known workers, at least one, have all gone.
Abandoned(h) ==
    {j \in Jobs \ Foreign :
        /\ HarnessOf[j] = h
        /\ status[j] \in {"queued", "running"} \/ workerLock[j] # None
        /\ JobOwners(j) # {}
        /\ \A w \in JobOwners(j) : ~WorkerAlive(w)
        /\ ~JobTreeAlive(j)}

\* Mutant: whatever job the lease of the workspace names.
LeasesReleasedForAnyJob(S) ==
    [ws \in Workspaces |->
        IF \E j \in S : WorkspaceOf[j] = ws THEN None ELSE lease[ws]]

\* release_workspace_lease(jobs_dir, workspace, job): only the job's own lease.
LeasesReleasedBy(S) ==
    [ws \in Workspaces |->
        IF lease[ws] # None /\ lease[ws].job \in S
        THEN None ELSE lease[ws]]

(***************************************************************************)
(* Initially: no jobs, no files, nothing runs.                             *)
(***************************************************************************)
InitQueueState ==
    /\ status = [j \in Jobs |-> "absent"]
    /\ recordedPid = [j \in Jobs |-> None]
    /\ workerLock = [j \in Jobs |-> None]
    /\ pidWritten = [j \in Jobs |-> FALSE]
    /\ dispatchLock = [j \in Jobs |-> None]
    /\ identity = [j \in Jobs |-> None]
    /\ lease = [ws \in Workspaces |-> None]
    /\ harnessLock = [h \in Harnesses |-> None]
    /\ daemonPc = [d \in Daemons |-> "off"]
    /\ workerPc = [w \in Workers |-> "none"]
    /\ faults = [k \in FaultKinds |-> 0]

Fault(k) ==
    /\ faults[k] < MaxFaults[k]
    /\ faults' = [faults EXCEPT ![k] = @ + 1]
=============================================================================
