---------------------------- MODULE HarborQueue ----------------------------
(***************************************************************************)
(* The Harbor queue: producers that submit and cancel jobs, daemons that   *)
(* dispatch them and workers that run them, sharing one jobs directory.    *)
(***************************************************************************)
EXTENDS HarborDaemon, JobWorker, JobControl

vars == <<files, daemonVars, workerPc, ran, cancel, faults>>

Init == InitQueueState /\ InitDaemon /\ InitWorker /\ InitControl

Next ==
    \/ \E d \in Daemons : DaemonStep(d) /\ UNCHANGED <<ran, cancel>>
    \/ \E w \in Workers : WorkerStep(w) /\ UNCHANGED <<daemonVars, cancel>>
    \/ \E j \in Jobs : ControlStep(j) /\ UNCHANGED <<daemonVars, ran>>

Spec == Init /\ [][Next]_vars

(***************************************************************************)
(* Safety.                                                                 *)
(***************************************************************************)
\* Every variable keeps the shape its file or process state has.
TypeOK ==
    /\ status \in [Jobs -> Statuses]
    /\ recordedPid \in [Jobs -> Workers \cup {None}]
    /\ workerLock \in [Jobs -> Workers \cup {None}]
    /\ pidWritten \in [Jobs -> BOOLEAN]
    /\ dispatchLock \in [Jobs -> Daemons \cup {None}]
    /\ identity \in [Jobs -> Workers \cup {None}]
    /\ lease \in [Workspaces -> Lease \cup {None}]
    /\ harnessLock \in [Harnesses -> Daemons \cup {None}]
    /\ daemonPc \in [Daemons -> DaemonPcs]
    /\ turn \in [Daemons -> DOMAIN HarnessOrder]
    /\ queue \in [Daemons -> SUBSET Jobs]
    /\ slots \in [Daemons -> Nat]
    /\ current \in [Daemons -> Jobs \cup {None}]
    /\ chosen \in [Daemons -> SUBSET Jobs]
    /\ active \in [Daemons -> SUBSET Jobs]
    /\ workerPc \in [Workers -> WorkerPcs]
    /\ ran \in SUBSET Workers
    /\ cancel \in [Jobs -> CancelPcs]
    /\ faults \in [FaultKinds -> Nat]

\* No two process trees ever work in the same workspace at the same time:
\* what the workspace leases are for.
WorkspaceExclusive ==
    \A v, w \in Workers :
        v # w /\ Executing(v) /\ Executing(w) => WorkspaceOf[v[2]] # WorkspaceOf[w[2]]

\* As long as a prompt is being worked on, even by what a dead worker left
\* behind, the workspace's lease file exists and names that job.
LeaseProtectsExecution ==
    \A w \in Workers :
        Executing(w) => LET l == lease[WorkspaceOf[w[2]]]
                        IN  l # None /\ l.job = w[2]

\* Never more jobs at work on a harness than its concurrency limit, over all
\* daemons: what the count of occupied slots under the dispatch lock is for.
CapacityRespected ==
    \A h \in Harnesses :
        Cardinality({w \in Workers : Executing(w) /\ HarnessOf[w[2]] = h}) <= Limit[h]

\* The dispatch lock of a harness admits one daemon at a time.
HarnessLockExclusive ==
    \A h \in Harnesses : \A d, e \in Daemons :
        InCriticalSection(d, h) /\ InCriticalSection(e, h) => d = e

\* A prompt is handed to a harness at most once, whatever is dispatched again
\* from a stale scan, recovered or restarted.
RunsAtMostOnce == \A v, w \in ran : v[2] = w[2] => v = w

\* A job that is being worked on is recorded as running: neither recovery nor
\* the reaping of another child fails it.
RunningWhileExecuting ==
    \A w \in Workers : Executing(w) => status[w[2]] = "running"

\* A job whose cancellation was confirmed is never handed to a harness.
CancelHonoured ==
    \A w \in ran : cancel[w[2]] # "cancelled"

\* A terminal status is never replaced by another one.
TerminalIsFinal ==
    [][\A j \in Jobs : status[j] \in Terminal => status'[j] = status[j]]_status

\* Only its own worker changes the record of a job that names another queue
\* root: recovery, reaping and cancellation leave it as it is.
ForeignLeftAlone ==
    [][\A j \in Foreign :
          \/ status'[j] = status[j]
          \/ status[j] = "absent"
          \/ \E d \in Daemons : workerPc'[<<d, j>>] # workerPc[<<d, j>>]
          \/ status'[j] = "running"]_vars

(***************************************************************************)
(* What the queue promises, as a refinement: what a submitter can tell of  *)
(* a job from the outside is a behaviour of HarborService.                 *)
(***************************************************************************)
JobPhase ==
    [j \in Jobs |->
        CASE \E w \in Workers : w[2] = j /\ Executing(w) -> "working"
          [] status[j] = "absent" -> "absent"
          [] OTHER -> IF status[j] \in Terminal \/ \E w \in ran : w[2] = j
                      THEN "over" ELSE "waiting"]

Service == INSTANCE HarborService WITH phase <- JobPhase

\* A job recovered, reaped, requeued by a refused lease or failed early never
\* comes back to life, and its prompt never starts in an occupied workspace.
ImplementsService == Service!Spec

(***************************************************************************)
(* Liveness.                                                               *)
(***************************************************************************)
\* Every process takes its next step; the harness run ends (its timeout is
\* enforced); age makes status files and leases outlive their grace; a child
\* found finished over and over is reaped once.
Fairness ==
    /\ \A d \in Daemons :
        /\ WF_vars(/\ \/ StartDaemon(d) \/ Tick(d) \/ ExitDaemon(d)
                      \/ \E j \in Jobs : TerminateWorker(d, j)
                   /\ UNCHANGED <<ran, cancel>>)
        /\ SF_vars((\E j \in Jobs : ReapWorker(d, j)) /\ UNCHANGED <<ran, cancel>>)
        /\ SF_vars(RecoverAbandonedJobs(d, Jobs) /\ UNCHANGED <<ran, cancel>>)
        /\ SF_vars(FindStaleLease(d) /\ UNCHANGED <<ran, cancel>>)
    /\ \A w \in Workers :
        WF_vars((Work(w) \/ OrphanEnds(w)) /\ UNCHANGED <<daemonVars, cancel>>)

FairSpec == Spec /\ Fairness

\* Every job submitted ends, through crashes and restarts of daemons and
\* workers.
EveryJobEnds ==
    \A j \in Jobs : status[j] = "queued" ~> status[j] \in Terminal

\* Every slot is given back: in the end no job counts as active, neither on
\* disk nor in a daemon.
SlotsReturned ==
    <>[](DiskActiveJobIds = {} /\ \A d \in Daemons : active[d] = {})
=============================================================================
