--------------------------- MODULE DispatchProofs ---------------------------
(***************************************************************************)
(* Theorems about any number of daemons at the same time: who answers for  *)
(* a job, what a job's record says while it is worked on, and how many     *)
(* jobs are at work.                                                       *)
(***************************************************************************)
EXTENDS HarborQueueProofs

-----------------------------------------------------------------------------
(***************************************************************************)
(* No daemon has ended.  The reservation of a job lasts as long as the     *)
(* daemon that made it; what a daemon that has ended leaves behind is kept *)
(* by the leases, which is another argument.                               *)
(***************************************************************************)
NoDaemonEnded == faults["daemon"] = 0 /\ faults["stop"] = 0

\* A job nobody has finished, failed or cancelled.
Open(j) == status[j] \notin Terminal /\ cancel[j] # "cancelled"

InHand(d, j) ==
    daemonPc[d] \in {"lease", "unlink_lease", "create_lease"} /\ current[d] = j

\* Daemon d answers for job j: it has it in hand, has reserved it, or is the
\* parent of its worker.
Handles(d, j) ==
    \/ InHand(d, j)
    \/ j \in chosen[d] \cup active[d]
    \/ TreeAlive(<<d, j>>)

\* A reservation is the reservation of a daemon that runs.
AliveInv ==
    /\ \A d \in Daemons : daemonPc[d] \notin {"stopping", "dead"}
    /\ \A j \in Jobs : dispatchLock[j] # None => DaemonAlive(dispatchLock[j])

\* The dispatch.lock of a job that is not over names the daemon that answers
\* for it.
HandlesInv ==
    \A d \in Daemons, j \in Jobs : Open(j) /\ Handles(d, j) => dispatchLock[j] = d

\* It is in one place of that daemon, and has no worker before it is spawned.
PlaceInv ==
    \A d \in Daemons, j \in Jobs : Open(j) =>
        /\ InHand(d, j) => j \notin chosen[d] \cup active[d] /\ ~TreeAlive(<<d, j>>)
        /\ j \in chosen[d] => j \notin active[d]
        /\ j \in chosen[d] /\ TreeAlive(<<d, j>>) =>
              daemonPc[d] = "identify" /\ j = Oldest(chosen[d])

\* Its identity file is not that of an earlier worker.
IdentityInv ==
    \A j \in Jobs : Open(j) /\ identity[j] # None =>
        \E d \in Daemons : identity[j] = <<d, j>> /\ j \in active[d]

\* Its worker.lock is that of the worker that has created it.
ClaimedInv ==
    \A w \in Workers : Open(w[2]) =>
        /\ workerPc[w] \in {"locked", "claimed", "read"} => workerLock[w[2]] = w
        /\ workerPc[w] \in {"claimed", "read"} => pidWritten[w[2]]

\* What terminate_tree leaves of a worker: nothing, or nothing that is seen.
Ends(w) ==
    \/ workerPc' = [workerPc EXCEPT ![w] = "gone"]
    \/ ~TreeCovers /\ workerPc' = [workerPc EXCEPT ![w] = "orphan"]

\* Its prompt is at work, and a daemon that looks for it would find it.
InSight(w) == Executing(w) /\ TreeAlive(w)

\* Its record follows its worker.
RecordInv ==
    \A w \in Workers : cancel[w[2]] # "cancelled" =>
        /\ workerPc[w] = "read" => status[w[2]] = "queued"
        /\ InSight(w) => status[w[2]] = "running" /\ recordedPid[w[2]] = w

\* Nobody who has seen a job queued is late.
OnceInv ==
    /\ \A j \in Jobs : cancel[j] = "cancelled" => status[j] \notin {"absent", "queued"}
    /\ \A w \in ran : status[w[2]] \notin {"absent", "queued"}
    /\ \A v, w \in Workers :
          v[2] = w[2] /\ workerPc[w] = "read" =>
              v \notin ran /\ (workerPc[v] = "read" => v = w)

DispatchIInv ==
    /\ AliveInv /\ HandlesInv /\ PlaceInv /\ IdentityInv
    /\ ClaimedInv /\ RecordInv /\ OnceInv

\* A step counts one fault or none.
LEMMA FaultsCounted ==
    ASSUME Next
    PROVE  UNCHANGED faults \/ \E k \in FaultKinds : Fault(k)
<1>1. ASSUME NEW d \in Daemons, DaemonStep(d)
      PROVE  UNCHANGED faults \/ \E k \in FaultKinds : Fault(k)
  BY <1>1
  DEF DaemonStep, Tick, StartDaemon, CrashDaemon, StopDaemon, ExitDaemon,
      TerminateWorker, ReapWorker, ScanQueue, SkipDisabledHarness,
      FindStaleHarnessLock, UnlinkHarnessLock, AcquireHarnessLock, HarnessLockBusy,
      RecoverAbandonedJobs, CountSlots, ReserveJob, FindStaleLease, UnlinkLease,
      AcquireLease, LeaseRefused, ReleaseHarnessLock, SpawnWorker, RegisterWorker,
      IdentityNotWritten, SpawnFails, FinishHarness, FaultKinds
<1>2. ASSUME NEW w \in Workers, WorkerStep(w)
      PROVE  UNCHANGED faults \/ \E k \in FaultKinds : Fault(k)
  BY <1>2
  DEF WorkerStep, Work, CreateWorkerLock, WriteWorkerPid, ReadStatus, WriteRunning,
      WriteProgress, WriteResult, WrapperError, ReleaseJobLock, CrashWorker, OrphanEnds,
      FaultKinds
<1>3. ASSUME NEW j \in Jobs, ControlStep(j) PROVE UNCHANGED faults
  BY <1>3 DEF ControlStep, StartTask, CheckCancel, WriteCancelled
<1> QED BY <1>1, <1>2, <1>3 DEF Next

\* No step takes a fault back.
LEMMA FaultsStay ==
    ASSUME TypeInv, Next, NoDaemonEnded'
    PROVE  NoDaemonEnded
<1>1. ASSUME NEW k \in FaultKinds, Fault(k) PROVE NoDaemonEnded
  BY <1>1 DEF Fault, NoDaemonEnded, FaultKinds, TypeInv, TypeOK
<1>2. CASE UNCHANGED faults
  BY <1>2 DEF NoDaemonEnded
<1> QED BY <1>1, <1>2, FaultsCounted

\* While no daemon has ended, no daemon is ending.
LEMMA NoneEnds ==
    ASSUME TypeInv, AliveInv, NoDaemonEnded', NEW d \in Daemons, DaemonStep(d)
    PROVE  \/ StartDaemon(d) \/ Tick(d)
           \/ \E j \in Jobs : ReapWorker(d, j) /\ daemonPc[d] = "idle"
<1>1. CASE CrashDaemon(d) \/ StopDaemon(d)
  BY <1>1 DEF CrashDaemon, StopDaemon, Fault, NoDaemonEnded, FaultKinds, TypeInv, TypeOK
<1> QED BY <1>1 DEF DaemonStep, AliveInv, ExitDaemon, TerminateWorker, ReapWorker

\* What the steps of the other daemons leave of a daemon and its workers.
Untouched(e) ==
    /\ daemonPc'[e] = daemonPc[e] /\ current'[e] = current[e]
    /\ chosen'[e] = chosen[e] /\ active'[e] = active[e]
    /\ turn'[e] = turn[e] /\ slots'[e] = slots[e]
    /\ \A j \in Jobs : workerPc'[<<e, j>>] = workerPc[<<e, j>>]

LEMMA OtherDaemons ==
    ASSUME TypeInv, NEW d \in Daemons,
           StartDaemon(d) \/ Tick(d) \/ \E j \in Jobs : ReapWorker(d, j),
           NEW e \in Daemons \ {d}
    PROVE  Untouched(e)
<1> USE DEF Untouched, TypeInv, TypeOK, Goto, files
<1>1. CASE StartDaemon(d) \/ \E j \in Jobs : ReapWorker(d, j)
  BY <1>1 DEF StartDaemon, ReapWorker
<1>2. CASE \/ ScanQueue(d) \/ SkipDisabledHarness(d) \/ FindStaleHarnessLock(d)
           \/ UnlinkHarnessLock(d) \/ AcquireHarnessLock(d) \/ HarnessLockBusy(d)
           \/ ReleaseHarnessLock(d) \/ FinishHarness(d)
  BY <1>2
  DEF ScanQueue, SkipDisabledHarness, FindStaleHarnessLock, UnlinkHarnessLock,
      AcquireHarnessLock, HarnessLockBusy, ReleaseHarnessLock, FinishHarness, NextHarness
<1>3. CASE \/ \E aged \in SUBSET Jobs : RecoverAbandonedJobs(d, aged)
           \/ CountSlots(d) \/ ReserveJob(d) \/ FindStaleLease(d) \/ UnlinkLease(d)
           \/ AcquireLease(d) \/ LeaseRefused(d)
  BY <1>3
  DEF RecoverAbandonedJobs, CountSlots, ReserveJob, FindStaleLease, UnlinkLease,
      AcquireLease, LeaseRefused
<1>4. CASE SpawnWorker(d) \/ RegisterWorker(d) \/ IdentityNotWritten(d) \/ SpawnFails(d)
  <2>1. \/ UNCHANGED workerPc
        \/ \E pc : workerPc' = [workerPc EXCEPT ![<<d, Oldest(chosen[d])>>] = pc]
    BY <1>4 DEF SpawnWorker, RegisterWorker, IdentityNotWritten, SpawnFails, TerminateTree
  <2>2. \A j \in Jobs : workerPc'[<<e, j>>] = workerPc[<<e, j>>]
    BY <2>1 DEF Workers
  <2> QED BY <1>4, <2>2 DEF SpawnWorker, RegisterWorker, IdentityNotWritten, SpawnFails
<1> QED BY <1>1, <1>2, <1>3, <1>4 DEF Tick

\* A daemon reserves a job of the harness it is at.
LEMMA NextCandidate ==
    ASSUME TypeInv, NEW d \in Daemons, ReserveJob(d)
    PROVE  /\ Oldest(Candidates(d)) \in queue[d] \cap Jobs
           /\ HarnessOf[Oldest(Candidates(d))] = HarnessAt(d)
<1>1. Candidates(d) # {}
  BY DEF ReserveJob, MoreToReserve
<1>2. Candidates(d) \in SUBSET Jobs
  BY DEF Candidates, TypeInv, TypeOK
<1> QED BY <1>1, <1>2, OldestIsMember DEF Candidates

\* The reservation of a job that is not over is never stale.
LEMMA OpenIsLocked ==
    ASSUME AliveInv, NEW j \in Jobs, Open(j), dispatchLock[j] # None
    PROVE  IsDispatchLocked(j)
BY DEF AliveInv, Open, IsDispatchLocked, IsStaleDispatchLock

\* So whoever looks at it leaves it there.
LEMMA LookedAt ==
    ASSUME AliveInv, NEW S, NEW j \in Jobs, Open(j),
           dispatchLock' = DispatchLocksAfterLookingAt(S)
    PROVE  dispatchLock'[j] = dispatchLock[j]
BY OpenIsLocked DEF DispatchLocksAfterLookingAt

\* A job that is over stays over.
LEMMA OpenBefore ==
    ASSUME TypeInv, RecordInv, Next, NEW j \in Jobs, Open(j)'
    PROVE  Open(j)
<1> USE DEF Open, Terminal, TypeInv, TypeOK
<1>1. ASSUME NEW d \in Daemons, DaemonStep(d), UNCHANGED <<ran, cancel>>
      PROVE  Open(j)
  <2> SUFFICES status[j] \in Terminal => status'[j] \in Terminal
    BY <1>1
  <2>1. CASE UNCHANGED status
    BY <2>1
  <2>2. CASE \E k \in Jobs : TerminateTree(d, k)
    BY <2>2 DEF TerminateTree
  <2>3. CASE \E k \in Jobs : ReapWorker(d, k)
    BY <2>3 DEF ReapWorker
  <2>4. CASE \E aged \in SUBSET Jobs : RecoverAbandonedJobs(d, aged)
    BY <2>4 DEF RecoverAbandonedJobs
  <2>5. CASE IdentityNotWritten(d)
    <3>1. Oldest(chosen[d]) \in Jobs
      BY <2>5, OldestIsMember DEF IdentityNotWritten, HandOK
    <3> QED BY <2>2, <2>5, <3>1 DEF IdentityNotWritten
  <2> QED BY <1>1, <2>1, <2>2, <2>3, <2>4, <2>5
      DEF DaemonStep, Tick, StartDaemon, CrashDaemon, StopDaemon, ExitDaemon,
        TerminateWorker, ScanQueue, SkipDisabledHarness,
        FindStaleHarnessLock, UnlinkHarnessLock, AcquireHarnessLock, HarnessLockBusy,
        CountSlots, ReserveJob, FindStaleLease, UnlinkLease,
        AcquireLease, LeaseRefused, ReleaseHarnessLock, SpawnWorker, RegisterWorker,
        SpawnFails, FinishHarness, files
<1>2. ASSUME NEW w \in Workers, WorkerStep(w), UNCHANGED <<daemonVars, cancel>>
      PROVE  Open(j)
  <2>1. w[2] \in Jobs
    BY DEF Workers
  <2>2. CASE w[2] # j
    BY <1>2, <2>1, <2>2
    DEF WorkerStep, Work, CreateWorkerLock, WriteWorkerPid, ReadStatus, WriteRunning,
        WriteProgress, WriteResult, WrapperError, ReleaseJobLock, CrashWorker, OrphanEnds,
        files
  <2>3. CASE w[2] = j
    BY <1>2, <2>1, <2>3
    DEF WorkerStep, Work, CreateWorkerLock, WriteWorkerPid, ReadStatus, WriteRunning,
        WriteProgress, WriteResult, WrapperError, ReleaseJobLock, CrashWorker, OrphanEnds,
        files, RecordInv, InSight, Executing, TreeAlive, WorkerAlive
  <2> QED BY <2>2, <2>3
<1>3. ASSUME NEW k \in Jobs, ControlStep(k)
      PROVE  Open(j)
  BY <1>3 DEF ControlStep, StartTask, CheckCancel, WriteCancelled, files
<1> QED BY <1>1, <1>2, <1>3 DEF Next

\* A daemon that reserves or gives back a job that is not over has found it
\* reserved by nobody, or by itself.
LEMMA OwnReservation ==
    ASSUME TypeInv, AliveInv, HandlesInv, NEW d \in Daemons,
           StartDaemon(d) \/ Tick(d) \/ \E k \in Jobs : ReapWorker(d, k),
           NEW j \in Jobs, Open(j), Open(j)'
    PROVE  dispatchLock'[j] = dispatchLock[j] \/ dispatchLock[j] \in {None, d}
<1> USE DEF TypeInv, TypeOK
<1>1. CASE UNCHANGED dispatchLock
  BY <1>1
<1>2. ASSUME NEW k \in Jobs, ReapWorker(d, k)
      PROVE  dispatchLock'[j] = dispatchLock[j]
  BY <1>2 DEF ReapWorker, Open, Terminal
<1>3. CASE ScanQueue(d) \/ CountSlots(d)
  BY <1>3, LookedAt DEF ScanQueue, CountSlots
<1>4. ASSUME NEW aged \in SUBSET Jobs, RecoverAbandonedJobs(d, aged)
      PROVE  dispatchLock'[j] = dispatchLock[j]
  BY <1>4 DEF RecoverAbandonedJobs, Open, Terminal
<1>5. CASE ReserveJob(d)
  <2>1. \/ dispatchLock' = dispatchLock
        \/ /\ ~IsDispatchLocked(Oldest(Candidates(d)))
           /\ dispatchLock' = [dispatchLock EXCEPT ![Oldest(Candidates(d))] = d]
    BY <1>5 DEF ReserveJob
  <2> QED BY <2>1, OpenIsLocked
<1>6. CASE LeaseRefused(d)
  <2>1. /\ InHand(d, current[d])
        /\ dispatchLock' = [dispatchLock EXCEPT ![current[d]] = None]
    BY <1>6 DEF LeaseRefused, InHand
  <2>2. CASE j = current[d]
    BY <2>1, <2>2 DEF HandlesInv, Handles
  <2>3. CASE j # current[d]
    BY <2>1, <2>3
  <2> QED BY <2>2, <2>3
<1>7. CASE SpawnFails(d) \/ IdentityNotWritten(d)
  <2>1. /\ Oldest(chosen[d]) \in chosen[d]
        /\ dispatchLock' = [dispatchLock EXCEPT ![Oldest(chosen[d])] = None]
    BY <1>7, OldestIsMember DEF SpawnFails, IdentityNotWritten, HandOK
  <2> QED BY <2>1 DEF HandlesInv, Handles
<1> QED
  BY <1>1, <1>2, <1>3, <1>4, <1>5, <1>6, <1>7
  DEF Tick, StartDaemon, SkipDisabledHarness, FindStaleHarnessLock, UnlinkHarnessLock,
      AcquireHarnessLock, HarnessLockBusy, FindStaleLease, UnlinkLease, AcquireLease,
      ReleaseHarnessLock, SpawnWorker, RegisterWorker, FinishHarness, files

\* What a daemon does to the jobs it answers for keeps their reservations.
LEMMA HandlesOwn ==
    ASSUME TypeInv, AliveInv, HandlesInv, PlaceInv, NEW d \in Daemons,
           StartDaemon(d) \/ Tick(d) \/ \E k \in Jobs : ReapWorker(d, k),
           NEW j \in Jobs, Open(j), Open(j)', Handles(d, j)'
    PROVE  dispatchLock'[j] = d
<1> USE DEF TypeInv, TypeOK, HandlesInv, Handles, InHand, Goto, TreeAlive, WorkerAlive
<1>1. CASE StartDaemon(d)
  BY <1>1 DEF StartDaemon, files
<1>2. ASSUME NEW k \in Jobs, ReapWorker(d, k)
      PROVE  dispatchLock'[j] = d
  BY <1>2 DEF ReapWorker, Open, Terminal
<1>3. CASE ScanQueue(d) \/ CountSlots(d)
  BY <1>3, LookedAt DEF ScanQueue, CountSlots
<1>4. CASE SkipDisabledHarness(d) \/ HarnessLockBusy(d) \/ FinishHarness(d)
  BY <1>4 DEF SkipDisabledHarness, HarnessLockBusy, FinishHarness, NextHarness, files
<1>5. CASE \/ FindStaleHarnessLock(d) \/ UnlinkHarnessLock(d)
           \/ AcquireHarnessLock(d) \/ ReleaseHarnessLock(d)
  BY <1>5
  DEF FindStaleHarnessLock, UnlinkHarnessLock, AcquireHarnessLock, ReleaseHarnessLock, files
<1>6. ASSUME NEW aged \in SUBSET Jobs, RecoverAbandonedJobs(d, aged)
      PROVE  dispatchLock'[j] = d
  BY <1>6 DEF RecoverAbandonedJobs, Open, Terminal
<1>7. CASE ReserveJob(d)
  BY <1>7 DEF ReserveJob
<1>8. CASE FindStaleLease(d) \/ UnlinkLease(d) \/ AcquireLease(d)
  BY <1>8 DEF FindStaleLease, UnlinkLease, AcquireLease, files
<1>9. CASE LeaseRefused(d)
  BY <1>9 DEF LeaseRefused, PlaceInv
<1>10. ASSUME SpawnWorker(d)
       PROVE  dispatchLock'[j] = d
  <2>1. PICK k \in chosen[d] : workerPc' = [workerPc EXCEPT ![<<d, k>>] = "boot"]
    BY <1>10, OldestIsMember DEF SpawnWorker
  <2>2. daemonPc'[d] = "identify" /\ UNCHANGED <<chosen, active, dispatchLock>>
    BY <1>10 DEF SpawnWorker, files
  <2>3. j # k => workerPc'[<<d, j>>] = workerPc[<<d, j>>]
    BY <2>1 DEF Workers
  <2> QED BY <2>1, <2>2, <2>3
<1>11. ASSUME RegisterWorker(d)
       PROVE  dispatchLock'[j] = d
  <2>1. PICK k \in chosen[d] : /\ active' = [active EXCEPT ![d] = @ \cup {k}]
                               /\ chosen' = [chosen EXCEPT ![d] = @ \ {k}]
    BY <1>11, OldestIsMember DEF RegisterWorker, HandOK
  <2>2. daemonPc'[d] = "spawn" /\ UNCHANGED <<workerPc, dispatchLock>>
    BY <1>11 DEF RegisterWorker
  <2> QED BY <2>1, <2>2
<1>12. ASSUME SpawnFails(d) \/ IdentityNotWritten(d)
       PROVE  dispatchLock'[j] = d
  <2>1. PICK k \in chosen[d] : /\ k = Oldest(chosen[d])
                               /\ dispatchLock' = [dispatchLock EXCEPT ![k] = None]
                               /\ chosen' = [chosen EXCEPT ![d] = @ \ {k}]
    BY <1>12, OldestIsMember DEF SpawnFails, IdentityNotWritten, HandOK
  <2>2. daemonPc'[d] = "spawn" /\ UNCHANGED active
    BY <1>12 DEF SpawnFails, IdentityNotWritten
  <2>3. \/ daemonPc[d] = "spawn" /\ UNCHANGED workerPc
        \/ Ends(<<d, k>>)
    BY <1>12, <2>1 DEF SpawnFails, IdentityNotWritten, TerminateTree, Ends
  <2>4. j # k => workerPc'[<<d, j>>] = workerPc[<<d, j>>]
    BY <2>1, <2>3 DEF Workers, Ends
  <2>5. ASSUME j = k PROVE FALSE
    <3>1. k \notin chosen'[d] /\ k \notin active'[d]
      BY <2>1, <2>2, <2>5 DEF PlaceInv
    <3>2. CASE daemonPc[d] = "spawn" /\ UNCHANGED workerPc
      <4>1. ~TreeAlive(<<d, k>>)
        BY <2>1, <2>5, <3>2 DEF PlaceInv
      <4> QED BY <2>2, <2>5, <3>1, <3>2, <4>1
    <3>3. CASE Ends(<<d, k>>)
      <4>1. ~TreeAlive(<<d, k>>)'
        BY <2>1, <3>3 DEF Workers, Ends, TreeAlive, WorkerAlive
      <4> QED BY <2>2, <2>5, <3>1, <4>1
    <3> QED BY <2>3, <3>2, <3>3
  <2> QED BY <2>1, <2>2, <2>4, <2>5
<1> QED BY <1>1, <1>2, <1>3, <1>4, <1>5, <1>6, <1>7, <1>8, <1>9, <1>10, <1>11, <1>12 DEF Tick

\* A worker ends or goes on: it never comes back.
LEMMA WorkersOnlyEnd ==
    ASSUME TypeInv, NEW w \in Workers, WorkerStep(w), NEW v \in Workers
    PROVE  /\ UNCHANGED <<dispatchLock, identity>>
           /\ TreeAlive(v)' => TreeAlive(v)
           /\ v # w => workerPc'[v] = workerPc[v]
BY DEF TypeInv, TypeOK, TreeAlive, WorkerAlive, WorkerGoto, files,
       WorkerStep, Work, CreateWorkerLock, WriteWorkerPid, ReadStatus, WriteRunning,
       WriteProgress, WriteResult, WrapperError, ReleaseJobLock, CrashWorker, OrphanEnds

\* A submission or a cancellation touches no daemon, lock or worker.
LEMMA ControlFrame ==
    ASSUME NEW k \in Jobs, ControlStep(k)
    PROVE  UNCHANGED <<dispatchLock, identity, workerPc, workerLock, pidWritten>>
BY DEF ControlStep, StartTask, CheckCancel, WriteCancelled, files

LEMMA HandlesStep ==
    ASSUME TypeInv, AliveInv, HandlesInv, PlaceInv, RecordInv, Next, NoDaemonEnded'
    PROVE  HandlesInv'
<1> SUFFICES ASSUME NEW e \in Daemons, NEW j \in Jobs, Open(j)', Handles(e, j)'
             PROVE  dispatchLock'[j] = e
  BY DEF HandlesInv
<1>1. Open(j) /\ <<e, j>> \in Workers
  BY OpenBefore DEF Workers
<1>2. ASSUME NEW d \in Daemons, DaemonStep(d)
      PROVE  dispatchLock'[j] = e
  <2>1. StartDaemon(d) \/ Tick(d) \/ \E k \in Jobs : ReapWorker(d, k)
    BY <1>2, NoneEnds
  <2>2. CASE e = d
    BY <1>1, <2>1, <2>2, HandlesOwn
  <2>3. CASE e # d
    <3>1. Untouched(e)
      BY <2>1, <2>3, OtherDaemons
    <3>2. Handles(e, j)
      BY <3>1 DEF Untouched, Handles, InHand, TreeAlive, WorkerAlive
    <3>3. dispatchLock[j] = e
      BY <1>1, <3>2 DEF HandlesInv
    <3> QED BY <1>1, <2>1, <2>3, <3>3, OwnReservation, StateAssumption
  <2> QED BY <2>2, <2>3
<1>3. ASSUME NEW w \in Workers, WorkerStep(w), UNCHANGED daemonVars
      PROVE  dispatchLock'[j] = e
  <2>1. Handles(e, j)
    BY <1>1, <1>3, WorkersOnlyEnd DEF Handles, InHand, daemonVars
  <2> QED BY <1>1, <1>3, <2>1, WorkersOnlyEnd DEF HandlesInv
<1>4. ASSUME NEW k \in Jobs, ControlStep(k), UNCHANGED daemonVars
      PROVE  dispatchLock'[j] = e
  <2>1. Handles(e, j)
    BY <1>4, ControlFrame DEF Handles, InHand, daemonVars, TreeAlive, WorkerAlive
  <2> QED BY <1>1, <1>4, <2>1, ControlFrame DEF HandlesInv
<1> QED BY <1>2, <1>3, <1>4 DEF Next

\* A daemon that takes a step of its own goes on running.
LEMMA StillRuns ==
    ASSUME TypeInv, AliveInv, NEW d \in Daemons,
           StartDaemon(d) \/ Tick(d) \/ \E k \in Jobs : ReapWorker(d, k)
    PROVE  daemonPc'[d] \notin {"off", "stopping", "dead"}
<1>1. d \in DOMAIN daemonPc
  BY DEF TypeInv, TypeOK
<1>2. CASE StartDaemon(d)
  BY <1>1, <1>2 DEF StartDaemon, Goto
<1>3. CASE ScanQueue(d) \/ \E k \in Jobs : ReapWorker(d, k)
  BY <1>1, <1>3 DEF ScanQueue, ReapWorker, AliveInv, Goto
<1>4. CASE SkipDisabledHarness(d) \/ HarnessLockBusy(d) \/ FinishHarness(d)
  BY <1>1, <1>4 DEF SkipDisabledHarness, HarnessLockBusy, FinishHarness, NextHarness, Goto
<1>5. CASE FindStaleHarnessLock(d) \/ UnlinkHarnessLock(d) \/ AcquireHarnessLock(d)
           \/ ReleaseHarnessLock(d) \/ CountSlots(d)
           \/ \E aged \in SUBSET Jobs : RecoverAbandonedJobs(d, aged)
  BY <1>1, <1>5 DEF FindStaleHarnessLock, UnlinkHarnessLock, AcquireHarnessLock,
     ReleaseHarnessLock, CountSlots, RecoverAbandonedJobs, Goto
<1>6. CASE ReserveJob(d) \/ FindStaleLease(d) \/ UnlinkLease(d) \/ AcquireLease(d)
           \/ LeaseRefused(d)
  BY <1>1, <1>6
  DEF ReserveJob, FindStaleLease, UnlinkLease, AcquireLease, LeaseRefused, Goto
<1>7. CASE SpawnWorker(d) \/ RegisterWorker(d) \/ IdentityNotWritten(d) \/ SpawnFails(d)
  BY <1>1, <1>7 DEF SpawnWorker, RegisterWorker, IdentityNotWritten, SpawnFails, Goto
<1> QED BY <1>2, <1>3, <1>4, <1>5, <1>6, <1>7 DEF Tick

LEMMA AliveStep ==
    ASSUME TypeInv, AliveInv, Next, NoDaemonEnded'
    PROVE  AliveInv'
<1> USE DEF TypeInv, TypeOK, AliveInv, DaemonAlive, Goto
<1>1. ASSUME NEW d \in Daemons, DaemonStep(d)
      PROVE  AliveInv'
  <2>1. StartDaemon(d) \/ Tick(d) \/ \E k \in Jobs : ReapWorker(d, k)
    BY <1>1, NoneEnds
  <2>2. daemonPc'[d] \notin {"off", "stopping", "dead"}
    BY <2>1, StillRuns
  <2>3. \A j \in Jobs : dispatchLock'[j] \in {dispatchLock[j], d, None}
    <3>1. CASE UNCHANGED dispatchLock
      BY <3>1
    <3>2. CASE \E k \in Jobs : dispatchLock' \in {[dispatchLock EXCEPT ![k] = None],
                                                  [dispatchLock EXCEPT ![k] = d]}
      BY <3>2
    <3>3. CASE \E S : dispatchLock' = DispatchLocksAfterLookingAt(S)
      BY <3>3 DEF DispatchLocksAfterLookingAt
    <3>4. CASE \E aged \in SUBSET Jobs : RecoverAbandonedJobs(d, aged)
      BY <3>4 DEF RecoverAbandonedJobs
    <3>5. ReserveJob(d) => Oldest(Candidates(d)) \in Jobs
      BY NextCandidate
    <3>6. chosen[d] # {} => Oldest(chosen[d]) \in Jobs
      BY OldestIsMember
    <3> QED
      BY <2>1, <3>1, <3>2, <3>3, <3>4, <3>5, <3>6
      DEF StartDaemon, ReapWorker, Tick, ScanQueue, SkipDisabledHarness,
        FindStaleHarnessLock, UnlinkHarnessLock, AcquireHarnessLock, HarnessLockBusy,
        CountSlots, ReserveJob, FindStaleLease, UnlinkLease,
        AcquireLease, LeaseRefused, ReleaseHarnessLock, SpawnWorker, RegisterWorker,
        IdentityNotWritten, SpawnFails, FinishHarness, files, HandOK
  <2>4. \A e \in Daemons : daemonPc'[e] = daemonPc[e] \/ e = d
    BY <2>1, OtherDaemons DEF Untouched
  <2> QED BY <2>2, <2>3, <2>4
<1>2. ASSUME NEW w \in Workers, WorkerStep(w), UNCHANGED daemonVars
      PROVE  AliveInv'
  BY <1>2, WorkersOnlyEnd DEF daemonVars
<1>3. ASSUME NEW k \in Jobs, ControlStep(k), UNCHANGED daemonVars
      PROVE  AliveInv'
  BY <1>3, ControlFrame DEF daemonVars
<1> QED BY <1>1, <1>2, <1>3 DEF Next

LEMMA IdentityStep ==
    ASSUME TypeInv, AliveInv, IdentityInv, RecordInv, Next, NoDaemonEnded'
    PROVE  IdentityInv'
<1> SUFFICES ASSUME NEW j \in Jobs, Open(j)', identity'[j] # None
             PROVE  \E d \in Daemons : identity'[j] = <<d, j>> /\ j \in active'[d]
  BY DEF IdentityInv
<1>1. Open(j)
  BY OpenBefore
<1>3. ASSUME NEW d \in Daemons, DaemonStep(d)
      PROVE  \E e \in Daemons : identity'[j] = <<e, j>> /\ j \in active'[e]
  <2>1. StartDaemon(d) \/ Tick(d) \/ \E k \in Jobs : ReapWorker(d, k)
    BY <1>3, NoneEnds
  <2>2. ASSUME NEW k \in Jobs, ReapWorker(d, k)
        PROVE  UNCHANGED identity /\ \A e \in Daemons : j \in active[e] => j \in active'[e]
    BY <2>2 DEF ReapWorker, Open, Terminal, TypeInv, TypeOK
  <2>3. CASE RegisterWorker(d)
    <3>1. PICK k \in Jobs : /\ identity' \in {identity, [identity EXCEPT ![k] = <<d, k>>]}
                            /\ active' = [active EXCEPT ![d] = @ \cup {k}]
      BY <2>3, OldestIsMember DEF RegisterWorker, TypeInv, TypeOK, HandOK
    <3> QED BY <1>1, <3>1 DEF IdentityInv, TypeInv, TypeOK
  <2>4. CASE UNCHANGED <<identity, active>>
    BY <1>1, <2>4 DEF IdentityInv
  <2> QED
    BY <1>1, <2>1, <2>2, <2>3, <2>4
    DEF StartDaemon, Tick, ScanQueue, SkipDisabledHarness, FindStaleHarnessLock,
        UnlinkHarnessLock, AcquireHarnessLock, HarnessLockBusy,
        RecoverAbandonedJobs, CountSlots, ReserveJob, FindStaleLease, UnlinkLease,
        AcquireLease, LeaseRefused, ReleaseHarnessLock, SpawnWorker,
        IdentityNotWritten, SpawnFails, FinishHarness, files, IdentityInv
<1>4. ASSUME NEW w \in Workers, WorkerStep(w), UNCHANGED daemonVars
      PROVE  \E e \in Daemons : identity'[j] = <<e, j>> /\ j \in active'[e]
  BY <1>1, <1>4, WorkersOnlyEnd DEF daemonVars, IdentityInv
<1>5. ASSUME NEW k \in Jobs, ControlStep(k), UNCHANGED daemonVars
      PROVE  \E e \in Daemons : identity'[j] = <<e, j>> /\ j \in active'[e]
  BY <1>1, <1>5, ControlFrame DEF daemonVars, IdentityInv
<1> QED BY <1>3, <1>4, <1>5 DEF Next

\* Two daemons never answer for one job.
LEMMA SoleHandler ==
    ASSUME HandlesInv, NEW j \in Jobs, Open(j),
           NEW d \in Daemons, NEW e \in Daemons, Handles(d, j), Handles(e, j)
    PROVE  d = e
BY DEF HandlesInv

LEMMA SoleWorker ==
    ASSUME HandlesInv, NEW v \in Workers, NEW w \in Workers, v[2] = w[2], Open(w[2]),
           TreeAlive(v), TreeAlive(w)
    PROVE  v = w
<1>1. /\ v[1] \in Daemons /\ w[1] \in Daemons /\ w[2] \in Jobs
      /\ v = <<v[1], w[2]>> /\ w = <<w[1], w[2]>>
  BY DEF Workers
<1> QED BY <1>1, SoleHandler DEF Handles

LEMMA NextChosen ==
    ASSUME TypeInv, NEW d \in Daemons,
           SpawnWorker(d) \/ RegisterWorker(d) \/ SpawnFails(d) \/ IdentityNotWritten(d)
    PROVE  Oldest(chosen[d]) \in chosen[d] \cap Jobs
BY OldestIsMember
DEF SpawnWorker, RegisterWorker, SpawnFails, IdentityNotWritten, TypeInv, TypeOK, HandOK

\* What PlaceInv says of one daemon and one job.
Placed(d, j) ==
    /\ InHand(d, j) => j \notin chosen[d] \cup active[d] /\ ~TreeAlive(<<d, j>>)
    /\ j \in chosen[d] => j \notin active[d]
    /\ j \in chosen[d] /\ TreeAlive(<<d, j>>) =>
          daemonPc[d] = "identify" /\ j = Oldest(chosen[d])

LEMMA PlaceOwn ==
    ASSUME TypeInv, AliveInv, HandlesInv, NEW d \in Daemons,
           StartDaemon(d) \/ Tick(d) \/ \E k \in Jobs : ReapWorker(d, k),
           NEW j \in Jobs, Open(j), Open(j)', Placed(d, j)
    PROVE  Placed(d, j)'
<1> USE DEF TypeInv, TypeOK, Placed, InHand, Goto, TreeAlive, WorkerAlive
<1>1. CASE StartDaemon(d)
  BY <1>1 DEF StartDaemon, files
<1>2. ASSUME NEW k \in Jobs, ReapWorker(d, k)
      PROVE  Placed(d, j)'
  BY <1>2 DEF ReapWorker, Open, Terminal
<1>3. CASE ScanQueue(d) \/ CountSlots(d)
  BY <1>3 DEF ScanQueue, CountSlots
<1>4. CASE SkipDisabledHarness(d) \/ HarnessLockBusy(d) \/ FinishHarness(d)
  BY <1>4 DEF SkipDisabledHarness, HarnessLockBusy, FinishHarness, NextHarness, files
<1>5. CASE \/ FindStaleHarnessLock(d) \/ UnlinkHarnessLock(d)
           \/ AcquireHarnessLock(d) \/ ReleaseHarnessLock(d)
  BY <1>5
  DEF FindStaleHarnessLock, UnlinkHarnessLock, AcquireHarnessLock, ReleaseHarnessLock, files
<1>6. ASSUME NEW aged \in SUBSET Jobs, RecoverAbandonedJobs(d, aged)
      PROVE  Placed(d, j)'
  BY <1>6 DEF RecoverAbandonedJobs
<1>7. CASE ReserveJob(d)
  <2>1. /\ daemonPc[d] = "reserve" /\ UNCHANGED <<chosen, active, workerPc>>
        /\ \/ UNCHANGED <<current, daemonPc>>
           \/ /\ ~IsDispatchLocked(Oldest(Candidates(d)))
              /\ current' = [current EXCEPT ![d] = Oldest(Candidates(d))]
              /\ daemonPc' = [daemonPc EXCEPT ![d] = "lease"]
    BY <1>7 DEF ReserveJob
  <2>2. ~IsDispatchLocked(j) => ~Handles(d, j)
    BY OpenIsLocked, StateAssumption DEF HandlesInv
  <2>3. CASE UNCHANGED <<current, daemonPc>>
    BY <2>1, <2>3
  <2>4. CASE /\ ~IsDispatchLocked(Oldest(Candidates(d)))
             /\ current' = [current EXCEPT ![d] = Oldest(Candidates(d))]
             /\ daemonPc' = [daemonPc EXCEPT ![d] = "lease"]
    BY <2>1, <2>2, <2>4 DEF Handles
  <2> QED BY <2>1, <2>3, <2>4
<1>8. CASE FindStaleLease(d) \/ UnlinkLease(d)
  BY <1>8 DEF FindStaleLease, UnlinkLease, files
<1>9. CASE AcquireLease(d)
  <2>1. /\ InHand(d, current[d]) /\ UNCHANGED <<active, workerPc>>
        /\ chosen' = [chosen EXCEPT ![d] = @ \cup {current[d]}]
        /\ daemonPc'[d] = "reserve"
    BY <1>9 DEF AcquireLease
  <2> QED BY <2>1
<1>13. CASE LeaseRefused(d)
  BY <1>13 DEF LeaseRefused
<1>10. CASE SpawnWorker(d)
  <2>1. PICK k \in chosen[d] : /\ k = Oldest(chosen[d])
                               /\ workerPc' = [workerPc EXCEPT ![<<d, k>>] = "boot"]
    BY <1>10, NextChosen DEF SpawnWorker
  <2>2. /\ daemonPc[d] = "spawn" /\ daemonPc'[d] = "identify"
        /\ UNCHANGED <<chosen, active, current>>
    BY <1>10 DEF SpawnWorker, files
  <2>3. j # k => workerPc'[<<d, j>>] = workerPc[<<d, j>>]
    BY <2>1 DEF Workers
  <2> QED BY <2>1, <2>2, <2>3
<1>11. CASE RegisterWorker(d)
  <2>1. PICK k \in chosen[d] : /\ k = Oldest(chosen[d])
                               /\ active' = [active EXCEPT ![d] = @ \cup {k}]
                               /\ chosen' = [chosen EXCEPT ![d] = @ \ {k}]
    BY <1>11, NextChosen DEF RegisterWorker
  <2>2. daemonPc'[d] = "spawn" /\ UNCHANGED <<workerPc, current>>
    BY <1>11 DEF RegisterWorker
  <2> QED BY <2>1, <2>2
<1>12. CASE SpawnFails(d) \/ IdentityNotWritten(d)
  <2>1. PICK k \in chosen[d] : /\ k = Oldest(chosen[d])
                               /\ chosen' = [chosen EXCEPT ![d] = @ \ {k}]
    BY <1>12, NextChosen DEF SpawnFails, IdentityNotWritten
  <2>2. /\ daemonPc[d] \in {"spawn", "identify"} /\ daemonPc'[d] = "spawn"
        /\ UNCHANGED <<active, current>>
    BY <1>12 DEF SpawnFails, IdentityNotWritten
  <2>3. \/ UNCHANGED workerPc
        \/ Ends(<<d, k>>)
    BY <1>12, <2>1 DEF SpawnFails, IdentityNotWritten, TerminateTree, Ends
  <2>4. j # k => workerPc'[<<d, j>>] = workerPc[<<d, j>>]
    BY <2>1, <2>3 DEF Workers, Ends
  <2> QED BY <2>1, <2>2, <2>4
<1> QED BY <1>1, <1>2, <1>3, <1>4, <1>5, <1>6, <1>7, <1>8, <1>9, <1>10, <1>11, <1>12, <1>13
    DEF Tick

LEMMA PlaceStep ==
    ASSUME TypeInv, AliveInv, HandlesInv, PlaceInv, RecordInv, Next, NoDaemonEnded'
    PROVE  PlaceInv'
<1> SUFFICES ASSUME NEW e \in Daemons, NEW j \in Jobs, Open(j)'
             PROVE  Placed(e, j)'
  BY DEF PlaceInv, Placed
<1>1. Open(j) /\ Placed(e, j) /\ <<e, j>> \in Workers
  BY OpenBefore DEF Workers, PlaceInv, Placed
<1>2. ASSUME NEW d \in Daemons, DaemonStep(d)
      PROVE  Placed(e, j)'
  <2>1. StartDaemon(d) \/ Tick(d) \/ \E k \in Jobs : ReapWorker(d, k)
    BY <1>2, NoneEnds
  <2>2. CASE e = d
    BY <1>1, <2>1, <2>2, PlaceOwn
  <2>3. CASE e # d
    BY <1>1, <2>1, <2>3, OtherDaemons
    DEF Untouched, Placed, InHand, TreeAlive, WorkerAlive
  <2> QED BY <2>2, <2>3
<1>3. ASSUME NEW w \in Workers, WorkerStep(w), UNCHANGED daemonVars
      PROVE  Placed(e, j)'
  BY <1>1, <1>3, WorkersOnlyEnd DEF Placed, InHand, daemonVars
<1>4. ASSUME NEW k \in Jobs, ControlStep(k), UNCHANGED daemonVars
      PROVE  Placed(e, j)'
  BY <1>1, <1>4, ControlFrame DEF Placed, InHand, daemonVars, TreeAlive, WorkerAlive
<1> QED BY <1>2, <1>3, <1>4 DEF Next

\* What a step of a daemon does to a worker: start it, or end it.
LEMMA DaemonsStartAndEnd ==
    ASSUME TypeInv, NEW d \in Daemons,
           StartDaemon(d) \/ Tick(d) \/ \E k \in Jobs : ReapWorker(d, k),
           NEW w \in Workers
    PROVE  \/ workerPc'[w] = workerPc[w]
           \/ workerPc'[w] \in {"boot", "gone"}
           \/ workerPc'[w] = "orphan" /\ ~TreeCovers
<1> USE DEF TypeInv, TypeOK
<1>1. CASE UNCHANGED workerPc
  BY <1>1
<1>2. CASE \E v : workerPc' = [workerPc EXCEPT ![v] = "boot"]
  BY <1>2
<1>3. CASE \E v : Ends(v)
  BY <1>3 DEF Ends
<1> QED
  BY <1>1, <1>2, <1>3
  DEF StartDaemon, ReapWorker, Tick, ScanQueue, SkipDisabledHarness, FindStaleHarnessLock,
      UnlinkHarnessLock, AcquireHarnessLock, HarnessLockBusy, RecoverAbandonedJobs,
      CountSlots, ReserveJob, FindStaleLease, UnlinkLease, AcquireLease, LeaseRefused,
      ReleaseHarnessLock, SpawnWorker, RegisterWorker, IdentityNotWritten, SpawnFails,
      TerminateTree, Ends, FinishHarness

\* A child whose identity cannot be written is the only worker its parent ends.
LEMMA EndedByParent ==
    ASSUME TypeInv, HandlesInv, NEW d \in Daemons, IdentityNotWritten(d),
           NEW w \in Workers, Open(w[2]), TreeAlive(w), workerPc'[w] = workerPc[w]
    PROVE  /\ status'[w[2]] = status[w[2]]
           /\ workerLock'[w[2]] = workerLock[w[2]]
           /\ pidWritten'[w[2]] = pidWritten[w[2]]
<1>1. /\ w[1] \in Daemons /\ w[2] \in Jobs /\ w = <<w[1], w[2]>>
  BY DEF Workers
<1>2. PICK k \in chosen[d] \cap Jobs : TerminateTree(d, k)
  BY NextChosen DEF IdentityNotWritten
<1>3. CASE k = w[2]
  <2>1. w = <<d, k>>
    <3>1. Handles(w[1], k) /\ Handles(d, k)
      BY <1>1, <1>2, <1>3 DEF Handles
    <3> QED BY <1>1, <1>3, <3>1, SoleHandler
  <2>2. workerPc'[w] # workerPc[w]
    BY <1>2, <2>1 DEF TerminateTree, TreeAlive, WorkerAlive, TypeInv, TypeOK
  <2> QED BY <2>2
<1>4. CASE k # w[2]
  <2>1. status' = status \/ status' = [status EXCEPT ![k] = "failed"]
    BY <1>2 DEF TerminateTree
  <2>2. workerLock' = workerLock \/ workerLock' = [workerLock EXCEPT ![k] = None]
    BY <1>2 DEF TerminateTree
  <2>3. pidWritten' = pidWritten \/ pidWritten' = [pidWritten EXCEPT ![k] = FALSE]
    BY <1>2 DEF TerminateTree
  <2>4. status'[w[2]] = status[w[2]]
    BY <1>1, <1>4, <2>1 DEF TypeInv, TypeOK
  <2>5. workerLock'[w[2]] = workerLock[w[2]]
    BY <1>1, <1>4, <2>2 DEF TypeInv, TypeOK
  <2>6. pidWritten'[w[2]] = pidWritten[w[2]]
    BY <1>1, <1>4, <2>3 DEF TypeInv, TypeOK
  <2> QED BY <2>4, <2>5, <2>6
<1> QED BY <1>3, <1>4

\* A worker that takes a step is alive, so it is the only one of an open job.
LEMMA OtherWorkerSteps ==
    ASSUME TypeInv, HandlesInv, NEW v \in Workers, WorkerStep(v),
           NEW w \in Workers, v # w, Open(w[2]), TreeAlive(w)
    PROVE  /\ status'[w[2]] = status[w[2]]
           /\ recordedPid'[w[2]] = recordedPid[w[2]]
           /\ workerLock'[w[2]] = workerLock[w[2]]
           /\ pidWritten'[w[2]] = pidWritten[w[2]]
<1> SUFFICES ASSUME ~UNCHANGED files
             PROVE  /\ status'[w[2]] = status[w[2]]
                    /\ recordedPid'[w[2]] = recordedPid[w[2]]
                    /\ workerLock'[w[2]] = workerLock[w[2]]
                    /\ pidWritten'[w[2]] = pidWritten[w[2]]
  BY DEF files
<1>1. TreeAlive(v)
  BY DEF TreeAlive, WorkerAlive, WorkerStep, Work, CreateWorkerLock, WriteWorkerPid,
      ReadStatus, WriteRunning, WriteProgress, WriteResult, WrapperError, ReleaseJobLock,
      CrashWorker, OrphanEnds
<1>2. v[2] # w[2] /\ v[2] \in Jobs /\ w[2] \in Jobs
  BY <1>1, SoleWorker DEF Workers
<1>3. /\ status'[w[2]] = status[w[2]]
      /\ recordedPid'[w[2]] = recordedPid[w[2]]
      /\ workerLock'[w[2]] = workerLock[w[2]]
  BY <1>2
  DEF WorkerStep, Work, CreateWorkerLock, WriteWorkerPid, ReadStatus, WriteRunning,
      WriteProgress, WriteResult, WrapperError, ReleaseJobLock, CrashWorker, OrphanEnds,
      files, TypeInv, TypeOK
<1>4. \/ UNCHANGED pidWritten
      \/ \E b \in BOOLEAN : pidWritten' = [pidWritten EXCEPT ![v[2]] = b]
  <2>1. ASSUME WriteWorkerPid(v)
        PROVE  \E b \in BOOLEAN : pidWritten' = [pidWritten EXCEPT ![v[2]] = b]
    BY <2>1 DEF WriteWorkerPid
  <2> QED
    BY <2>1
    DEF WorkerStep, Work, CreateWorkerLock, ReadStatus, WriteRunning,
      WriteProgress, WriteResult, WrapperError, ReleaseJobLock, CrashWorker, OrphanEnds,
      files
<1>5. pidWritten'[w[2]] = pidWritten[w[2]]
  BY <1>2, <1>4 DEF TypeInv, TypeOK
<1> QED BY <1>3, <1>5

\* What ClaimedInv says of one worker.
Claimed(w) ==
    /\ workerPc[w] \in {"locked", "claimed", "read"} => workerLock[w[2]] = w
    /\ workerPc[w] \in {"claimed", "read"} => pidWritten[w[2]]

LEMMA ClaimedStep ==
    ASSUME TypeInv, AliveInv, HandlesInv, ClaimedInv, RecordInv, Next, NoDaemonEnded'
    PROVE  ClaimedInv'
<1> SUFFICES ASSUME NEW w \in Workers, Open(w[2])'
             PROVE  Claimed(w)'
  BY DEF ClaimedInv, Claimed
<1> DEFINE j == w[2]
<1>1. j \in Jobs /\ Open(j) /\ Claimed(w)
  <2>1. j \in Jobs
    BY DEF Workers
  <2> QED BY <2>1, OpenBefore DEF ClaimedInv, Claimed
<1>2. ASSUME NEW d \in Daemons, DaemonStep(d)
      PROVE  Claimed(w)'
  <2>1. StartDaemon(d) \/ Tick(d) \/ \E k \in Jobs : ReapWorker(d, k)
    BY <1>2, NoneEnds
  <2> SUFFICES ASSUME workerPc'[w] \in {"locked", "claimed", "read"}
               PROVE  Claimed(w)'
    BY DEF Claimed
  <2>2. workerPc'[w] = workerPc[w] /\ TreeAlive(w)
    BY <2>1, DaemonsStartAndEnd DEF TreeAlive, WorkerAlive
  <2>3. CASE workerLock'[j] = workerLock[j] /\ pidWritten'[j] = pidWritten[j]
    BY <1>1, <2>2, <2>3 DEF Claimed
  <2>4. ASSUME NEW aged \in SUBSET Jobs, RecoverAbandonedJobs(d, aged)
        PROVE  workerLock'[j] = workerLock[j] /\ pidWritten'[j] = pidWritten[j]
    <3>1. j \notin Abandoned(HarnessAt(d)) \cap aged
      BY <1>1, <2>4 DEF RecoverAbandonedJobs, Open, Terminal
    <3>2. workerLock'[j] = workerLock[j]
      BY <1>1, <2>4, <3>1 DEF RecoverAbandonedJobs
    <3>3. pidWritten'[j] = (pidWritten[j] /\ j \notin Abandoned(HarnessAt(d)) \cap aged)
      BY <1>1, <2>4 DEF RecoverAbandonedJobs
    <3>4. pidWritten[j] \in BOOLEAN
      BY <1>1 DEF TypeInv, TypeOK
    <3> QED BY <3>1, <3>2, <3>3, <3>4
  <2>5. CASE IdentityNotWritten(d)
    BY <1>1, <2>2, <2>3, <2>5, EndedByParent
  <2> QED
    BY <2>1, <2>3, <2>4, <2>5
    DEF StartDaemon, ReapWorker, Tick, ScanQueue, SkipDisabledHarness,
        FindStaleHarnessLock, UnlinkHarnessLock, AcquireHarnessLock, HarnessLockBusy,
        CountSlots, ReserveJob, FindStaleLease, UnlinkLease, AcquireLease, LeaseRefused,
        ReleaseHarnessLock, SpawnWorker, RegisterWorker, SpawnFails, FinishHarness, files
<1>3. ASSUME NEW v \in Workers, WorkerStep(v)
      PROVE  Claimed(w)'
  <2>1. CASE v # w
    <3>1. workerPc'[w] = workerPc[w]
      BY <1>3, <2>1, WorkersOnlyEnd
    <3>2. CASE TreeAlive(w)
      BY <1>1, <1>3, <2>1, <3>1, <3>2, OtherWorkerSteps DEF Claimed
    <3>3. CASE ~TreeAlive(w)
      BY <3>1, <3>3 DEF Claimed, TreeAlive, WorkerAlive
    <3> QED BY <3>2, <3>3
  <2>2. CASE v = w
    <3> USE <1>1, <1>3, <2>2 DEF Claimed, TypeInv, TypeOK, WorkerGoto
    <3>1. CASE CreateWorkerLock(w)
      BY <3>1 DEF CreateWorkerLock
    <3>2. CASE WriteWorkerPid(w)
      <4>1. workerLock'[j] = w /\ pidWritten'[j]
        BY <3>2 DEF WriteWorkerPid
      <4> QED BY <4>1
    <3>3. CASE ReadStatus(w)
      BY <3>3 DEF ReadStatus, files
    <3> QED
      BY <3>1, <3>2, <3>3
      DEF WorkerStep, Work, WriteRunning, WriteProgress, WriteResult, WrapperError,
          ReleaseJobLock, CrashWorker, OrphanEnds, files
  <2> QED BY <2>1, <2>2
<1>4. ASSUME NEW k \in Jobs, ControlStep(k)
      PROVE  Claimed(w)'
  BY <1>1, <1>4, ControlFrame DEF Claimed
<1> QED BY <1>2, <1>3, <1>4 DEF Next

\* What RecordInv says of one worker.
Recorded(w) ==
    cancel[w[2]] # "cancelled" =>
        /\ workerPc[w] = "read" => status[w[2]] = "queued"
        /\ InSight(w) => status[w[2]] = "running" /\ recordedPid[w[2]] = w

\* Neither recovery nor reaping takes the job of a worker at work for one that
\* nobody works on.
LEMMA AtWorkIsSeen ==
    ASSUME TypeInv, HandlesInv, IdentityInv, ClaimedInv,
           NEW w \in Workers, Open(w[2]), Recorded(w),
           workerPc[w] = "read" \/ InSight(w)
    PROVE  /\ \A h \in Harnesses : w[2] \notin Abandoned(h)
           /\ \A d \in Daemons : w[2] \in active[d] => TreeAlive(<<d, w[2]>>)
<1>1. /\ w[1] \in Daemons /\ w[2] \in Jobs /\ w = <<w[1], w[2]>>
      /\ w # None
  BY StateAssumption DEF Workers
<1>2. cancel[w[2]] # "cancelled" /\ TreeAlive(w)
  BY DEF Open, TreeAlive, WorkerAlive, InSight, Executing
<1>3. w \in JobOwners(w[2])
  <2>1. CASE workerPc[w] = "read"
    BY <1>1, <2>1 DEF ClaimedInv, JobOwners, WorkerLockPid
  <2>2. CASE InSight(w)
    BY <1>1, <1>2, <2>2 DEF Recorded, JobOwners
  <2> QED BY <2>1, <2>2
<1>4. JobTreeAlive(w[2])
  <2>1. CASE identity[w[2]] = None
    BY <1>2, <1>3, <2>1 DEF JobTreeAlive
  <2>2. CASE identity[w[2]] # None
    <3>1. PICK e \in Daemons : identity[w[2]] = <<e, w[2]>> /\ w[2] \in active[e]
      BY <1>1, <2>2 DEF IdentityInv
    <3>2. e = w[1]
      BY <1>1, <1>2, <3>1, SoleHandler DEF Handles
    <3> QED BY <1>1, <1>2, <2>2, <3>1, <3>2 DEF JobTreeAlive
  <2> QED BY <2>1, <2>2
<1>5. \A d \in Daemons : w[2] \in active[d] => d = w[1]
  BY <1>1, <1>2, SoleHandler DEF Handles
<1> QED BY <1>1, <1>2, <1>4, <1>5 DEF Abandoned

\* The steps of a daemon leave the record of a worker at work as it is.
LEMMA RecordKept ==
    ASSUME TypeInv, AliveInv, HandlesInv, IdentityInv, ClaimedInv, NEW d \in Daemons,
           StartDaemon(d) \/ Tick(d) \/ \E k \in Jobs : ReapWorker(d, k),
           NEW w \in Workers, Open(w[2]), Recorded(w), workerPc'[w] = workerPc[w],
           workerPc[w] = "read" \/ InSight(w)
    PROVE  status'[w[2]] = status[w[2]] /\ recordedPid'[w[2]] = recordedPid[w[2]]
<1>1. w[2] \in Jobs /\ TreeAlive(w) /\ HarnessAt(d) \in Harnesses
  BY DaemonAssumption
  DEF Workers, TreeAlive, WorkerAlive, InSight, Executing, HarnessAt, TypeInv, TypeOK
<1>2. CASE UNCHANGED <<status, recordedPid>>
  BY <1>2
<1>3. ASSUME NEW k \in Jobs, ReapWorker(d, k)
      PROVE  status'[w[2]] = status[w[2]] /\ recordedPid'[w[2]] = recordedPid[w[2]]
  <2>1. k # w[2]
    BY <1>3, AtWorkIsSeen DEF ReapWorker
  <2> QED BY <1>1, <1>3, <2>1 DEF ReapWorker, TypeInv, TypeOK
<1>4. ASSUME NEW aged \in SUBSET Jobs, RecoverAbandonedJobs(d, aged)
      PROVE  status'[w[2]] = status[w[2]] /\ recordedPid'[w[2]] = recordedPid[w[2]]
  BY <1>1, <1>4, AtWorkIsSeen DEF RecoverAbandonedJobs
<1>5. CASE IdentityNotWritten(d)
  BY <1>1, <1>5, EndedByParent DEF IdentityNotWritten
<1> QED
  BY <1>2, <1>3, <1>4, <1>5
  DEF StartDaemon, Tick, ScanQueue, SkipDisabledHarness, FindStaleHarnessLock,
      UnlinkHarnessLock, AcquireHarnessLock, HarnessLockBusy, CountSlots, ReserveJob,
      FindStaleLease, UnlinkLease, AcquireLease, LeaseRefused, ReleaseHarnessLock,
      SpawnWorker, RegisterWorker, SpawnFails, FinishHarness, files

LEMMA RecordStep ==
    ASSUME TypeInv, AliveInv, HandlesInv, IdentityInv, ClaimedInv, RecordInv, Next,
           NoDaemonEnded'
    PROVE  RecordInv'
<1> SUFFICES ASSUME NEW w \in Workers, cancel'[w[2]] # "cancelled",
                    workerPc'[w] = "read" \/ InSight(w)'
             PROVE  Recorded(w)'
  BY DEF RecordInv, Recorded
<1>1. w[2] \in Jobs /\ cancel[w[2]] # "cancelled" /\ Recorded(w)
  <2>1. w[2] \in Jobs
    BY DEF Workers
  <2>2. cancel[w[2]] # "cancelled"
    BY <2>1 DEF Next, ControlStep, StartTask, CheckCancel, WriteCancelled, TypeInv, TypeOK
  <2> QED BY <2>1, <2>2 DEF RecordInv, Recorded
<1>2. ASSUME workerPc[w] = "read" \/ InSight(w)
      PROVE  Open(w[2]) /\ TreeAlive(w)
  BY <1>1, <1>2 DEF Recorded, Open, Terminal, TreeAlive, WorkerAlive, InSight, Executing
<1>3. ASSUME NEW d \in Daemons, DaemonStep(d)
      PROVE  Recorded(w)'
  <2>1. StartDaemon(d) \/ Tick(d) \/ \E k \in Jobs : ReapWorker(d, k)
    BY <1>3, NoneEnds
  <2>2. workerPc'[w] = workerPc[w]
    BY <2>1, DaemonsStartAndEnd DEF InSight, Executing, TreeAlive, WorkerAlive
  <2> QED BY <1>1, <1>2, <2>1, <2>2, RecordKept
      DEF Recorded, InSight, Executing, TreeAlive, WorkerAlive
<1>4. ASSUME NEW v \in Workers, WorkerStep(v)
      PROVE  Recorded(w)'
  <2>1. CASE v # w
    <3>1. workerPc'[w] = workerPc[w]
      BY <1>4, <2>1, WorkersOnlyEnd
    <3> QED BY <1>1, <1>2, <1>4, <2>1, <3>1, OtherWorkerSteps
        DEF Recorded, InSight, Executing, TreeAlive, WorkerAlive
  <2>2. CASE v = w
    BY <1>1, <1>4, <2>2
   
    DEF Recorded, InSight, Executing, TreeAlive, WorkerAlive, WorkerStep, Work,
        CreateWorkerLock, WriteWorkerPid,
        ReadStatus, WriteRunning, WriteProgress, WriteResult, WrapperError,
        ReleaseJobLock, CrashWorker, OrphanEnds, WorkerGoto, files, TypeInv, TypeOK
  <2> QED BY <2>1, <2>2
<1>5. ASSUME NEW k \in Jobs, ControlStep(k)
      PROVE  Recorded(w)'
  <2>1. workerPc'[w] = workerPc[w]
    BY <1>5, ControlFrame
  <2>2. \/ UNCHANGED <<status, recordedPid>>
        \/ /\ k # w[2]
           /\ status'[w[2]] = status[w[2]] /\ recordedPid'[w[2]] = recordedPid[w[2]]
    BY <1>1, <1>5, <2>1
   
    DEF Recorded, InSight, Executing, TreeAlive, WorkerAlive, ControlStep, StartTask,
        CheckCancel, WriteCancelled, files,
        TypeInv, TypeOK
  <2> QED BY <1>1, <2>1, <2>2 DEF Recorded, InSight, Executing, TreeAlive, WorkerAlive
<1> QED BY <1>3, <1>4, <1>5 DEF Next

\* A job that was submitted is never absent or queued again.
LEMMA NeverQueuedAgain ==
    ASSUME TypeInv, Next, NEW j \in Jobs, status[j] \notin {"absent", "queued"}
    PROVE  status'[j] \notin {"absent", "queued"}
<1> USE DEF TypeInv, TypeOK
<1>1. ASSUME NEW d \in Daemons, DaemonStep(d)
      PROVE  status'[j] \notin {"absent", "queued"}
  <2>1. CASE UNCHANGED status
    BY <2>1
  <2>2. CASE \E k : status' = [status EXCEPT ![k] = "failed"]
    BY <2>2
  <2>3. CASE \E k \in Jobs : ReapWorker(d, k)
    BY <2>3 DEF ReapWorker
  <2>4. CASE \E aged \in SUBSET Jobs : RecoverAbandonedJobs(d, aged)
    BY <2>4 DEF RecoverAbandonedJobs
  <2> QED BY <1>1, <2>1, <2>2, <2>3, <2>4
      DEF DaemonStep, Tick, StartDaemon, CrashDaemon, StopDaemon, ExitDaemon,
        TerminateWorker, TerminateTree, ScanQueue, SkipDisabledHarness,
        FindStaleHarnessLock, UnlinkHarnessLock, AcquireHarnessLock, HarnessLockBusy,
        CountSlots, ReserveJob, FindStaleLease, UnlinkLease,
        AcquireLease, LeaseRefused, ReleaseHarnessLock, SpawnWorker, RegisterWorker,
        IdentityNotWritten, SpawnFails, FinishHarness, files
<1>2. ASSUME NEW w \in Workers, WorkerStep(w)
      PROVE  status'[j] \notin {"absent", "queued"}
  BY <1>2
  DEF WorkerStep, Work, CreateWorkerLock, WriteWorkerPid, ReadStatus, WriteRunning,
      WriteProgress, WriteResult, WrapperError, ReleaseJobLock, CrashWorker, OrphanEnds,
      files
<1>3. ASSUME NEW k \in Jobs, ControlStep(k)
      PROVE  status'[j] \notin {"absent", "queued"}
  BY <1>3 DEF ControlStep, StartTask, CheckCancel, WriteCancelled, files
<1> QED BY <1>1, <1>2, <1>3 DEF Next

\* How a worker comes to read, and how one comes to run its prompt.
LEMMA ReadOnce ==
    ASSUME TypeInv, AliveInv, Next, NoDaemonEnded', NEW w \in Workers,
           workerPc'[w] = "read", workerPc[w] # "read"
    PROVE  ReadStatus(w) /\ status[w[2]] = "queued"
<1> USE DEF TypeInv, TypeOK
<1>1. ASSUME NEW d \in Daemons, DaemonStep(d) PROVE FALSE
  BY <1>1, NoneEnds, DaemonsStartAndEnd
<1>2. ASSUME NEW v \in Workers, WorkerStep(v) PROVE ReadStatus(w) /\ status[w[2]] = "queued"
  <2>1. v = w
    BY <1>2, WorkersOnlyEnd
  <2> QED BY <1>2, <2>1
      DEF WorkerStep, Work, CreateWorkerLock, WriteWorkerPid, ReadStatus, WriteRunning,
        WriteProgress, WriteResult, WrapperError, ReleaseJobLock, CrashWorker, OrphanEnds,
        WorkerGoto
<1>3. ASSUME NEW k \in Jobs, ControlStep(k) PROVE FALSE
  BY <1>3, ControlFrame
<1> QED BY <1>1, <1>2, <1>3 DEF Next

LEMMA RunFromRead ==
    ASSUME Next
    PROVE  \/ UNCHANGED ran
           \/ \E u \in Workers : WriteRunning(u) /\ ran' = ran \cup {u}
BY DEF Next, WorkerStep, Work, CreateWorkerLock, WriteWorkerPid, ReadStatus, WriteRunning,
       WriteProgress, WriteResult, WrapperError, ReleaseJobLock, CrashWorker, OrphanEnds

LEMMA OnceStep ==
    ASSUME TypeInv, AliveInv, HandlesInv, OnceInv, Next, NoDaemonEnded'
    PROVE  OnceInv'
<1> USE DEF TypeInv, TypeOK
<1>1. ASSUME NEW j \in Jobs, cancel'[j] = "cancelled"
      PROVE  status'[j] \notin {"absent", "queued"}
  <2>1. CASE cancel[j] = "cancelled"
    BY <2>1, NeverQueuedAgain DEF OnceInv
  <2>2. CASE cancel[j] # "cancelled"
    <3>1. \E k \in Jobs : WriteCancelled(k)
      BY <1>1, <2>2
      DEF Next, ControlStep, StartTask, CheckCancel
    <3> QED BY <1>1, <2>2, <3>1 DEF WriteCancelled
  <2> QED BY <2>1, <2>2
<1>2. ASSUME NEW w \in ran'
      PROVE  status'[w[2]] \notin {"absent", "queued"}
  <2>1. CASE w \in ran
    BY <2>1, NeverQueuedAgain DEF OnceInv, Workers
  <2>2. CASE WriteRunning(w) /\ w \in Workers
    BY <2>2 DEF WriteRunning, Workers
  <2> QED BY <1>2, <2>1, <2>2, RunFromRead
<1>3. ASSUME NEW v \in Workers, NEW w \in Workers, v[2] = w[2], status[w[2]] = "queued",
             workerPc[v] = "read" \/ ReadStatus(v), workerPc[w] = "read" \/ ReadStatus(w)
      PROVE  v = w
  <2>1. Open(w[2])
    BY <1>3 DEF OnceInv, Open, Terminal, Workers
  <2>2. TreeAlive(v) /\ TreeAlive(w)
    BY <1>3 DEF TreeAlive, WorkerAlive, ReadStatus
  <2> QED BY <1>3, <2>1, <2>2, SoleWorker
<1>4. ASSUME NEW v \in Workers, NEW w \in Workers, v[2] = w[2], workerPc'[w] = "read"
      PROVE  v \notin ran' /\ (workerPc'[v] = "read" => v = w)
  <2>1. CASE workerPc[w] = "read"
    <3>1. v \notin ran /\ (workerPc[v] = "read" => v = w)
      BY <1>4, <2>1 DEF OnceInv
    <3>2. ASSUME WriteRunning(v) PROVE FALSE
      <4>1. v = w
        BY <3>1, <3>2 DEF WriteRunning
      <4> QED BY <1>4, <3>2, <4>1 DEF WriteRunning, WorkerGoto
    <3>3. workerPc'[v] = "read" => v = w
      BY <1>3, <1>4, <2>1, <3>1, ReadOnce
    <3> QED BY <3>1, <3>2, <3>3, RunFromRead
  <2>2. CASE workerPc[w] # "read"
    <3>1. ReadStatus(w) /\ status[w[2]] = "queued"
      BY <1>4, <2>2, ReadOnce
    <3>2. v \notin ran'
      BY <1>4, <3>1 DEF OnceInv, ReadStatus
    <3>3. workerPc'[v] = "read" => v = w
      BY <1>3, <1>4, <3>1, ReadOnce
    <3> QED BY <3>2, <3>3
  <2> QED BY <2>1, <2>2
<1> QED BY <1>1, <1>2, <1>4 DEF OnceInv

-----------------------------------------------------------------------------
(***************************************************************************)
(* One prompt, one record                                                  *)
(***************************************************************************)
DispatchIInvariant == TypeInv /\ (NoDaemonEnded => DispatchIInv /\ RunsAtMostOnce)

LEMMA DispatchInit == Init => DispatchIInvariant
<1> SUFFICES ASSUME Init PROVE DispatchIInv /\ RunsAtMostOnce
  BY TypeInit DEF DispatchIInvariant
<1> USE DEF Init, InitQueueState, InitDaemon, InitWorker, InitControl
<1>1. AliveInv /\ ClaimedInv /\ RecordInv /\ RunsAtMostOnce
  BY
  DEF AliveInv, ClaimedInv, RecordInv, RunsAtMostOnce, InSight, Executing, TreeAlive,
      WorkerAlive
<1>2. \A d \in Daemons, j \in Jobs : ~Handles(d, j)
  BY DEF Handles, InHand, TreeAlive, WorkerAlive, Workers
<1>3. HandlesInv /\ PlaceInv
  BY <1>2 DEF HandlesInv, PlaceInv, Handles
<1>4. IdentityInv /\ OnceInv
  BY DEF IdentityInv, OnceInv
<1> QED BY <1>1, <1>3, <1>4 DEF DispatchIInv

\* Only a worker that has seen its job queued hands its prompt over.
LEMMA OnceAgain ==
    ASSUME TypeInv, OnceInv, RunsAtMostOnce, Next
    PROVE  RunsAtMostOnce'
<1>1. ASSUME NEW u \in Workers, WriteRunning(u), NEW v \in ran
      PROVE  v[2] # u[2]
  BY <1>1 DEF WriteRunning, OnceInv, TypeInv, TypeOK
<1> QED BY <1>1, RunFromRead DEF RunsAtMostOnce

LEMMA DispatchStutter ==
    ASSUME DispatchIInv, RunsAtMostOnce, UNCHANGED vars
    PROVE  (DispatchIInv /\ RunsAtMostOnce)'
<1> USE DEF vars, files, daemonVars
<1>1. AliveInv' /\ RecordInv' /\ OnceInv' /\ RunsAtMostOnce'
  BY
  DEF DispatchIInv, AliveInv, DaemonAlive, RecordInv, InSight, Executing, TreeAlive,
      WorkerAlive, OnceInv, RunsAtMostOnce
<1>2. ClaimedInv' /\ IdentityInv'
  BY DEF DispatchIInv, ClaimedInv, IdentityInv, Open
<1>3. HandlesInv'
  BY DEF DispatchIInv, HandlesInv, Handles, Open, InHand, TreeAlive, WorkerAlive
<1>4. PlaceInv'
  BY DEF DispatchIInv, PlaceInv, Open, InHand, TreeAlive, WorkerAlive
<1> QED BY <1>1, <1>2, <1>3, <1>4 DEF DispatchIInv

LEMMA DispatchNext == DispatchIInvariant /\ [Next]_vars => DispatchIInvariant'
<1> SUFFICES ASSUME DispatchIInvariant, [Next]_vars, NoDaemonEnded'
             PROVE  (DispatchIInv /\ RunsAtMostOnce)'
  BY TypeNext DEF DispatchIInvariant
<1>1. CASE UNCHANGED vars
  BY <1>1, DispatchStutter DEF DispatchIInvariant, NoDaemonEnded, vars
<1>2. CASE Next
  <2>1. TypeInv /\ DispatchIInv /\ RunsAtMostOnce
    BY <1>2, FaultsStay DEF DispatchIInvariant
  <2>2. AliveInv' /\ HandlesInv' /\ PlaceInv' /\ IdentityInv'
    BY <1>2, <2>1, AliveStep, HandlesStep, PlaceStep, IdentityStep DEF DispatchIInv
  <2>3. ClaimedInv' /\ RecordInv' /\ OnceInv' /\ RunsAtMostOnce'
    BY <1>2, <2>1, ClaimedStep, RecordStep, OnceStep, OnceAgain DEF DispatchIInv
  <2> QED BY <2>2, <2>3 DEF DispatchIInv
<1> QED BY <1>1, <1>2

LEMMA DispatchIsInvariant == Spec => []DispatchIInvariant
BY DispatchInit, DispatchNext, PTL DEF Spec

\* As long as no daemon has ended, a prompt is handed to a harness once at
\* most: the daemon that holds a job's dispatch.lock is the only one that
\* answers for it, whatever else has listed it as queued (codex_job_daemon.py,
\* _reserve_job; codex_job_worker.py, claim_job).  Workers may die, fail to
\* start, go without an identity file or be cancelled, and their harnesses may
\* outlive them.
THEOREM DispatchedOnce == Spec => [](NoDaemonEnded => RunsAtMostOnce)
<1>1. DispatchIInvariant => (NoDaemonEnded => RunsAtMostOnce)
  BY DEF DispatchIInvariant
<1> QED BY <1>1, DispatchIsInvariant, PTL

\* No cancellation has been confirmed.  One that is confirmed between claim_job's
\* read and its write gives a job at work a record that says cancelled.
NobodyCancelled == \A j \in Jobs : cancel[j] # "cancelled"

\* As long as no daemon has ended, a job at work is recorded as running: the
\* recovery and the reaping of any daemon keep away from it, since its worker
\* or its worker's tree is seen (recover_abandoned_jobs, reap_workers).  It is
\* where no harness outlives its worker outside the tree.
THEOREM RecordedAsRunning ==
    ASSUME TreeCovers
    PROVE  Spec => [](NoDaemonEnded /\ NobodyCancelled => RunningWhileExecuting)
<1>1. DispatchIInvariant => (NoDaemonEnded /\ NobodyCancelled => RunningWhileExecuting)
  BY DEF DispatchIInvariant, DispatchIInv, RecordInv, NobodyCancelled, InSight,
         RunningWhileExecuting, Executing, TreeAlive, WorkerAlive, Workers
<1> QED BY <1>1, DispatchIsInvariant, PTL

-----------------------------------------------------------------------------
(***************************************************************************)
(* Slots                                                                   *)
(***************************************************************************)
\* The open jobs of harness h that a daemon has chosen or that have a worker.
Held(h) ==
    {j \in Jobs : /\ HarnessOf[j] = h /\ Open(j)
                  /\ \E d \in Daemons : j \in chosen[d] \/ TreeAlive(<<d, j>>)}

Reserving(d) == daemonPc[d] \in {"reserve", "lease", "unlink_lease", "create_lease"}

\* There is room for what the daemon may still choose: what it has not chosen
\* itself and its slots do not exceed the limit.
RoomFor(d) ==
    LET h == HarnessAt(d)
    IN  /\ Cardinality(chosen[d]) <= slots[d]
        /\ slots[d] = 0 \/ Cardinality(Held(h) \ chosen[d]) + slots[d] <= Limit[h]

\* No harness has more jobs held than its limit, and a daemon that reserves
\* jobs has room for them.
SlotInv ==
    /\ \A h \in Harnesses : Cardinality(Held(h)) <= Limit[h]
    /\ \A d \in Daemons :
        /\ ~Reserving(d) /\ daemonPc[d] \notin {"spawn", "identify"} => chosen[d] = {}
        /\ daemonPc[d] \in {"lease", "unlink_lease", "create_lease"} =>
              /\ HarnessOf[current[d]] = HarnessAt(d)
              /\ Cardinality(chosen[d]) < slots[d]
        /\ Reserving(d) => RoomFor(d)

\* Sets of jobs are finite.
LEMMA Sizes ==
    ASSUME NEW S \in SUBSET Jobs, NEW T \in SUBSET Jobs
    PROVE  /\ Cardinality(S) \in Nat /\ Cardinality(T) \in Nat
           /\ S \subseteq T => Cardinality(S) <= Cardinality(T)
           /\ Cardinality(S \cup T) <= Cardinality(S) + Cardinality(T)
<1>1. IsFiniteSet(S) /\ IsFiniteSet(T)
  BY StateAssumption, FS_Subset
<1>2. Cardinality(S) \in Nat /\ Cardinality(T) \in Nat
  BY <1>1, FS_CardinalityType
<1>3. S \subseteq T => Cardinality(S) <= Cardinality(T)
  BY <1>1, FS_Subset
<1>4. IsFiniteSet(S \cap T)
  BY <1>1, FS_Subset
<1>5. Cardinality(S \cup T) = Cardinality(S) + Cardinality(T) - Cardinality(S \cap T)
  BY <1>1, FS_Union
<1>6. Cardinality(S \cap T) \in Nat
  BY <1>4, FS_CardinalityType
<1> QED BY <1>2, <1>3, <1>5, <1>6

\* A job that is held counts as active on disk.
LEMMA HeldIsOccupied ==
    ASSUME TypeInv, AliveInv, HandlesInv, NEW h \in Harnesses, NEW d \in Daemons
    PROVE  Held(h) \subseteq Occupied(d, h)
<1> SUFFICES ASSUME NEW j \in Held(h) PROVE j \in DiskActiveJobIds
  BY DEF Held, Occupied
<1>1. PICK e \in Daemons : Handles(e, j)
  BY DEF Held, Handles
<1>2. dispatchLock[j] = e /\ e # None
  BY <1>1, StateAssumption DEF Held, HandlesInv
<1> QED BY <1>2, OpenIsLocked DEF Held, DiskActiveJobIds

\* Only the daemon that acquires a job's lease makes it held.
LEMMA HeldByAcquiring ==
    ASSUME TypeInv, AliveInv, RecordInv, Next, NoDaemonEnded',
           NEW h \in Harnesses, NEW j \in Held(h)'
    PROVE  j \in Held(h) \/ \E d \in Daemons : AcquireLease(d) /\ j = current[d]
<1>1. PICK e \in Daemons : j \in chosen'[e] \/ TreeAlive(<<e, j>>)'
  BY DEF Held
<1>2. j \in Jobs /\ HarnessOf[j] = h /\ Open(j) /\ <<e, j>> \in Workers
  BY OpenBefore DEF Held, Workers
<1> SUFFICES ASSUME \A d \in Daemons : ~(AcquireLease(d) /\ j = current[d])
             PROVE  j \in chosen[e] \/ TreeAlive(<<e, j>>)
  BY <1>2 DEF Held
<1>3. ASSUME NEW d \in Daemons, DaemonStep(d)
      PROVE  j \in chosen[e] \/ TreeAlive(<<e, j>>)
  <2>1. StartDaemon(d) \/ Tick(d) \/ \E k \in Jobs : ReapWorker(d, k)
    BY <1>3, NoneEnds
  <2>2. CASE e # d
    BY <1>1, <1>2, <2>1, <2>2, OtherDaemons DEF Untouched, TreeAlive, WorkerAlive
  <2>3. CASE e = d
    <3> USE DEF TypeInv, TypeOK
    <3>1. CASE AcquireLease(d)
      BY <1>1, <1>2, <2>3, <3>1 DEF AcquireLease, TreeAlive, WorkerAlive
    <3>2. CASE SpawnWorker(d)
      <4>1. PICK k \in chosen[d] \cap Jobs : workerPc' = [workerPc EXCEPT ![<<d, k>>] = "boot"]
        BY <3>2, NextChosen DEF SpawnWorker
      <4>2. UNCHANGED chosen
        BY <3>2 DEF SpawnWorker
      <4>3. k # j => workerPc'[<<e, j>>] = workerPc[<<e, j>>]
        BY <2>3, <4>1 DEF Workers
      <4> QED BY <1>1, <2>3, <4>1, <4>2, <4>3 DEF TreeAlive, WorkerAlive
    <3>3. CASE RegisterWorker(d) \/ SpawnFails(d) \/ IdentityNotWritten(d)
      <4>1. chosen'[d] \subseteq chosen[d]
        BY <3>3 DEF RegisterWorker, SpawnFails, IdentityNotWritten
      <4>2. \/ UNCHANGED workerPc
            \/ Ends(<<d, Oldest(chosen[d])>>)
        BY <3>3 DEF RegisterWorker, SpawnFails, IdentityNotWritten, TerminateTree, Ends
      <4>3. TreeAlive(<<e, j>>)' => TreeAlive(<<e, j>>)
        BY <1>2, <4>2 DEF TreeAlive, WorkerAlive, Ends
      <4> QED BY <1>1, <2>3, <4>1, <4>3
    <3>4. CASE UNCHANGED <<chosen, workerPc>>
      BY <1>1, <3>4 DEF TreeAlive, WorkerAlive
    <3> QED
      BY <2>1, <3>1, <3>2, <3>3, <3>4
      DEF StartDaemon, ReapWorker, Tick, ScanQueue, SkipDisabledHarness,
        FindStaleHarnessLock, UnlinkHarnessLock, AcquireHarnessLock, HarnessLockBusy,
        RecoverAbandonedJobs, CountSlots, ReserveJob, FindStaleLease, UnlinkLease,
        LeaseRefused, ReleaseHarnessLock, FinishHarness
  <2> QED BY <2>2, <2>3
<1>4. ASSUME NEW w \in Workers, WorkerStep(w), UNCHANGED daemonVars
      PROVE  j \in chosen[e] \/ TreeAlive(<<e, j>>)
  BY <1>1, <1>2, <1>4, WorkersOnlyEnd DEF daemonVars
<1>5. ASSUME NEW k \in Jobs, ControlStep(k), UNCHANGED daemonVars
      PROVE  j \in chosen[e] \/ TreeAlive(<<e, j>>)
  BY <1>1, <1>5, ControlFrame DEF daemonVars, TreeAlive, WorkerAlive
<1> QED BY <1>3, <1>4, <1>5 DEF Next

\* What SlotInv says of one daemon.
SlotsOf(d) ==
    /\ ~Reserving(d) /\ daemonPc[d] \notin {"spawn", "identify"} => chosen[d] = {}
    /\ daemonPc[d] \in {"lease", "unlink_lease", "create_lease"} =>
          /\ HarnessOf[current[d]] = HarnessAt(d)
          /\ Cardinality(chosen[d]) < slots[d]
    /\ Reserving(d) => RoomFor(d)

\* As the jobs held become fewer there is still room.
LEMMA RoomStays ==
    ASSUME TypeInv, TypeInv', NEW d \in Daemons, RoomFor(d),
           turn'[d] = turn[d], slots'[d] = slots[d], chosen'[d] = chosen[d],
           NEW h \in Harnesses, h = HarnessAt(d), Held(h)' \subseteq Held(h)
    PROVE  RoomFor(d)'
<1> DEFINE S == Held(h)' \ chosen[d]
           T == Held(h) \ chosen[d]
<1>1. (HarnessAt(d))' = h
  BY DEF HarnessAt
<1>2. S \in SUBSET Jobs /\ T \in SUBSET Jobs /\ S \subseteq T
  BY DEF Held
<1>3. /\ Cardinality(S) \in Nat /\ Cardinality(T) \in Nat
      /\ Cardinality(S) <= Cardinality(T)
  BY <1>2, Sizes
<1>4. slots[d] \in Nat /\ Limit[h] \in Nat
  BY <1>1, DaemonAssumption DEF TypeInv, TypeOK
<1>5. Held(HarnessAt(d))' = Held(h)'
  BY <1>1
<1> HIDE DEF S, T
<1>6. slots[d] = 0 \/ Cardinality(T) + slots[d] <= Limit[h]
  BY DEF RoomFor, T
<1>7. slots[d] = 0 \/ Cardinality(S) + slots[d] <= Limit[h]
  BY <1>3, <1>4, <1>6
<1> QED BY <1>1, <1>5, <1>7 DEF RoomFor, S

\* The count of the occupied slots: every job held is counted.
LEMMA SlotsCounted ==
    ASSUME TypeInv, TypeInv', AliveInv, HandlesInv, NEW d \in Daemons, CountSlots(d),
           SlotsOf(d), \A h \in Harnesses : Held(h)' \subseteq Held(h)
    PROVE  SlotsOf(d)'
<1> PICK h \in Harnesses : h = HarnessAt(d)
  BY DaemonAssumption DEF HarnessAt, TypeInv, TypeOK
<1> DEFINE occupied == Cardinality(Occupied(d, h))
<1>1. /\ daemonPc[d] = "count" /\ daemonPc'[d] = "reserve"
      /\ slots'[d] = IF occupied < Limit[h] THEN Limit[h] - occupied ELSE 0
      /\ UNCHANGED <<chosen, turn>>
  BY DEF CountSlots, Goto, TypeInv, TypeOK
<1>2. chosen[d] = {} /\ Cardinality(chosen'[d]) = 0
  BY <1>1, FS_EmptySet DEF SlotsOf, Reserving
<1>3. Limit[h] \in Nat
  BY DaemonAssumption
<1>4. Held(h)' \subseteq Occupied(d, h) /\ Occupied(d, h) \in SUBSET Jobs
  BY HeldIsOccupied DEF Occupied, DiskActiveJobIds, TypeInv, TypeOK
<1>5. /\ occupied \in Nat /\ Cardinality(Held(h)') \in Nat
      /\ Cardinality(Held(h)') <= occupied
  BY <1>4, Sizes
<1>6. Held(h)' \ chosen'[d] = Held(h)'
  BY <1>1, <1>2
<1> HIDE DEF occupied
<1>7. slots'[d] \in Nat /\ (slots'[d] = 0 \/ Cardinality(Held(h)') + slots'[d] <= Limit[h])
  BY <1>1, <1>3, <1>5
<1>8. (HarnessAt(d))' = h
  BY <1>1 DEF HarnessAt
<1>9. Cardinality(chosen'[d]) <= slots'[d]
  BY <1>2, <1>7
<1>10. slots'[d] = 0 \/ Cardinality(Held(h)' \ chosen'[d]) + slots'[d] <= Limit[h]
  BY <1>6, <1>7
<1>11. RoomFor(d)'
  BY <1>8, <1>9, <1>10 DEF RoomFor
<1> QED BY <1>1, <1>11 DEF SlotsOf, Reserving

\* The other steps of the daemon, but for the one that acquires a lease.
LEMMA SlotsOwn ==
    ASSUME TypeInv, TypeInv', AliveInv, HandlesInv, NEW d \in Daemons,
           StartDaemon(d) \/ Tick(d) \/ \E k \in Jobs : ReapWorker(d, k),
           ~AcquireLease(d), SlotsOf(d), \A h \in Harnesses : Held(h)' \subseteq Held(h)
    PROVE  SlotsOf(d)'
<1> PICK h \in Harnesses : h = HarnessAt(d)
  BY DaemonAssumption DEF HarnessAt, TypeInv, TypeOK
<1> USE DEF TypeInv, TypeOK, SlotsOf, Reserving, Goto
<1>1. CASE StartDaemon(d) \/ ScanQueue(d) \/ \E k \in Jobs : ReapWorker(d, k)
  BY <1>1 DEF StartDaemon, ScanQueue, ReapWorker, files
<1>2. CASE \/ SkipDisabledHarness(d) \/ HarnessLockBusy(d) \/ FinishHarness(d)
           \/ FindStaleHarnessLock(d) \/ UnlinkHarnessLock(d) \/ AcquireHarnessLock(d)
  BY <1>2
  DEF SkipDisabledHarness, HarnessLockBusy, FinishHarness, NextHarness, files,
      FindStaleHarnessLock, UnlinkHarnessLock, AcquireHarnessLock
<1>3. ASSUME NEW aged \in SUBSET Jobs, RecoverAbandonedJobs(d, aged)
      PROVE  SlotsOf(d)'
  BY <1>3 DEF RecoverAbandonedJobs
<1>4. CASE CountSlots(d)
  BY <1>4, SlotsCounted
<1>5. CASE ReserveJob(d)
  <2>1. /\ Reserving(d) /\ UNCHANGED <<chosen, slots, turn>>
        /\ \/ daemonPc'[d] = "reserve"
           \/ daemonPc'[d] = "lease" /\ current'[d] = Oldest(Candidates(d))
        /\ Cardinality(chosen[d]) < slots[d]
    BY <1>5 DEF ReserveJob, MoreToReserve
  <2>2. RoomFor(d)'
    BY <2>1, RoomStays
  <2>3. HarnessOf[Oldest(Candidates(d))] = HarnessAt(d)
    BY <1>5, NextCandidate
  <2>4. (HarnessAt(d))' = HarnessAt(d)
    BY <2>1 DEF HarnessAt
  <2> QED BY <2>1, <2>2, <2>3, <2>4
<1>6. CASE FindStaleLease(d) \/ UnlinkLease(d) \/ LeaseRefused(d)
  <2>1. /\ daemonPc[d] \in {"lease", "unlink_lease", "create_lease"}
        /\ UNCHANGED <<chosen, slots, turn>>
        /\ \/ daemonPc'[d] = "reserve"
           \/ daemonPc'[d] \in {"unlink_lease", "create_lease"} /\ UNCHANGED current
    BY <1>6 DEF FindStaleLease, UnlinkLease, LeaseRefused
  <2>2. RoomFor(d)'
    BY <2>1, RoomStays
  <2>3. (HarnessAt(d))' = HarnessAt(d)
    BY <2>1 DEF HarnessAt
  <2> QED BY <2>1, <2>2, <2>3
<1>7. CASE ReleaseHarnessLock(d) \/ SpawnWorker(d) \/ RegisterWorker(d)
  BY <1>7 DEF ReleaseHarnessLock, SpawnWorker, RegisterWorker
<1>8. CASE SpawnFails(d) \/ IdentityNotWritten(d)
  BY <1>8 DEF SpawnFails, IdentityNotWritten
<1> QED BY <1>1, <1>2, <1>3, <1>4, <1>5, <1>6, <1>7, <1>8 DEF Tick

\* One daemon acquires a lease at a time.
LEMMA OneAcquires ==
    ASSUME TypeInv, NEW d \in Daemons, NEW e \in Daemons, AcquireLease(d), AcquireLease(e)
    PROVE  d = e
<1>1. d # e => Untouched(e)
  BY OtherDaemons DEF Tick
<1> QED BY <1>1 DEF Untouched, AcquireLease, Goto, TypeInv, TypeOK

\* A daemon acquires the lease of a job it has a slot for.
LEMMA SlotsAcquired ==
    ASSUME TypeInv, TypeInv', NEW d \in Daemons, AcquireLease(d), SlotsOf(d),
           NEW h \in Harnesses, h = HarnessAt(d), Held(h)' \subseteq Held(h) \cup {current[d]}
    PROVE  /\ SlotsOf(d)'
           /\ Cardinality(Held(h)') <= Limit[h]
<1> DEFINE S == Held(h)' \ chosen'[d]
           T == Held(h) \ chosen[d]
<1>1. /\ daemonPc[d] \in {"lease", "create_lease"} /\ daemonPc'[d] = "reserve"
      /\ chosen'[d] = chosen[d] \cup {current[d]}
      /\ UNCHANGED <<slots, turn>>
  BY DEF AcquireLease, Goto, TypeInv, TypeOK
<1>2. /\ Cardinality(chosen[d]) < slots[d]
      /\ slots[d] = 0 \/ Cardinality(T) + slots[d] <= Limit[h]
  BY <1>1 DEF SlotsOf, Reserving, RoomFor
<1>3. /\ h \in Harnesses /\ Limit[h] \in Nat /\ slots[d] \in Nat
      /\ (HarnessAt(d))' = h
  BY <1>1, DaemonAssumption DEF HarnessAt, TypeInv, TypeOK
<1>4. /\ S \in SUBSET Jobs /\ T \in SUBSET Jobs /\ S \subseteq T
      /\ chosen[d] \in SUBSET Jobs /\ chosen'[d] \in SUBSET Jobs
      /\ Held(h)' \in SUBSET Jobs /\ Held(h)' = S \cup (Held(h)' \cap chosen'[d])
  BY <1>1 DEF Held, TypeInv, TypeOK
<1>5. /\ Cardinality(S) \in Nat /\ Cardinality(T) \in Nat
      /\ Cardinality(S) <= Cardinality(T)
  BY <1>4, Sizes
<1>6. /\ Cardinality(chosen[d]) \in Nat /\ Cardinality(chosen'[d]) \in Nat
      /\ Cardinality(chosen'[d]) <= Cardinality(chosen[d]) + 1
  <2>1. IsFiniteSet(chosen[d])
    BY <1>4, StateAssumption, FS_Subset
  <2>2. Cardinality(chosen[d]) \in Nat
    BY <1>4, Sizes
  <2>3. Cardinality(chosen[d] \cup {current[d]}) =
           IF current[d] \in chosen[d] THEN Cardinality(chosen[d]) ELSE Cardinality(chosen[d]) + 1
    BY <2>1, FS_AddElement
  <2>4. chosen'[d] = chosen[d] \cup {current[d]}
    BY <1>1
  <2>5. Cardinality(chosen'[d]) \in Nat
    BY <1>4, Sizes
  <2> QED BY <2>2, <2>3, <2>4, <2>5
<1>7. Cardinality(Held(h)') <= Cardinality(S) + Cardinality(chosen'[d])
  <2>1. S \cup chosen'[d] \in SUBSET Jobs /\ Held(h)' \subseteq S \cup chosen'[d]
    BY <1>4
  <2>2. /\ Cardinality(Held(h)') <= Cardinality(S \cup chosen'[d])
        /\ Cardinality(Held(h)') \in Nat /\ Cardinality(S \cup chosen'[d]) \in Nat
    BY <1>4, <2>1, Sizes
  <2>3. Cardinality(S \cup chosen'[d]) <= Cardinality(S) + Cardinality(chosen'[d])
    BY <1>4, Sizes
  <2> QED BY <1>5, <1>6, <2>2, <2>3
<1>8. Cardinality(Held(h)') \in Nat
  BY <1>4, Sizes
<1>9. Held(HarnessAt(d))' = Held(h)'
  BY <1>3
<1> HIDE DEF S, T
<1>10. /\ Cardinality(chosen'[d]) <= slots[d] /\ Cardinality(S) + slots[d] <= Limit[h]
       /\ Cardinality(Held(h)') <= Limit[h]
  BY <1>2, <1>3, <1>5, <1>6, <1>7, <1>8
<1>11. RoomFor(d)'
  BY <1>1, <1>3, <1>9, <1>10 DEF RoomFor, S
<1> QED BY <1>1, <1>9, <1>10, <1>11 DEF SlotsOf, Reserving

\* The other daemons: two that reserve are at different harnesses.
LEMMA SlotsElsewhere ==
    ASSUME TypeInv, TypeInv', NEW e \in Daemons, Untouched(e), SlotsOf(e),
           NEW h \in Harnesses, h = HarnessAt(e), Reserving(e) => Held(h)' \subseteq Held(h)
    PROVE  SlotsOf(e)'
<1>1. (HarnessAt(e))' = HarnessAt(e) /\ (Reserving(e)' <=> Reserving(e))
  BY DEF HarnessAt, Untouched, Reserving
<1>2. Reserving(e) => RoomFor(e)'
  BY RoomStays DEF SlotsOf, Untouched
<1> QED BY <1>1, <1>2 DEF SlotsOf, Untouched

\* So every step keeps the slots within the limit.
LEMMA SlotStep ==
    ASSUME TypeInv, TypeInv', AliveInv, HandlesInv, RecordInv, HarnessLockExclusive,
           SlotInv, Next, NoDaemonEnded'
    PROVE  SlotInv'
<1>1. \A d \in Daemons : SlotsOf(d)
  BY DEF SlotInv, SlotsOf
<1> SUFFICES /\ \A h \in Harnesses : Cardinality(Held(h)') <= Limit[h]
             /\ \A d \in Daemons : SlotsOf(d)'
  BY DEF SlotInv, SlotsOf
<1>2. \A d \in Daemons : HarnessAt(d) \in Harnesses
  BY DaemonAssumption DEF HarnessAt, TypeInv, TypeOK
<1>3. ASSUME NEW h \in Harnesses, Held(h)' \subseteq Held(h)
      PROVE  Cardinality(Held(h)') <= Limit[h]
  <2>1. Held(h) \in SUBSET Jobs /\ Held(h)' \in SUBSET Jobs
    BY DEF Held
  <2>2. /\ Cardinality(Held(h)) \in Nat /\ Cardinality(Held(h)') \in Nat
        /\ Cardinality(Held(h)') <= Cardinality(Held(h))
    BY <1>3, <2>1, Sizes
  <2>3. Cardinality(Held(h)) <= Limit[h] /\ Limit[h] \in Nat
    BY DaemonAssumption DEF SlotInv
  <2> QED BY <2>2, <2>3
<1>4. ASSUME NEW d \in Daemons, AcquireLease(d)
      PROVE  /\ \A h \in Harnesses : Cardinality(Held(h)') <= Limit[h]
             /\ \A e \in Daemons : SlotsOf(e)'
  <2>1. \A h \in Harnesses : Held(h)' \subseteq Held(h) \cup {current[d]}
    BY <1>4, HeldByAcquiring, OneAcquires
  <2>2. HarnessOf[current[d]] = HarnessAt(d) /\ Reserving(d) /\ InCriticalSection(d, HarnessAt(d))
    BY <1>1, <1>4
    DEF SlotsOf, AcquireLease, Reserving, InCriticalSection, CriticalSection
  <2>3. ASSUME NEW h \in Harnesses, h # HarnessAt(d)
        PROVE  Held(h)' \subseteq Held(h)
    BY <2>1, <2>2, <2>3 DEF Held
  <2>4. PICK h \in Harnesses : h = HarnessAt(d)
    BY <1>2
  <2>6. SlotsOf(d)' /\ Cardinality(Held(h)') <= Limit[h]
    BY <1>1, <1>4, <2>1, <2>4, SlotsAcquired
  <2>5. ASSUME NEW e \in Daemons \ {d} PROVE SlotsOf(e)'
    <3>1. Untouched(e)
      BY <1>4, OtherDaemons DEF Tick
    <3>2. ASSUME Reserving(e) PROVE HarnessAt(e) # HarnessAt(d)
      <4>1. InCriticalSection(e, HarnessAt(e))
        BY <3>2 DEF Reserving, InCriticalSection, CriticalSection
      <4> QED BY <1>2, <2>2, <4>1 DEF HarnessLockExclusive
    <3>3. PICK g \in Harnesses : g = HarnessAt(e)
      BY <1>2
    <3> QED BY <1>1, <2>3, <3>1, <3>2, <3>3, SlotsElsewhere
  <2> QED BY <1>3, <2>3, <2>4, <2>5, <2>6
<1>5. ASSUME \A d \in Daemons : ~AcquireLease(d)
      PROVE  /\ \A h \in Harnesses : Cardinality(Held(h)') <= Limit[h]
             /\ \A e \in Daemons : SlotsOf(e)'
  <2>1. \A h \in Harnesses : Held(h)' \subseteq Held(h)
    BY <1>5, HeldByAcquiring
  <2>2. ASSUME NEW e \in Daemons PROVE SlotsOf(e)'
    <3>1. ASSUME NEW d \in Daemons, DaemonStep(d) PROVE SlotsOf(e)'
      <4>1. StartDaemon(d) \/ Tick(d) \/ \E k \in Jobs : ReapWorker(d, k)
        BY <3>1, NoneEnds
      <4>2. CASE e = d
        BY <1>1, <1>2, <1>5, <2>1, <4>1, <4>2, SlotsOwn
      <4>3. CASE e # d
        <5>1. PICK h \in Harnesses : h = HarnessAt(e)
          BY <1>2
        <5>2. Untouched(e)
          BY <4>1, <4>3, OtherDaemons
        <5> QED BY <1>1, <2>1, <5>1, <5>2, SlotsElsewhere
      <4> QED BY <4>2, <4>3
    <3>2. CASE UNCHANGED daemonVars
      <4>1. PICK h \in Harnesses : h = HarnessAt(e)
        BY <1>2
      <4>2. RoomFor(e) => RoomFor(e)'
        BY <2>1, <3>2, <4>1, RoomStays DEF daemonVars
      <4>3. (HarnessAt(e))' = HarnessAt(e) /\ (Reserving(e)' <=> Reserving(e))
        BY <3>2 DEF HarnessAt, daemonVars, Reserving
      <4> QED BY <1>1, <3>2, <4>2, <4>3 DEF SlotsOf, daemonVars
    <3> QED BY <3>1, <3>2 DEF Next
  <2> QED BY <1>3, <2>1, <2>2
<1> QED BY <1>4, <1>5

\* As many workers execute on a harness as there are jobs held, at most.
LEMMA ExecutingIsHeld ==
    ASSUME TreeCovers, TypeInv, HandlesInv, RecordInv, NobodyCancelled, SlotInv
    PROVE  CapacityRespected
<1> SUFFICES ASSUME NEW h \in Harnesses
             PROVE  Cardinality({w \in Workers : Executing(w) /\ HarnessOf[w[2]] = h})
                    <= Limit[h]
  BY DEF CapacityRespected
<1> DEFINE S == {w \in Workers : Executing(w) /\ HarnessOf[w[2]] = h}
           f == [w \in S |-> w[2]]
<1>1. ASSUME NEW w \in S
      PROVE  /\ w[1] \in Daemons /\ w[2] \in Jobs /\ w = <<w[1], w[2]>>
             /\ Open(w[2]) /\ TreeAlive(w) /\ w[2] \in Held(h)
  <2>1. w[1] \in Daemons /\ w[2] \in Jobs /\ w = <<w[1], w[2]>>
    BY DEF Workers
  <2>2. Open(w[2]) /\ TreeAlive(w)
    BY <2>1
    DEF RecordInv, NobodyCancelled, Open, Terminal, TreeAlive, WorkerAlive, InSight, Executing
  <2> QED BY <2>1, <2>2 DEF Held
<1>2. f \in Injection(S, Held(h))
  <2>1. f \in [S -> Held(h)]
    BY <1>1
  <2>2. ASSUME NEW v \in S, NEW w \in S, f[v] = f[w] PROVE v = w
    BY <1>1, <2>2, SoleWorker
  <2> QED BY <2>1, <2>2 DEF Injection, IsInjective
<1>3. Held(h) \in SUBSET Jobs /\ IsFiniteSet(Held(h))
  BY StateAssumption, FS_Subset DEF Held
<1>4. IsFiniteSet(S) /\ Cardinality(S) <= Cardinality(Held(h))
  BY <1>2, <1>3, FS_Injection
<1>5. /\ Cardinality(S) \in Nat /\ Cardinality(Held(h)) \in Nat /\ Limit[h] \in Nat
      /\ Cardinality(Held(h)) <= Limit[h]
  BY <1>3, <1>4, FS_CardinalityType, DaemonAssumption DEF SlotInv
<1> HIDE DEF S
<1>6. Cardinality(S) <= Limit[h]
  BY <1>4, <1>5
<1> QED BY <1>6 DEF S

\* As long as no daemon has ended, the jobs at work on a harness never exceed its
\* limit over all daemons, for any limits: the slots are counted on disk under
\* the dispatch lock of the harness, and what is reserved counts at once
\* (_dispatch_harness, _disk_active_job_ids).
THEOREM LimitsRespected ==
    ASSUME TreeCovers
    PROVE  Spec => [](NoDaemonEnded /\ NobodyCancelled => CapacityRespected)
<1> DEFINE Inv == NoDaemonEnded => SlotInv
<1>1. Init => Inv
  <2> SUFFICES ASSUME Init PROVE SlotInv
    OBVIOUS
  <2>1. \A h \in Harnesses : Held(h) = {}
    BY DEF Held, Init, InitQueueState, InitDaemon, TreeAlive, WorkerAlive, Workers
  <2>2. ASSUME NEW h \in Harnesses PROVE Cardinality(Held(h)) <= Limit[h]
    <3>1. Cardinality(Held(h)) = 0
      BY <2>1, FS_EmptySet
    <3>2. Limit[h] \in Nat
      BY DaemonAssumption
    <3> QED BY <3>1, <3>2
  <2> QED BY <2>2 DEF SlotInv, Reserving, Init, InitQueueState, InitDaemon
<1>2. /\ Inv /\ DispatchIInvariant /\ (NoDaemonCrashed => HarnessLockExclusive)
      /\ DispatchIInvariant' /\ [Next]_vars
      => Inv'
  <2> SUFFICES ASSUME Inv, DispatchIInvariant, NoDaemonCrashed => HarnessLockExclusive,
                      DispatchIInvariant', [Next]_vars, NoDaemonEnded'
               PROVE  SlotInv'
    OBVIOUS
  <2>1. CASE UNCHANGED vars
    <3>1. \A h \in Harnesses : Held(h)' = Held(h)
      BY <2>1 DEF vars, files, daemonVars, Held, Open, TreeAlive, WorkerAlive
    <3>2. NoDaemonEnded
      BY <2>1 DEF vars, NoDaemonEnded
    <3>3. \A d \in Daemons : (HarnessAt(d))' = HarnessAt(d) /\ HarnessAt(d) \in Harnesses
      BY <2>1, DaemonAssumption
      DEF vars, daemonVars, HarnessAt, DispatchIInvariant, TypeInv, TypeOK
    <3>4. \A d \in Daemons : Held(HarnessAt(d))' = Held(HarnessAt(d))
      BY <3>1, <3>3
    <3> QED BY <2>1, <3>1, <3>2, <3>3, <3>4
        DEF vars, daemonVars, SlotInv, RoomFor, Reserving
  <2>2. CASE Next
    <3>1. NoDaemonEnded /\ NoDaemonCrashed
      BY <2>2, FaultsStay DEF DispatchIInvariant, NoDaemonEnded, NoDaemonCrashed
    <3> QED BY <2>2, <3>1, SlotStep DEF DispatchIInvariant, DispatchIInv
  <2> QED BY <2>1, <2>2
<1>3. Inv /\ DispatchIInvariant => (NoDaemonEnded /\ NobodyCancelled => CapacityRespected)
  BY ExecutingIsHeld DEF DispatchIInvariant, DispatchIInv
<1> QED BY <1>1, <1>2, <1>3, DispatchIsInvariant, HarnessLockCorrect, PTL DEF Spec

-----------------------------------------------------------------------------
(***************************************************************************)
(* Final records                                                           *)
(***************************************************************************)
\* No fault happens more often than it may, and nobody cancels what nobody asks
\* to cancel.
FaultBound ==
    /\ \A k \in FaultKinds : faults[k] <= MaxFaults[k]
    /\ Cancellable = {} => \A j \in Jobs : cancel[j] = "none"

LEMMA FaultBoundHolds == Spec => []FaultBound
<1>1. Init => FaultBound
  BY StateAssumption DEF Init, InitQueueState, InitControl, FaultBound
<1>2. FaultBound /\ TypeInv /\ [Next]_vars => FaultBound'
  <2> SUFFICES ASSUME FaultBound, TypeInv, [Next]_vars PROVE FaultBound'
    OBVIOUS
  <2>1. CASE UNCHANGED vars
    BY <2>1 DEF vars, FaultBound
  <2>2. CASE Next
    <3>1. ASSUME NEW k \in FaultKinds PROVE faults'[k] <= MaxFaults[k]
      <4>1. faults[k] \in Nat /\ MaxFaults[k] \in Nat
        BY StateAssumption DEF TypeInv, TypeOK
      <4>2. ASSUME NEW l \in FaultKinds, Fault(l) PROVE faults'[k] <= MaxFaults[k]
        BY <4>1, <4>2 DEF Fault, FaultBound, TypeInv, TypeOK
      <4> QED BY <2>2, <4>2, FaultsCounted DEF FaultBound
    <3>2. ASSUME Cancellable = {} PROVE \A j \in Jobs : cancel'[j] = "none"
      BY <2>2, <3>2
      DEF FaultBound, Next, ControlStep, StartTask, CheckCancel, WriteCancelled
    <3> QED BY <3>1, <3>2 DEF FaultBound
  <2> QED BY <2>1, <2>2
<1>3. DispatchIInvariant => TypeInv
  BY DEF DispatchIInvariant
<1> QED BY <1>1, <1>2, <1>3, DispatchIsInvariant, PTL DEF Spec

\* No daemon dies or is stopped, no exception escapes claim_job and every
\* identity file is written: with two daemons each of these can replace a
\* terminal record.  Workers may die anywhere and fail to start.
Quiet == \A k \in {"daemon", "stop", "error", "identity"} : MaxFaults[k] = 0

\* Only the worker at work, or the parent of one that is dead, closes a record.
LEMMA TerminalStays ==
    ASSUME TypeInv, AliveInv, RecordInv, FaultBound, Cancellable = {}, Quiet, Next,
           NEW j \in Jobs, status[j] \in Terminal
    PROVE  status'[j] = status[j]
<1> USE DEF Terminal, TypeInv, TypeOK
<1>1. \A k \in {"daemon", "stop", "error", "identity"} : ~Fault(k)
  <2> SUFFICES ASSUME NEW k \in {"daemon", "stop", "error", "identity"} PROVE ~Fault(k)
    OBVIOUS
  <2>1. k \in FaultKinds /\ faults[k] \in Nat /\ MaxFaults[k] = 0
    BY DEF FaultKinds, Quiet
  <2> QED BY <2>1 DEF Fault
<1>2. \A k \in Jobs : cancel[k] = "none"
  BY DEF FaultBound
<1>3. ASSUME NEW d \in Daemons, DaemonStep(d)
      PROVE  status'[j] = status[j]
  <2>1. CASE UNCHANGED status
    BY <2>1
  <2>2. CASE \E k \in Jobs : ReapWorker(d, k)
    BY <2>2 DEF ReapWorker
  <2>3. CASE \E aged \in SUBSET Jobs : RecoverAbandonedJobs(d, aged)
    BY <2>3 DEF RecoverAbandonedJobs
  <2>4. CASE \E k \in Jobs : TerminateWorker(d, k)
    BY <2>4 DEF TerminateWorker, AliveInv
  <2> QED BY <1>1, <1>3, <2>1, <2>2, <2>3, <2>4
      DEF DaemonStep, Tick, StartDaemon, CrashDaemon, StopDaemon, ExitDaemon,
        ScanQueue, SkipDisabledHarness, FindStaleHarnessLock, UnlinkHarnessLock,
        AcquireHarnessLock, HarnessLockBusy, CountSlots, ReserveJob, FindStaleLease,
        UnlinkLease, AcquireLease, LeaseRefused, ReleaseHarnessLock, SpawnWorker,
        RegisterWorker, IdentityNotWritten, SpawnFails, FinishHarness, files
<1>4. ASSUME NEW w \in Workers, WorkerStep(w)
      PROVE  status'[j] = status[j]
  <2>1. w[2] \in Jobs
    BY DEF Workers
  <2> QED BY <1>1, <1>2, <1>4, <2>1
     
      DEF RecordInv, InSight, Executing, TreeAlive, WorkerAlive, WorkerStep, Work,
          CreateWorkerLock, WriteWorkerPid,
        ReadStatus, WriteRunning, WriteProgress, WriteResult, WrapperError,
        ReleaseJobLock, CrashWorker, OrphanEnds, files
<1>5. ASSUME NEW k \in Jobs, ControlStep(k)
      PROVE  status'[j] = status[j]
  BY <1>2, <1>5 DEF ControlStep, StartTask, CheckCancel, WriteCancelled, files
<1> QED BY <1>3, <1>4, <1>5 DEF Next

\* For any daemons at once, a terminal record is never replaced by another:
\* recovery, reaping and the worker's own result never meet (codex_job_daemon.py,
\* recover_abandoned_jobs and reap_workers; codex_job_worker.py, main).
THEOREM TerminalStatusIsFinal ==
    ASSUME Cancellable = {}, Quiet
    PROVE  Spec => TerminalIsFinal
<1>1. ASSUME FaultBound, TypeInv PROVE NoDaemonEnded
  <2>1. ASSUME NEW k \in {"daemon", "stop"} PROVE faults[k] = 0
    <3>1. k \in FaultKinds
      BY DEF FaultKinds
    <3>2. faults[k] \in Nat /\ faults[k] <= MaxFaults[k] /\ MaxFaults[k] = 0
      BY <1>1, <3>1 DEF FaultBound, Quiet, TypeInv, TypeOK
    <3> QED BY <3>2
  <2> QED BY <2>1 DEF NoDaemonEnded
<1>2. FaultBound /\ DispatchIInvariant /\ [Next]_vars
      => [\A j \in Jobs : status[j] \in Terminal => status'[j] = status[j]]_status
  BY <1>1, TerminalStays DEF DispatchIInvariant, DispatchIInv, vars, files
<1> QED BY <1>2, FaultBoundHolds, DispatchIsInvariant, PTL DEF Spec, TerminalIsFinal
=============================================================================
