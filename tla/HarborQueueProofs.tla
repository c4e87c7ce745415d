------------------------- MODULE HarborQueueProofs -------------------------
(***************************************************************************)
(* Theorems about the Harbor queue, for any set of daemons, any finite set *)
(* of jobs, any harnesses and workspaces and any budget of faults.         *)
(***************************************************************************)
EXTENDS HarborQueue, FiniteSetTheorems, WellFoundedInduction, TLAPS

(***************************************************************************)
(* Arithmetic the model relies on.                                         *)
(***************************************************************************)
\* A nonempty finite set of natural numbers has a least element.  (Of its
\* initial segments one is minimal for inclusion.)
LEMMA LeastNatural ==
    ASSUME NEW S \in SUBSET Nat, IsFiniteSet(S), S # {}
    PROVE  \E j \in S : \A k \in S : j <= k
<1> DEFINE UpTo(j) == {k \in S : k <= j}
           Segments == {UpTo(j) : j \in S}
           R == StrictSubsetOrdering(S)
<1>1. IsWellFoundedOn(R, FiniteSubsetsOf(S))
  BY FS_StrictSubsetOrderingWellFounded
<1>2. Segments \subseteq FiniteSubsetsOf(S) /\ Segments # {}
  <2>1. \A j \in S : UpTo(j) \in SUBSET S /\ IsFiniteSet(UpTo(j))
    BY FS_Subset
  <2> QED BY <2>1 DEF FiniteSubsetsOf
<1>3. PICK T \in Segments : \A U \in Segments : <<U, T>> \notin R
  <2> HIDE DEF R, Segments
  <2> QED BY <1>1, <1>2, WFMin
<1>4. PICK j \in S : T = UpTo(j)
  OBVIOUS
<1>5. ASSUME NEW k \in S PROVE j <= k
  <2> SUFFICES ASSUME k < j PROVE FALSE
    OBVIOUS
  <2>1. \A m \in S : m <= k => m <= j
    BY k \in Nat, j \in Nat, S \subseteq Nat
  <2>2. j <= j /\ ~(j <= k)
    BY k \in Nat, j \in Nat
  <2>3. UpTo(k) \subseteq T /\ j \in T /\ j \notin UpTo(k)
    <3> HIDE DEF Segments
    <3> QED BY <1>4, <2>1, <2>2
  <2>4. <<UpTo(k), T>> \in R
    BY <2>3, <1>2, UpTo(k) \in Segments, T \in Segments
    DEF StrictSubsetOrdering, FiniteSubsetsOf
  <2> QED BY <1>3, <2>4
<1> QED BY <1>5

\* The job a daemon takes next is one of those it may take.
LEMMA OldestIsMember ==
    ASSUME NEW S \in SUBSET Jobs, S # {}
    PROVE  Oldest(S) \in S
<1>1. S \in SUBSET Nat /\ IsFiniteSet(S)
  BY StateAssumption, FS_Subset
<1>2. \E j \in S : \A k \in S : j <= k
  BY <1>1, LeastNatural
<1> QED BY <1>2 DEF Oldest

\* The number of occupied slots is a number.
LEMMA OccupiedIsFinite ==
    ASSUME NEW S \in SUBSET Jobs
    PROVE  Cardinality(S) \in Nat
BY StateAssumption, FS_Subset, FS_CardinalityType

(***************************************************************************)
(* Types.                                                                  *)
(***************************************************************************)
\* A daemon that takes or replaces a lease has a job in hand, and one that
\* registers a child has chosen it: without that, current[d] and chosen[d]
\* would not say whose file the step writes.
HandOK ==
    \A d \in Daemons :
        /\ daemonPc[d] \in {"lease", "unlink_lease", "create_lease"} => current[d] \in Jobs
        /\ daemonPc[d] = "identify" => chosen[d] # {}

TypeInv == TypeOK /\ HandOK

\* The empty jobs directory is well typed.
LEMMA TypeInit == Init => TypeInv
BY StateAssumption, DaemonAssumption
DEF Init, InitQueueState, InitDaemon, InitWorker, InitControl, TypeInv, TypeOK, HandOK,
    Statuses, DaemonPcs, WorkerPcs, CancelPcs

\* The counters of faults stay numbers.
LEMMA FaultType ==
    ASSUME faults \in [FaultKinds -> Nat], NEW k \in FaultKinds, Fault(k)
    PROVE  faults' \in [FaultKinds -> Nat]
BY DEF Fault

\* Whether or not the child's handler runs, its files keep their shape.
LEMMA TerminateTreeType ==
    ASSUME TypeOK, NEW d \in Daemons, NEW j \in Jobs, TerminateTree(d, j)
    PROVE  /\ status' \in [Jobs -> Statuses]
           /\ workerLock' \in [Jobs -> Workers \cup {None}]
           /\ pidWritten' \in [Jobs -> BOOLEAN]
           /\ workerPc' \in [Workers -> WorkerPcs]
<1>1. workerPc' \in [Workers -> WorkerPcs]
  BY DEF TypeOK, TerminateTree, WorkerPcs
<1>2. CASE /\ status' = [status EXCEPT ![j] = "failed"]
           /\ workerLock' = [workerLock EXCEPT ![j] = None]
           /\ pidWritten' = [pidWritten EXCEPT ![j] = FALSE]
  <2>1. "failed" \in Statuses
    BY DEF Statuses, Terminal
  <2> QED BY <1>1, <1>2, <2>1 DEF TypeOK
<1>3. CASE UNCHANGED <<status, workerLock, pidWritten>>
  BY <1>1, <1>3 DEF TypeOK
<1> QED BY <1>2, <1>3 DEF TerminateTree

\* A process starts, dies, is told to stop or is terminated: main, shutdown.
LEMMA TypeLifeOfDaemon ==
    ASSUME TypeInv, NEW d \in Daemons, UNCHANGED <<ran, cancel>>,
           \/ StartDaemon(d) \/ CrashDaemon(d) \/ StopDaemon(d) \/ ExitDaemon(d)
           \/ \E j \in Jobs : TerminateWorker(d, j) \/ ReapWorker(d, j)
    PROVE  TypeInv'
<1>1. 1 \in DOMAIN HarnessOrder
  BY DaemonAssumption
<1>2. CASE StartDaemon(d)
  BY <1>2 DEF TypeInv, TypeOK, HandOK, StartDaemon, Goto, DaemonPcs, files
<1>3. CASE CrashDaemon(d)
  <2>1. faults' \in [FaultKinds -> Nat]
    BY <1>3, FaultType DEF CrashDaemon, FaultKinds, TypeInv, TypeOK
  <2> QED BY <1>1, <1>3, <2>1
      DEF TypeInv, TypeOK, HandOK, CrashDaemon, Forget, Goto, DaemonPcs, files
<1>4. CASE StopDaemon(d)
  <2>1. faults' \in [FaultKinds -> Nat]
    BY <1>4, FaultType DEF StopDaemon, FaultKinds, TypeInv, TypeOK
  <2>2. harnessLock' \in [Harnesses -> Daemons \cup {None}]
    BY <1>4 DEF StopDaemon, TypeInv, TypeOK
  <2> QED BY <1>1, <1>4, <2>1, <2>2
      DEF TypeInv, TypeOK, HandOK, StopDaemon, Forget, Goto, DaemonPcs
<1>5. CASE ExitDaemon(d)
  BY <1>5 DEF TypeInv, TypeOK, HandOK, ExitDaemon, Goto, DaemonPcs, files
<1>6. ASSUME NEW j \in Jobs, TerminateWorker(d, j) PROVE TypeInv'
  BY <1>6, TerminateTreeType DEF TypeInv, TypeOK, HandOK, TerminateWorker, daemonVars
<1>7. ASSUME NEW j \in Jobs, ReapWorker(d, j) PROVE TypeInv'
  <2>1. /\ status' \in [Jobs -> Statuses]
        /\ lease' \in [Workspaces -> Lease \cup {None}]
        /\ dispatchLock' \in [Jobs -> Daemons \cup {None}]
        /\ active' \in [Daemons -> SUBSET Jobs]
    BY <1>7 DEF TypeInv, TypeOK, ReapWorker, LeasesReleasedBy, Statuses, Terminal
  <2> QED BY <1>7, <2>1 DEF TypeInv, TypeOK, HandOK, ReapWorker
<1> QED BY <1>2, <1>3, <1>4, <1>5, <1>6, <1>7

\* The index of the harness being visited never leaves supported_harnesses.
LEMMA NextHarnessType ==
    ASSUME TypeInv, NEW d \in Daemons, NextHarness(d)
    PROVE  /\ turn' \in [Daemons -> DOMAIN HarnessOrder]
           /\ queue' \in [Daemons -> SUBSET Jobs]
           /\ daemonPc' \in [Daemons -> DaemonPcs]
           /\ daemonPc'[d] \in {"lock", "idle"}
           /\ \A e \in Daemons \ {d} : daemonPc'[e] = daemonPc[e]
<1>1. Len(HarnessOrder) \in Nat /\ DOMAIN HarnessOrder = 1 .. Len(HarnessOrder)
  BY DaemonAssumption
<1>2. 1 \in DOMAIN HarnessOrder
  BY DaemonAssumption
<1>3. turn' \in [Daemons -> DOMAIN HarnessOrder] /\ queue' \in [Daemons -> SUBSET Jobs]
  <2>1. turn \in [Daemons -> DOMAIN HarnessOrder] /\ queue \in [Daemons -> SUBSET Jobs]
    BY DEF TypeInv, TypeOK
  <2>2. CASE turn[d] < Len(HarnessOrder)
    <3>1. turn[d] + 1 \in DOMAIN HarnessOrder
      BY <1>1, <2>1, <2>2
    <3> QED BY <2>1, <2>2, <3>1 DEF NextHarness
  <2>3. CASE ~(turn[d] < Len(HarnessOrder))
    BY <1>2, <2>1, <2>3 DEF NextHarness
  <2> QED BY <2>2, <2>3
<1> QED BY <1>3 DEF TypeInv, TypeOK, NextHarness, Goto, DaemonPcs

\* harness_dispatch_lock and the loop over the harnesses.
LEMMA TypeHarnessLock ==
    ASSUME TypeInv, NEW d \in Daemons, UNCHANGED <<ran, cancel>>,
           \/ ScanQueue(d) \/ SkipDisabledHarness(d) \/ FindStaleHarnessLock(d)
           \/ UnlinkHarnessLock(d) \/ AcquireHarnessLock(d) \/ HarnessLockBusy(d)
           \/ ReleaseHarnessLock(d) \/ FinishHarness(d)
    PROVE  TypeInv'
<1>1. CASE ScanQueue(d)
  <2>1. QueuedJobs \in SUBSET Jobs /\ 1 \in DOMAIN HarnessOrder
    BY DaemonAssumption DEF QueuedJobs, Unclaimed
  <2>2. DispatchLocksAfterLookingAt(Unclaimed) \in [Jobs -> Daemons \cup {None}]
    BY DEF DispatchLocksAfterLookingAt, TypeInv, TypeOK
  <2> QED BY <1>1, <2>1, <2>2 DEF TypeInv, TypeOK, HandOK, ScanQueue, Goto, DaemonPcs
<1>2. CASE SkipDisabledHarness(d)
  BY <1>2, NextHarnessType DEF TypeInv, TypeOK, HandOK, SkipDisabledHarness, files
<1>3. CASE FindStaleHarnessLock(d)
  BY <1>3 DEF TypeInv, TypeOK, HandOK, FindStaleHarnessLock, Goto, DaemonPcs, files
<1>4. CASE UnlinkHarnessLock(d)
  BY <1>4 DEF TypeInv, TypeOK, HandOK, UnlinkHarnessLock, Goto, DaemonPcs
<1>5. CASE AcquireHarnessLock(d)
  BY <1>5 DEF TypeInv, TypeOK, HandOK, AcquireHarnessLock, Goto, DaemonPcs, CriticalSection
<1>6. CASE HarnessLockBusy(d)
  <2>1. CASE Goto(d, "lock") /\ UNCHANGED <<turn, queue>>
    BY <1>6, <2>1 DEF TypeInv, TypeOK, HandOK, HarnessLockBusy, Goto, DaemonPcs, files
  <2>2. CASE NextHarness(d)
    BY <1>6, <2>2, NextHarnessType DEF TypeInv, TypeOK, HandOK, HarnessLockBusy, files
  <2> QED BY <1>6, <2>1, <2>2 DEF HarnessLockBusy
<1>7. CASE ReleaseHarnessLock(d)
  BY <1>7 DEF TypeInv, TypeOK, HandOK, ReleaseHarnessLock, Goto, DaemonPcs
<1>8. CASE FinishHarness(d)
  BY <1>8, NextHarnessType DEF TypeInv, TypeOK, HandOK, FinishHarness, files
<1> QED BY <1>1, <1>2, <1>3, <1>4, <1>5, <1>6, <1>7, <1>8

\* Under the harness dispatch lock: recovery, count, reservations, leases.
LEMMA TypeReservation ==
    ASSUME TypeInv, NEW d \in Daemons, UNCHANGED <<ran, cancel>>,
           \/ \E aged \in SUBSET Jobs : RecoverAbandonedJobs(d, aged)
           \/ CountSlots(d) \/ ReserveJob(d) \/ FindStaleLease(d) \/ UnlinkLease(d)
           \/ AcquireLease(d) \/ LeaseRefused(d)
    PROVE  TypeInv'
<1>1. ASSUME NEW aged \in SUBSET Jobs, RecoverAbandonedJobs(d, aged) PROVE TypeInv'
  <2>1. status' \in [Jobs -> Statuses] /\ lease' \in [Workspaces -> Lease \cup {None}]
    BY <1>1 DEF TypeInv, TypeOK, RecoverAbandonedJobs, LeasesReleasedBy, Statuses, Terminal
  <2>2. /\ workerLock' \in [Jobs -> Workers \cup {None}]
        /\ pidWritten' \in [Jobs -> BOOLEAN]
        /\ dispatchLock' \in [Jobs -> Daemons \cup {None}]
    BY <1>1 DEF TypeInv, TypeOK, RecoverAbandonedJobs
  <2> QED BY <1>1, <2>1, <2>2
      DEF TypeInv, TypeOK, HandOK, RecoverAbandonedJobs, Goto, DaemonPcs, CriticalSection
<1>2. CASE CountSlots(d)
  <2> DEFINE h == HarnessAt(d)
             occupied == Cardinality(Occupied(d, h))
  <2>1. occupied \in Nat
    <3>1. Occupied(d, h) \in SUBSET Jobs
      BY DEF Occupied, DiskActiveJobIds, TypeInv, TypeOK
    <3> QED BY <3>1, OccupiedIsFinite
  <2>2. Limit[h] \in Nat
    BY DaemonAssumption DEF HarnessAt, TypeInv, TypeOK
  <2>3. slots' \in [Daemons -> Nat]
    <3>1. slots' = [slots EXCEPT ![d] = IF occupied < Limit[h] THEN Limit[h] - occupied ELSE 0]
      BY <1>2 DEF CountSlots
    <3> HIDE DEF h, occupied
    <3> QED BY <2>1, <2>2, <3>1 DEF TypeInv, TypeOK
  <2>4. dispatchLock' \in [Jobs -> Daemons \cup {None}]
    BY <1>2 DEF CountSlots, DispatchLocksAfterLookingAt, TypeInv, TypeOK
  <2> QED BY <1>2, <2>3, <2>4
      DEF TypeInv, TypeOK, HandOK, CountSlots, Goto, DaemonPcs, CriticalSection
<1>3. CASE ReserveJob(d)
  <2> DEFINE j == Oldest(Candidates(d))
  <2>1. j \in Jobs
    <3>1. Candidates(d) \in SUBSET Jobs
      BY DEF Candidates, TypeInv, TypeOK
    <3>2. Candidates(d) # {}
      BY <1>3 DEF ReserveJob, MoreToReserve
    <3> QED BY <3>1, <3>2, OldestIsMember
  <2>2. queue' \in [Daemons -> SUBSET Jobs]
    BY <1>3 DEF ReserveJob, TypeInv, TypeOK
  <2>3. CASE UNCHANGED <<dispatchLock, current, daemonPc>>
    BY <1>3, <2>2, <2>3 DEF TypeInv, TypeOK, HandOK, ReserveJob
  <2>4. CASE /\ dispatchLock' = [dispatchLock EXCEPT ![j] = d]
             /\ current' = [current EXCEPT ![d] = j]
             /\ Goto(d, "lease")
    <3> HIDE DEF j
    <3> QED BY <1>3, <2>1, <2>2, <2>4
        DEF TypeInv, TypeOK, HandOK, ReserveJob, Goto, DaemonPcs, CriticalSection
  <2> QED BY <1>3, <2>3, <2>4 DEF ReserveJob
<1>4. CASE FindStaleLease(d)
  BY <1>4 DEF TypeInv, TypeOK, HandOK, FindStaleLease, Goto, DaemonPcs, CriticalSection, files
<1>5. CASE UnlinkLease(d)
  BY <1>5 DEF TypeInv, TypeOK, HandOK, UnlinkLease, Goto, DaemonPcs, CriticalSection
<1>6. CASE AcquireLease(d)
  <2>1. current[d] \in Jobs
    BY <1>6 DEF AcquireLease, TypeInv, HandOK
  <2>2. [owner |-> d, job |-> current[d]] \in Lease
    BY <2>1 DEF Lease
  <2>3. /\ lease' \in [Workspaces -> Lease \cup {None}]
        /\ chosen' \in [Daemons -> SUBSET Jobs]
        /\ current' \in [Daemons -> Jobs \cup {None}]
    <3>1. /\ lease \in [Workspaces -> Lease \cup {None}]
          /\ chosen \in [Daemons -> SUBSET Jobs]
          /\ current \in [Daemons -> Jobs \cup {None}]
      BY DEF TypeInv, TypeOK
    <3> QED BY <1>6, <2>1, <2>2, <3>1 DEF AcquireLease
  <2>4. /\ daemonPc' = [daemonPc EXCEPT ![d] = "reserve"]
        /\ daemonPc' \in [Daemons -> DaemonPcs]
    BY <1>6 DEF TypeInv, TypeOK, AcquireLease, Goto, DaemonPcs, CriticalSection
  <2>5. TypeOK'
    BY <1>6, <2>3, <2>4 DEF TypeInv, TypeOK, AcquireLease
  <2> QED BY <1>6, <2>4, <2>5 DEF TypeInv, TypeOK, HandOK, AcquireLease
<1>7. CASE LeaseRefused(d)
  BY <1>7 DEF TypeInv, TypeOK, HandOK, LeaseRefused, Goto, DaemonPcs, CriticalSection
<1> QED BY <1>1, <1>2, <1>3, <1>4, <1>5, <1>6, <1>7

\* spawn_worker and the registration of its child.
LEMMA TypeSpawn ==
    ASSUME TypeInv, NEW d \in Daemons, UNCHANGED <<ran, cancel>>,
           \/ SpawnWorker(d) \/ RegisterWorker(d) \/ IdentityNotWritten(d) \/ SpawnFails(d)
    PROVE  TypeInv'
<1> DEFINE j == Oldest(chosen[d])
<1>1. chosen[d] # {} => j \in chosen[d] /\ j \in Jobs
  BY OldestIsMember DEF TypeInv, TypeOK
<1>2. LeasesReleasedBy({j}) \in [Workspaces -> Lease \cup {None}]
  BY DEF LeasesReleasedBy, TypeInv, TypeOK
<1>3. daemonPc[d] = "identify" => chosen[d] # {}
  BY DEF TypeInv, HandOK
<1>4. CASE SpawnWorker(d)
  <2>1. <<d, j>> \in Workers
    BY <1>1, <1>4 DEF SpawnWorker, Workers
  <2> HIDE DEF j
  <2>2. workerPc' = [workerPc EXCEPT ![<<d, j>>] = "boot"]
    BY <1>4 DEF SpawnWorker, j
  <2> QED BY <1>4, <2>1, <2>2
      DEF TypeInv, TypeOK, HandOK, SpawnWorker, Goto, DaemonPcs, WorkerPcs, files
<1>5. CASE RegisterWorker(d)
  <2>1. j \in Jobs /\ <<d, j>> \in Workers
    BY <1>1, <1>3, <1>5 DEF RegisterWorker, Workers
  <2>2. identity' \in [Jobs -> Workers \cup {None}] /\ faults' \in [FaultKinds -> Nat]
    <3>1. "identity" \in FaultKinds
      BY DEF FaultKinds
    <3>2. identity \in [Jobs -> Workers \cup {None}] /\ faults \in [FaultKinds -> Nat]
      BY DEF TypeInv, TypeOK
    <3>3. \/ identity' = [identity EXCEPT ![j] = <<d, j>>] /\ faults' = faults
          \/ identity' = identity /\ Fault("identity")
      BY <1>5 DEF RegisterWorker
    <3> HIDE DEF j
    <3> QED BY <2>1, <3>1, <3>2, <3>3, FaultType
  <2>3. active' \in [Daemons -> SUBSET Jobs] /\ chosen' \in [Daemons -> SUBSET Jobs]
    BY <1>5, <2>1 DEF RegisterWorker, TypeInv, TypeOK
  <2> QED BY <1>5, <2>2, <2>3 DEF TypeInv, TypeOK, HandOK, RegisterWorker, Goto, DaemonPcs
<1>6. CASE IdentityNotWritten(d)
  <2>1. j \in Jobs /\ TerminateTree(d, j)
    BY <1>1, <1>3, <1>6 DEF IdentityNotWritten
  <2>2. faults' \in [FaultKinds -> Nat]
    BY <1>6, FaultType DEF IdentityNotWritten, FaultKinds, TypeInv, TypeOK
  <2>3. /\ status' \in [Jobs -> Statuses]
        /\ workerLock' \in [Jobs -> Workers \cup {None}]
        /\ pidWritten' \in [Jobs -> BOOLEAN]
        /\ workerPc' \in [Workers -> WorkerPcs]
    BY <2>1, TerminateTreeType DEF TypeInv
  <2>4. /\ dispatchLock' \in [Jobs -> Daemons \cup {None}]
        /\ chosen' \in [Daemons -> SUBSET Jobs]
        /\ lease' \in [Workspaces -> Lease \cup {None}]
    BY <1>2, <1>6, <2>1 DEF IdentityNotWritten, TypeInv, TypeOK
  <2> QED BY <1>6, <2>2, <2>3, <2>4
      DEF TypeInv, TypeOK, HandOK, IdentityNotWritten, Goto, DaemonPcs
<1>7. CASE SpawnFails(d)
  <2>1. faults' \in [FaultKinds -> Nat]
    BY <1>7, FaultType DEF SpawnFails, FaultKinds, TypeInv, TypeOK
  <2>2. /\ dispatchLock' \in [Jobs -> Daemons \cup {None}]
        /\ chosen' \in [Daemons -> SUBSET Jobs]
        /\ lease' \in [Workspaces -> Lease \cup {None}]
    BY <1>1, <1>2, <1>7 DEF SpawnFails, TypeInv, TypeOK
  <2> QED BY <1>7, <2>1, <2>2 DEF TypeInv, TypeOK, HandOK, SpawnFails
<1> QED BY <1>4, <1>5, <1>6, <1>7

\* The worker process: claim_job, main, release_job_lock.
LEMMA TypeWorker ==
    ASSUME TypeInv, NEW w \in Workers, WorkerStep(w), UNCHANGED <<daemonVars, cancel>>
    PROVE  TypeInv'
<1> USE DEF TypeInv, TypeOK, HandOK, WorkerGoto, WorkerPcs, Statuses, Terminal, daemonVars
<1>1. w[2] \in Jobs
  BY DEF Workers
<1>2. CASE CreateWorkerLock(w)
  <2>1. CASE workerLock[w[2]] = None
    <3>1. /\ workerLock' = [workerLock EXCEPT ![w[2]] = w]
          /\ pidWritten' = [pidWritten EXCEPT ![w[2]] = FALSE]
          /\ workerPc' = [workerPc EXCEPT ![w] = "locked"]
      BY <1>2, <2>1 DEF CreateWorkerLock
    <3>2. /\ workerLock' \in [Jobs -> Workers \cup {None}]
          /\ pidWritten' \in [Jobs -> BOOLEAN]
      BY <1>1, <3>1
    <3> QED BY <1>2, <3>1, <3>2 DEF CreateWorkerLock
  <2>2. CASE workerLock[w[2]] # None
    BY <1>1, <1>2, <2>2 DEF CreateWorkerLock
  <2> QED BY <2>1, <2>2
<1>3. CASE WriteWorkerPid(w)
  <2>1. workerPc' \in [Workers -> WorkerPcs]
    BY <1>3 DEF WriteWorkerPid
  <2>2. pidWritten' \in [Jobs -> BOOLEAN]
    BY <1>1, <1>3 DEF WriteWorkerPid
  <2> QED BY <1>3, <2>1, <2>2 DEF WriteWorkerPid
<1>4. CASE ReadStatus(w)
  BY <1>4 DEF ReadStatus, files
<1>5. CASE WriteRunning(w)
  BY <1>1, <1>5 DEF WriteRunning
<1>6. CASE WriteProgress(w)
  BY <1>1, <1>6 DEF WriteProgress
<1>7. CASE WriteResult(w)
  BY <1>1, <1>7 DEF WriteResult
<1>8. CASE WrapperError(w)
  <2>1. faults' \in [FaultKinds -> Nat]
    BY <1>8, FaultType DEF WrapperError, FaultKinds
  <2> QED BY <1>1, <1>8, <2>1 DEF WrapperError
<1>9. CASE ReleaseJobLock(w)
  BY <1>1, <1>9 DEF ReleaseJobLock
<1>10. CASE CrashWorker(w)
  <2>1. faults' \in [FaultKinds -> Nat]
    BY <1>10, FaultType DEF CrashWorker, FaultKinds
  <2> QED BY <1>10, <2>1 DEF CrashWorker, files
<1>11. CASE OrphanEnds(w)
  BY <1>11 DEF OrphanEnds, files
<1> QED BY <1>2, <1>3, <1>4, <1>5, <1>6, <1>7, <1>8, <1>9, <1>10, <1>11
    DEF WorkerStep, Work

\* start_task and cancel_task.
LEMMA TypeControl ==
    ASSUME TypeInv, NEW j \in Jobs, ControlStep(j), UNCHANGED <<daemonVars, ran>>
    PROVE  TypeInv'
<1> USE DEF TypeInv, TypeOK, HandOK, Statuses, Terminal, CancelPcs, daemonVars
<1>1. CASE StartTask(j)
  BY <1>1 DEF StartTask
<1>2. CASE CheckCancel(j)
  BY <1>2 DEF CheckCancel, files
<1>3. CASE WriteCancelled(j)
  BY <1>3 DEF WriteCancelled
<1> QED BY <1>1, <1>2, <1>3 DEF ControlStep

\* Every step of the queue preserves the types.
LEMMA TypeNext == TypeInv /\ [Next]_vars => TypeInv'
<1> SUFFICES ASSUME TypeInv, [Next]_vars PROVE TypeInv'
  OBVIOUS
<1>1. ASSUME NEW d \in Daemons, DaemonStep(d), UNCHANGED <<ran, cancel>> PROVE TypeInv'
  BY <1>1, TypeLifeOfDaemon, TypeHarnessLock, TypeReservation, TypeSpawn
  DEF DaemonStep, Tick
<1>2. CASE UNCHANGED vars
  BY <1>2 DEF TypeInv, TypeOK, HandOK, vars, files, daemonVars
<1> QED BY <1>1, <1>2, TypeWorker, TypeControl DEF Next

\* In every behaviour of the queue, its files, processes and the memory of its
\* daemons have the types TypeOK gives them: no step of tick indexes past the
\* last harness, takes a job it does not have, or writes a lock in the name of
\* something that is not a process.
THEOREM TypeCorrect == Spec => []TypeOK
<1>1. TypeInv => TypeOK
  BY DEF TypeInv
<1> QED BY <1>1, TypeInit, TypeNext, PTL DEF Spec

(***************************************************************************)
(* The jobs of another queue root: cancel_task, recovery and the reaping   *)
(* look at the fingerprint in the record before they write it.             *)
(***************************************************************************)
\* No cancellation of such a job gets past the look at its record.
ForeignInv == \A j \in Foreign : cancel[j] # "checked"

LEMMA ForeignInit == Init => ForeignInv
BY StateAssumption DEF Init, InitControl, ForeignInv

LEMMA ForeignNext ==
    ASSUME TypeInv, ForeignInv, [Next]_vars
    PROVE  ForeignInv'
<1>1. ASSUME NEW j \in Jobs, ControlStep(j) PROVE ForeignInv'
  BY <1>1, StateAssumption
     DEF ControlStep, StartTask, CheckCancel, WriteCancelled, ForeignInv, TypeInv, TypeOK
<1> QED BY <1>1 DEF Next, vars, ForeignInv

\* What a step does to the record of such a job.
ForeignKept(j) ==
    \/ status'[j] = status[j]
    \/ status[j] = "absent"
    \/ \E d \in Daemons : workerPc'[<<d, j>>] # workerPc[<<d, j>>]
    \/ status'[j] = "running"

LEMMA ForeignTerminated ==
    ASSUME TypeInv, NEW d \in Daemons, NEW k \in Jobs, TerminateTree(d, k),
           NEW j \in Foreign
    PROVE  ForeignKept(j)
<1>1. CASE j # k
  BY <1>1, StateAssumption DEF TerminateTree, ForeignKept, TypeInv, TypeOK
<1>2. CASE j = k /\ status' # status
  <2>1. workerPc'[<<d, k>>] # workerPc[<<d, k>>]
    BY <1>2 DEF TerminateTree, TypeInv, TypeOK, Workers
  <2> QED BY <1>2, <2>1 DEF ForeignKept
<1> QED BY <1>1, <1>2 DEF ForeignKept

LEMMA ForeignDaemon ==
    ASSUME TypeInv, NEW d \in Daemons, DaemonStep(d), NEW j \in Foreign
    PROVE  ForeignKept(j)
<1>1. CASE \/ StartDaemon(d) \/ CrashDaemon(d) \/ StopDaemon(d) \/ ExitDaemon(d)
  BY <1>1 DEF StartDaemon, CrashDaemon, StopDaemon, ExitDaemon, files, ForeignKept
<1>2. ASSUME NEW k \in Jobs, TerminateWorker(d, k) PROVE ForeignKept(j)
  BY <1>2, ForeignTerminated DEF TerminateWorker
<1>3. ASSUME NEW k \in Jobs, ReapWorker(d, k) PROVE ForeignKept(j)
  BY <1>3, StateAssumption DEF ReapWorker, ForeignKept, TypeInv, TypeOK
<1>4. ASSUME NEW aged \in SUBSET Jobs, RecoverAbandonedJobs(d, aged)
      PROVE  ForeignKept(j)
  BY <1>4, StateAssumption DEF RecoverAbandonedJobs, Abandoned, ForeignKept
<1>5. CASE IdentityNotWritten(d)
  <2>1. Oldest(chosen[d]) \in Jobs
    BY <1>5, OldestIsMember DEF IdentityNotWritten, TypeInv, TypeOK, HandOK
  <2> QED BY <1>5, <2>1, ForeignTerminated DEF IdentityNotWritten
<1>6. CASE \/ ScanQueue(d) \/ SkipDisabledHarness(d) \/ FindStaleHarnessLock(d)
           \/ UnlinkHarnessLock(d) \/ AcquireHarnessLock(d) \/ HarnessLockBusy(d)
           \/ CountSlots(d) \/ ReserveJob(d) \/ FindStaleLease(d) \/ UnlinkLease(d)
  BY <1>6 DEF ScanQueue, SkipDisabledHarness, FindStaleHarnessLock,
     UnlinkHarnessLock, AcquireHarnessLock, HarnessLockBusy, CountSlots, ReserveJob,
     FindStaleLease, UnlinkLease, files, ForeignKept
<1>7. CASE \/ AcquireLease(d) \/ LeaseRefused(d) \/ ReleaseHarnessLock(d)
           \/ SpawnWorker(d) \/ RegisterWorker(d) \/ SpawnFails(d) \/ FinishHarness(d)
  BY <1>7 DEF AcquireLease, LeaseRefused, ReleaseHarnessLock, SpawnWorker,
     RegisterWorker, SpawnFails, FinishHarness, files, ForeignKept
<1> QED BY <1>1, <1>2, <1>3, <1>4, <1>5, <1>6, <1>7 DEF DaemonStep, Tick

LEMMA ForeignWorker ==
    ASSUME TypeInv, NEW w \in Workers, WorkerStep(w), NEW j \in Foreign
    PROVE  ForeignKept(j)
<1>1. CASE WriteRunning(w) \/ WriteProgress(w)
  BY <1>1, StateAssumption DEF WriteRunning, WriteProgress, ForeignKept, TypeInv,
     TypeOK, Workers
<1>2. CASE WriteResult(w) \/ WrapperError(w)
  <2>1. CASE w[2] # j
    BY <1>2, <2>1, StateAssumption DEF WriteResult, WrapperError, ForeignKept,
       TypeInv, TypeOK
  <2>2. CASE w[2] = j
    <3>1. w = <<w[1], j>> /\ w[1] \in Daemons
      BY <2>2 DEF Workers
    <3>2. workerPc'[w] # workerPc[w]
      BY <1>2 DEF WriteResult, WrapperError, WorkerGoto, TypeInv, TypeOK
    <3> QED BY <3>1, <3>2 DEF ForeignKept
  <2> QED BY <2>1, <2>2
<1>3. CASE \/ CreateWorkerLock(w) \/ WriteWorkerPid(w) \/ ReadStatus(w)
           \/ ReleaseJobLock(w) \/ CrashWorker(w) \/ OrphanEnds(w)
  BY <1>3 DEF CreateWorkerLock, WriteWorkerPid, ReadStatus, ReleaseJobLock,
     CrashWorker, OrphanEnds, files, ForeignKept
<1> QED BY <1>1, <1>2, <1>3 DEF WorkerStep, Work

\* Whatever fails, whoever is restarted and however many daemons there are,
\* recovery, reaping and cancellation leave the record of a job that names
\* another queue root as it is; only its own worker writes it.
THEOREM ForeignIsLeftAlone == Spec => ForeignLeftAlone
<1>1. TypeInv /\ ForeignInv /\ [Next]_vars => TypeInv' /\ ForeignInv'
  BY TypeNext, ForeignNext
<1>2. TypeInv /\ ForeignInv /\ [Next]_vars
        => [\A j \in Foreign :
              \/ status'[j] = status[j]
              \/ status[j] = "absent"
              \/ \E d \in Daemons : workerPc'[<<d, j>>] # workerPc[<<d, j>>]
              \/ status'[j] = "running"]_vars
  <2> SUFFICES ASSUME TypeInv, ForeignInv, Next, NEW j \in Foreign
               PROVE  ForeignKept(j)
    BY DEF ForeignKept
  <2>1. ASSUME NEW k \in Jobs, ControlStep(k) PROVE ForeignKept(j)
    BY <2>1, StateAssumption DEF ControlStep, StartTask, CheckCancel, WriteCancelled,
       files, ForeignInv, ForeignKept, TypeInv, TypeOK
  <2> QED BY <2>1, ForeignDaemon, ForeignWorker DEF Next
<1> QED BY <1>1, <1>2, TypeInit, ForeignInit, PTL DEF Spec, ForeignLeftAlone

(***************************************************************************)
(* The harness dispatch lock.  A daemon that crashes leaves its lock       *)
(* behind, and then the unlink of a stale lock and the release of a lock   *)
(* somebody else has replaced can both admit a second daemon.  As long as  *)
(* no daemon has crashed the lock works: stopping one, which releases its  *)
(* lock, is harmless.                                                      *)
(***************************************************************************)
\* The file is there exactly when its owner is inside, so that no daemon ever
\* finds a stale lock, and none is about to unlink one.
LockInv ==
    /\ \A h \in Harnesses : \A d \in Daemons :
          InCriticalSection(d, h) <=> harnessLock[h] = d
    /\ \A d \in Daemons : daemonPc[d] \notin {"unlink_lock", "create_lock"}

NoDaemonCrashed == faults["daemon"] = 0

LockIInv == TypeInv /\ (NoDaemonCrashed => LockInv)

\* A step of daemon d that changes neither the locks nor its own place in the
\* critical section, nor the other daemons.
LEMMA LockUntouched ==
    ASSUME TypeInv, LockInv, NEW d \in Daemons,
           UNCHANGED <<harnessLock, turn>>,
           \A e \in Daemons \ {d} : daemonPc'[e] = daemonPc[e],
           daemonPc'[d] \notin {"unlink_lock", "create_lock"},
           daemonPc[d] \in CriticalSection <=> daemonPc'[d] \in CriticalSection
    PROVE  LockInv'
BY DEF LockInv, InCriticalSection, HarnessAt

\* NextHarness is only taken outside the critical section.
LEMMA LockNextHarness ==
    ASSUME TypeInv, LockInv, NEW d \in Daemons, NextHarness(d), UNCHANGED harnessLock,
           daemonPc[d] \notin CriticalSection
    PROVE  LockInv'
<1>1. /\ daemonPc'[d] \in {"lock", "idle"}
      /\ \A e \in Daemons \ {d} : daemonPc'[e] = daemonPc[e] /\ turn'[e] = turn[e]
  BY NextHarnessType DEF NextHarness, TypeInv, TypeOK
<1>2. daemonPc'[d] \notin CriticalSection
  BY <1>1 DEF CriticalSection
<1> QED BY <1>1, <1>2 DEF LockInv, InCriticalSection, HarnessAt

\* No step takes a fault back, and only CrashDaemon counts a daemon's.
LEMMA FaultsGrow ==
    ASSUME faults \in [FaultKinds -> Nat], NEW k \in FaultKinds, Fault(k), NoDaemonCrashed'
    PROVE  NoDaemonCrashed /\ k # "daemon"
BY DEF Fault, NoDaemonCrashed, FaultKinds

\* d leaves the critical section and unlinks its lock.
LEMMA LockReleased ==
    ASSUME TypeInv, LockInv, NEW d \in Daemons, daemonPc[d] \in CriticalSection,
           harnessLock' = [harnessLock EXCEPT ![HarnessAt(d)] = None],
           daemonPc'[d] \notin CriticalSection \cup {"unlink_lock", "create_lock"},
           \A e \in Daemons \ {d} : daemonPc'[e] = daemonPc[e] /\ turn'[e] = turn[e]
    PROVE  LockInv'
<1>1. HarnessAt(d) \in Harnesses /\ harnessLock[HarnessAt(d)] = d
  BY DaemonAssumption DEF LockInv, InCriticalSection, HarnessAt, TypeInv, TypeOK
<1>2. None \notin Daemons
  BY StateAssumption
<1>3. ASSUME NEW h \in Harnesses, NEW e \in Daemons
      PROVE  InCriticalSection(e, h)' <=> harnessLock'[h] = e
  <2>1. CASE e = d
    <3>1. harnessLock'[h] # d
      BY <1>1, <1>2 DEF LockInv, InCriticalSection, TypeInv, TypeOK
    <3> QED BY <2>1, <3>1 DEF InCriticalSection
  <2>2. CASE e # d
    <3>1. InCriticalSection(e, h)' <=> InCriticalSection(e, h)
      BY <2>2 DEF InCriticalSection, HarnessAt
    <3>2. harnessLock'[h] = e <=> harnessLock[h] = e
      BY <1>1, <1>2, <2>2 DEF TypeInv, TypeOK
    <3> QED BY <3>1, <3>2 DEF LockInv
  <2> QED BY <2>1, <2>2
<1> QED BY <1>3 DEF LockInv

\* main and shutdown: a crash ends the premise, a stop releases the lock.
LEMMA LockLifeOfDaemon ==
    ASSUME TypeInv, NoDaemonCrashed => LockInv, NoDaemonCrashed', NEW d \in Daemons,
           \/ StartDaemon(d) \/ CrashDaemon(d) \/ StopDaemon(d) \/ ExitDaemon(d)
           \/ \E j \in Jobs : TerminateWorker(d, j) \/ ReapWorker(d, j)
    PROVE  LockInv'
<1> USE DEF CriticalSection
<1>1. CASE StartDaemon(d)
  BY <1>1, LockUntouched DEF StartDaemon, Goto, NoDaemonCrashed, files, TypeInv, TypeOK
<1>2. CASE CrashDaemon(d)
  BY <1>2, FaultsGrow DEF CrashDaemon, FaultKinds, TypeInv, TypeOK
<1>3. CASE StopDaemon(d)
  <2>1. NoDaemonCrashed
    BY <1>3, FaultsGrow DEF StopDaemon, FaultKinds, TypeInv, TypeOK
  <2>2. /\ daemonPc'[d] = "stopping"
        /\ \A e \in Daemons \ {d} : daemonPc'[e] = daemonPc[e] /\ turn'[e] = turn[e]
    BY <1>3 DEF StopDaemon, Forget, Goto, TypeInv, TypeOK
  <2>3. CASE daemonPc[d] \in CriticalSection
    BY <1>3, <2>1, <2>2, <2>3, LockReleased DEF StopDaemon
  <2>4. CASE daemonPc[d] \notin CriticalSection
    BY <1>3, <2>1, <2>2, <2>4 DEF StopDaemon, LockInv, InCriticalSection, HarnessAt
  <2> QED BY <2>3, <2>4
<1>4. CASE ExitDaemon(d)
  BY <1>4, LockUntouched DEF ExitDaemon, Goto, NoDaemonCrashed, files, TypeInv, TypeOK
<1>5. ASSUME NEW j \in Jobs, TerminateWorker(d, j) \/ ReapWorker(d, j) PROVE LockInv'
  BY <1>5, LockUntouched
  DEF TerminateWorker, ReapWorker, daemonVars, NoDaemonCrashed, LockInv
<1> QED BY <1>1, <1>2, <1>3, <1>4, <1>5

\* harness_dispatch_lock.
LEMMA LockHarnessLock ==
    ASSUME TypeInv, NoDaemonCrashed => LockInv, NoDaemonCrashed', NEW d \in Daemons,
           \/ ScanQueue(d) \/ SkipDisabledHarness(d) \/ FindStaleHarnessLock(d)
           \/ UnlinkHarnessLock(d) \/ AcquireHarnessLock(d) \/ HarnessLockBusy(d)
           \/ ReleaseHarnessLock(d) \/ FinishHarness(d)
    PROVE  LockInv'
<1> USE DEF CriticalSection
<1>1. LockInv
  BY DEF NoDaemonCrashed, ScanQueue, SkipDisabledHarness, FindStaleHarnessLock,
         UnlinkHarnessLock, AcquireHarnessLock, HarnessLockBusy, ReleaseHarnessLock,
         FinishHarness
<1>2. HarnessAt(d) \in Harnesses /\ None \notin Daemons
  BY StateAssumption, DaemonAssumption DEF HarnessAt, TypeInv, TypeOK
<1>3. CASE ScanQueue(d)
  <2>1. \A e \in Daemons \ {d} : daemonPc'[e] = daemonPc[e] /\ turn'[e] = turn[e]
    BY <1>3 DEF ScanQueue, Goto, TypeInv, TypeOK
  <2>2. daemonPc[d] = "idle" /\ daemonPc'[d] = "lock" /\ UNCHANGED harnessLock
    BY <1>3 DEF ScanQueue, Goto, TypeInv, TypeOK
  <2> QED BY <1>1, <2>1, <2>2 DEF LockInv, InCriticalSection, HarnessAt
<1>4. CASE SkipDisabledHarness(d)
  BY <1>1, <1>4, LockNextHarness DEF SkipDisabledHarness, files
<1>5. CASE FindStaleHarnessLock(d)
  <2>1. PICK owner \in Daemons : harnessLock[HarnessAt(d)] = owner /\ ~DaemonAlive(owner)
    BY <1>2, <1>5 DEF FindStaleHarnessLock, TypeInv, TypeOK
  <2>2. InCriticalSection(owner, HarnessAt(d))
    BY <1>1, <1>2, <2>1 DEF LockInv
  <2> QED BY <2>1, <2>2 DEF InCriticalSection, DaemonAlive
<1>6. CASE UnlinkHarnessLock(d)
  BY <1>1, <1>6 DEF UnlinkHarnessLock, LockInv
<1>7. CASE AcquireHarnessLock(d)
  <2>1. /\ daemonPc[d] = "lock" /\ daemonPc'[d] = "recover" /\ UNCHANGED turn
        /\ \A e \in Daemons \ {d} : daemonPc'[e] = daemonPc[e]
    BY <1>1, <1>7 DEF AcquireHarnessLock, LockInv, Goto, TypeInv, TypeOK
  <2>2. /\ harnessLock[HarnessAt(d)] = None
        /\ harnessLock' = [harnessLock EXCEPT ![HarnessAt(d)] = d]
    BY <1>7 DEF AcquireHarnessLock
  <2>3. ASSUME NEW h \in Harnesses, NEW e \in Daemons
        PROVE  InCriticalSection(e, h)' <=> harnessLock'[h] = e
    <3>1. CASE h = HarnessAt(d)
      BY <1>1, <1>2, <2>1, <2>2, <3>1
      DEF LockInv, InCriticalSection, HarnessAt, TypeInv, TypeOK
    <3>2. CASE h # HarnessAt(d)
      BY <1>1, <1>2, <2>1, <2>2, <3>2
      DEF LockInv, InCriticalSection, HarnessAt, TypeInv, TypeOK
    <3> QED BY <3>1, <3>2
  <2> QED BY <1>1, <2>1, <2>3 DEF LockInv
<1>8. CASE HarnessLockBusy(d)
  <2>1. daemonPc[d] = "lock" /\ UNCHANGED harnessLock
    BY <1>1, <1>8 DEF HarnessLockBusy, LockInv, files
  <2>2. CASE Goto(d, "lock") /\ UNCHANGED <<turn, queue>>
    BY <1>1, <2>1, <2>2, LockUntouched DEF Goto, TypeInv, TypeOK
  <2>3. CASE NextHarness(d)
    BY <1>1, <2>1, <2>3, LockNextHarness
  <2> QED BY <1>8, <2>2, <2>3 DEF HarnessLockBusy
<1>9. CASE ReleaseHarnessLock(d)
  <2>1. daemonPc'[d] = "spawn" /\ \A e \in Daemons \ {d} : daemonPc'[e] = daemonPc[e]
    BY <1>9 DEF ReleaseHarnessLock, Goto, TypeInv, TypeOK
  <2> QED BY <1>1, <1>9, <2>1, LockReleased DEF ReleaseHarnessLock
<1>10. CASE FinishHarness(d)
  BY <1>1, <1>10, LockNextHarness DEF FinishHarness, files
<1> QED BY <1>3, <1>4, <1>5, <1>6, <1>7, <1>8, <1>9, <1>10

\* What a daemon does under the lock, or after it, without giving it up.
LEMMA LockTick ==
    ASSUME TypeInv, NoDaemonCrashed => LockInv, NoDaemonCrashed', NEW d \in Daemons,
           \/ \E aged \in SUBSET Jobs : RecoverAbandonedJobs(d, aged)
           \/ CountSlots(d) \/ ReserveJob(d) \/ FindStaleLease(d) \/ UnlinkLease(d)
           \/ AcquireLease(d) \/ LeaseRefused(d)
           \/ SpawnWorker(d) \/ RegisterWorker(d) \/ IdentityNotWritten(d) \/ SpawnFails(d)
    PROVE  LockInv'
<1> USE DEF CriticalSection
<1>1. NoDaemonCrashed
  <2>1. CASE \E k \in FaultKinds : Fault(k)
    BY <2>1, FaultsGrow DEF TypeInv, TypeOK
  <2>2. CASE UNCHANGED faults
    BY <2>2 DEF NoDaemonCrashed
  <2> QED BY <2>1, <2>2
      DEF RecoverAbandonedJobs, CountSlots, ReserveJob, FindStaleLease, UnlinkLease,
          AcquireLease, LeaseRefused, SpawnWorker, RegisterWorker, IdentityNotWritten,
          SpawnFails, FaultKinds
<1>2. LockInv
  BY <1>1
<1>3. ASSUME NEW aged \in SUBSET Jobs, RecoverAbandonedJobs(d, aged) PROVE LockInv'
  BY <1>2, <1>3, LockUntouched DEF RecoverAbandonedJobs, Goto, TypeInv, TypeOK
<1>4. CASE CountSlots(d)
  BY <1>2, <1>4, LockUntouched DEF CountSlots, Goto, TypeInv, TypeOK
<1>5. CASE ReserveJob(d)
  <2>1. daemonPc' = daemonPc \/ Goto(d, "lease")
    BY <1>5 DEF ReserveJob
  <2>2. daemonPc[d] = "reserve" /\ UNCHANGED <<harnessLock, turn>>
    BY <1>5 DEF ReserveJob
  <2> QED BY <1>2, <2>1, <2>2, LockUntouched DEF Goto, TypeInv, TypeOK
<1>6. CASE FindStaleLease(d)
  BY <1>2, <1>6, LockUntouched DEF FindStaleLease, Goto, files, TypeInv, TypeOK
<1>7. CASE UnlinkLease(d)
  BY <1>2, <1>7, LockUntouched DEF UnlinkLease, Goto, TypeInv, TypeOK
<1>8. CASE AcquireLease(d)
  BY <1>2, <1>8, LockUntouched DEF AcquireLease, Goto, TypeInv, TypeOK
<1>9. CASE LeaseRefused(d)
  BY <1>2, <1>9, LockUntouched DEF LeaseRefused, Goto, TypeInv, TypeOK
<1>10. CASE SpawnWorker(d)
  BY <1>2, <1>10, LockUntouched DEF SpawnWorker, Goto, files, TypeInv, TypeOK
<1>11. CASE RegisterWorker(d)
  BY <1>2, <1>11, LockUntouched DEF RegisterWorker, Goto, TypeInv, TypeOK
<1>12. CASE IdentityNotWritten(d)
  BY <1>2, <1>12, LockUntouched DEF IdentityNotWritten, Goto, TypeInv, TypeOK
<1>13. CASE SpawnFails(d)
  BY <1>2, <1>13, LockUntouched DEF SpawnFails, LockInv, TypeInv, TypeOK
<1> QED BY <1>3, <1>4, <1>5, <1>6, <1>7, <1>8, <1>9, <1>10, <1>11, <1>12, <1>13

\* Neither workers nor the control plane touch a harness lock.
LEMMA LockOthers ==
    ASSUME TypeInv, NoDaemonCrashed => LockInv, NoDaemonCrashed',
           UNCHANGED daemonVars,
           \/ \E w \in Workers : WorkerStep(w)
           \/ \E j \in Jobs : ControlStep(j)
    PROVE  LockInv'
<1>1. NoDaemonCrashed
  <2>1. CASE \E k \in FaultKinds : Fault(k)
    BY <2>1, FaultsGrow DEF TypeInv, TypeOK
  <2>2. CASE UNCHANGED faults
    BY <2>2 DEF NoDaemonCrashed
  <2> QED BY <2>1, <2>2
      DEF WorkerStep, Work, CreateWorkerLock, WriteWorkerPid, ReadStatus, WriteRunning,
          WriteProgress, WriteResult, WrapperError, ReleaseJobLock, CrashWorker, OrphanEnds,
          ControlStep, StartTask, CheckCancel, WriteCancelled, FaultKinds
<1>2. UNCHANGED harnessLock
  BY DEF WorkerStep, Work, CreateWorkerLock, WriteWorkerPid, ReadStatus, WriteRunning,
         WriteProgress, WriteResult, WrapperError, ReleaseJobLock, CrashWorker, OrphanEnds,
         ControlStep, StartTask, CheckCancel, WriteCancelled, files
<1> QED BY <1>1, <1>2 DEF LockInv, InCriticalSection, HarnessAt, daemonVars

\* As long as no daemon has been killed, and whatever else fails, the dispatch
\* lock of a harness admits one daemon at a time: the recovery of abandoned
\* jobs, the count of occupied slots and the reservations of one harness are
\* never interleaved with another daemon's.
THEOREM HarnessLockCorrect == Spec => [](NoDaemonCrashed => HarnessLockExclusive)
<1>1. Init => LockIInv
  <2>1. ASSUME Init PROVE LockInv
    BY <2>1, StateAssumption
    DEF Init, InitQueueState, LockInv, InCriticalSection, CriticalSection
  <2> QED BY <2>1, TypeInit DEF LockIInv
<1>2. LockIInv /\ [Next]_vars => LockIInv'
  <2> SUFFICES ASSUME LockIInv, [Next]_vars PROVE LockIInv'
    OBVIOUS
  <2>1. TypeInv /\ (NoDaemonCrashed => LockInv)
    BY DEF LockIInv
  <2>2. TypeInv'
    BY <2>1, TypeNext
  <2>3. ASSUME NoDaemonCrashed' PROVE LockInv'
    <3>1. ASSUME NEW d \in Daemons, DaemonStep(d) PROVE LockInv'
      BY <2>1, <2>3, <3>1, LockLifeOfDaemon, LockHarnessLock, LockTick
      DEF DaemonStep, Tick
    <3>2. CASE UNCHANGED vars
      BY <2>1, <2>3, <3>2
      DEF vars, files, daemonVars, LockInv, InCriticalSection, HarnessAt, NoDaemonCrashed
    <3> QED BY <2>1, <2>3, <3>1, <3>2, LockOthers DEF Next
  <2> QED BY <2>2, <2>3 DEF LockIInv
<1>3. LockIInv => (NoDaemonCrashed => HarnessLockExclusive)
  <2> SUFFICES ASSUME LockInv, NEW h \in Harnesses, NEW d \in Daemons, NEW e \in Daemons,
                      InCriticalSection(d, h), InCriticalSection(e, h)
               PROVE  d = e
    BY DEF LockIInv, HarnessLockExclusive
  <2> QED BY DEF LockInv
<1> QED BY <1>1, <1>2, <1>3, PTL DEF Spec

(***************************************************************************)
(* One daemon process, which is how the runtime starts the queue.  With    *)
(* two, a daemon that found a stale lease may unlink the one another has   *)
(* created since.  With one, the lease of a workspace belongs to whoever   *)
(* works there, whatever fails and however often.                          *)
(***************************************************************************)
\* Where the worker of a job is.
WorkerOf(d, j) == workerPc[<<d, j>>]

HasLease(j) ==
    /\ lease[WorkspaceOf[j]] # None
    /\ lease[WorkspaceOf[j]].job = j

\* A file of a job names the worker the daemon has started for that job.
OwnFiles(d) ==
    \A j \in Jobs : /\ workerLock[j] \in {None, <<d, j>>}
                    /\ recordedPid[j] \in {None, <<d, j>>}
                    /\ identity[j] \in {None, <<d, j>>}

\* A worker that has claimed its job can be told to be alive by worker.lock.
ClaimInv(d) ==
    \A j \in Jobs :
        /\ WorkerOf(d, j) \in {"locked", "claimed", "read", "exec", "orphan"} =>
              workerLock[j] = <<d, j>>
        /\ WorkerOf(d, j) \in {"claimed", "read", "exec", "orphan"} => pidWritten[j]

\* The jobs the tick has still to reserve, has in hand, or has reserved.
QueueInv(d) ==
    \A j \in queue[d] : ~TreeAlive(<<d, j>>) /\ j \notin chosen[d]

CurrentInv(d) ==
    daemonPc[d] \in {"lease", "unlink_lease", "create_lease"} =>
        /\ current[d] \notin queue[d] \cup chosen[d]
        /\ ~TreeAlive(<<d, current[d]>>)
        /\ dispatchLock[current[d]] = d
        /\ \A k \in chosen[d] : WorkspaceOf[k] # WorkspaceOf[current[d]]

ChosenInv(d) ==
    /\ \A j \in chosen[d] :
          /\ dispatchLock[j] = d /\ HasLease(j)
          /\ TreeAlive(<<d, j>>) =>
                daemonPc[d] = "identify" /\ j = Oldest(chosen[d])
    /\ daemonPc[d] \notin {"reserve", "lease", "unlink_lease", "create_lease",
                           "spawn", "identify"} => chosen[d] = {}

\* A job at work is not taken for one that waits.
DispatchInv(d) ==
    \A j \in Jobs :
        TreeAlive(<<d, j>>) /\ status[j] \in {"absent", "queued"} =>
            dispatchLock[j] = d

\* A worker that may still hand over its prompt holds the lease.
LeaseInv(d) ==
    \A j \in Jobs :
        /\ WorkerOf(d, j) \in {"read", "exec", "orphan"} => HasLease(j)
        /\ WorkerOf(d, j) \in {"boot", "locked", "claimed"} =>
              HasLease(j) \/ status[j] \in Terminal

\* The lease about to be unlinked is of no use to anyone any more.
Useless(d, j) ==
    \/ WorkerOf(d, j) \in {"none", "gone", "lost", "final"}
    \/ WorkerOf(d, j) \in {"boot", "locked", "claimed"} /\ status[j] \in Terminal

UnlinkInv(d) ==
    LET l == lease[WorkspaceOf[current[d]]]
    IN  daemonPc[d] = "unlink_lease" /\ l # None => Useless(d, l.job)

\* The inductive invariant.
OneDaemonInv(d) ==
    /\ OwnFiles(d) /\ ClaimInv(d) /\ QueueInv(d) /\ CurrentInv(d)
    /\ ChosenInv(d) /\ DispatchInv(d) /\ LeaseInv(d) /\ UnlinkInv(d)

\* The files of a job name the one worker it can have.
LEMMA OwnersOfJob ==
    ASSUME NEW d, Daemons = {d}, TreeCovers, TypeInv, OwnFiles(d), NEW j \in Jobs
    PROVE  /\ JobOwners(j) \subseteq {<<d, j>>}
           /\ WorkerLockPid(j) \in {None, <<d, j>>}
           /\ <<d, j>> \in Workers /\ <<d, j>> # None
<1>1. <<d, j>> \in Workers /\ <<d, j>> # None
  BY StateAssumption DEF Workers
<1>2. WorkerLockPid(j) \in {None, <<d, j>>}
  BY DEF WorkerLockPid, OwnFiles
<1> QED BY <1>1, <1>2 DEF JobOwners, OwnFiles

\* A job whose files say that it is over has no process left, provided the
\* files name a process at all.
LEMMA TreeIsGone ==
    ASSUME NEW d, Daemons = {d}, TreeCovers, TypeInv, OwnFiles(d), NEW j \in Jobs,
           JobOwners(j) # {}, ~JobTreeAlive(j)
    PROVE  ~TreeAlive(<<d, j>>)
<1>1. CASE identity[j] # None
  BY <1>1 DEF JobTreeAlive, OwnFiles
<1>2. CASE identity[j] = None
  <2>1. <<d, j>> \in JobOwners(j)
    BY OwnersOfJob
  <2> QED BY <1>2, <2>1 DEF JobTreeAlive
<1> QED BY <1>1, <1>2

\* A worker that has claimed its job is seen by whoever looks at its files.
LEMMA ClaimIsSeen ==
    ASSUME NEW d, Daemons = {d}, TreeCovers, TypeInv, OwnFiles(d), ClaimInv(d), NEW j \in Jobs,
           WorkerOf(d, j) \in {"claimed", "read", "exec", "orphan"}
    PROVE  JobTreeAlive(j) /\ WorkerLockPid(j) = <<d, j>>
<1>1. TreeAlive(<<d, j>>)
  BY DEF WorkerOf, TreeAlive, WorkerAlive
<1>2. WorkerLockPid(j) = <<d, j>>
  BY DEF ClaimInv, WorkerLockPid
<1>3. <<d, j>> \in JobOwners(j)
  BY <1>2, OwnersOfJob DEF JobOwners
<1>4. CASE identity[j] # None
  BY <1>1, <1>2, <1>4 DEF JobTreeAlive, OwnFiles
<1>5. CASE identity[j] = None
  BY <1>1, <1>2, <1>3, <1>5 DEF JobTreeAlive
<1> QED BY <1>2, <1>4, <1>5

\* Recovery looks at no job that has a process left.
LEMMA AbandonedIsOver ==
    ASSUME NEW d, Daemons = {d}, TreeCovers, TypeInv, OwnFiles(d), NEW h, NEW j \in Abandoned(h)
    PROVE  j \in Jobs /\ ~TreeAlive(<<d, j>>) /\ WorkerOf(d, j) \in {"none", "gone"}
<1>1. j \in Jobs /\ ~TreeAlive(<<d, j>>)
  BY TreeIsGone DEF Abandoned
<1> QED BY <1>1 DEF WorkerOf, TreeAlive, WorkerAlive

\* A step of the worker of j leaves the other workers where they are.
LEMMA OtherWorkers ==
    ASSUME NEW d, Daemons = {d}, TreeCovers, TypeInv, NEW j \in Jobs, NEW k \in Jobs, NEW label,
           WorkerGoto(<<d, j>>, label)
    PROVE  /\ WorkerOf(d, j)' = label
           /\ k # j => /\ WorkerOf(d, k)' = WorkerOf(d, k)
                       /\ TreeAlive(<<d, k>>)' = TreeAlive(<<d, k>>)
BY DEF WorkerGoto, WorkerOf, TreeAlive, WorkerAlive, Workers, TypeInv, TypeOK

\* The workers of a daemon after a step of one of them.
LEMMA WorkersAfter ==
    ASSUME NEW d, Daemons = {d}, TreeCovers, TypeInv, NEW j \in Jobs, NEW label,
           WorkerGoto(<<d, j>>, label)
    PROVE  \A k \in Jobs : WorkerOf(d, k)' = IF k = j THEN label ELSE WorkerOf(d, k)
<1> SUFFICES ASSUME NEW k \in Jobs
             PROVE  WorkerOf(d, k)' = IF k = j THEN label ELSE WorkerOf(d, k)
  OBVIOUS
<1>1. WorkerOf(d, j)' = label
  BY OtherWorkers
<1>2. k # j => WorkerOf(d, k)' = WorkerOf(d, k)
  BY OtherWorkers
<1> QED BY <1>1, <1>2

\* Recovery unlinks no worker.lock of a worker that is left.
LEMMA ClaimRecovered ==
    ASSUME NEW d, Daemons = {d}, TreeCovers, TypeInv, OwnFiles(d), ClaimInv(d),
           NEW aged \in SUBSET Jobs, RecoverAbandonedJobs(d, aged)
    PROVE  ClaimInv(d)'
<1>1. ASSUME NEW j \in Jobs
      PROVE  /\ WorkerOf(d, j) \in {"locked", "claimed", "read", "exec", "orphan"} =>
                   workerLock'[j] = <<d, j>>
             /\ WorkerOf(d, j) \in {"claimed", "read", "exec", "orphan"} => pidWritten'[j]
  <2>1. CASE j \in Abandoned(HarnessAt(d)) \cap aged
    BY <2>1, AbandonedIsOver
  <2>2. CASE j \notin Abandoned(HarnessAt(d)) \cap aged
    <3>1. workerLock'[j] = workerLock[j]
      BY <2>2 DEF RecoverAbandonedJobs
    <3>2. pidWritten[j] => pidWritten'[j]
      BY <2>2 DEF RecoverAbandonedJobs
    <3> QED BY <3>1, <3>2 DEF ClaimInv
  <2> QED BY <2>1, <2>2
<1>2. UNCHANGED workerPc
  BY DEF RecoverAbandonedJobs
<1> QED BY <1>1, <1>2 DEF ClaimInv, WorkerOf

\* The pid goes into the file the worker created.
LEMMA ClaimWritten ==
    ASSUME NEW d, Daemons = {d}, TreeCovers,
           TypeInv, ClaimInv(d), NEW j \in Jobs, WriteWorkerPid(<<d, j>>)
    PROVE  ClaimInv(d)'
<1>1. /\ workerLock[j] = <<d, j>> /\ UNCHANGED workerLock
      /\ WorkerGoto(<<d, j>>, "claimed")
  BY DEF WriteWorkerPid, ClaimInv, WorkerOf
<1>2. pidWritten'[j] /\ \A k \in Jobs : pidWritten[k] => pidWritten'[k]
  BY <1>1 DEF WriteWorkerPid, TypeInv, TypeOK
<1>3. ASSUME NEW k \in Jobs
      PROVE  /\ WorkerOf(d, k)' \in {"locked", "claimed", "read", "exec", "orphan"} =>
                   workerLock'[k] = <<d, k>>
             /\ WorkerOf(d, k)' \in {"claimed", "read", "exec", "orphan"} => pidWritten'[k]
  <2>1. CASE k = j
    BY <1>1, <1>2, <2>1
  <2>2. CASE k # j
    <3>1. WorkerOf(d, k)' = WorkerOf(d, k)
      BY <1>1, <2>2, OtherWorkers
    <3> QED BY <1>1, <1>2, <3>1 DEF ClaimInv
  <2> QED BY <2>1, <2>2
<1> QED BY <1>3 DEF ClaimInv

\* The job in hand has no worker that could move.
LEMMA CurrentNotWorker ==
    ASSUME NEW d, Daemons = {d}, TreeCovers, TypeInv, CurrentInv(d), NEW j \in Jobs, NEW label,
           UNCHANGED <<daemonVars, dispatchLock>>, TreeAlive(<<d, j>>),
           WorkerGoto(<<d, j>>, label)
    PROVE  CurrentInv(d)'
<1> SUFFICES ASSUME daemonPc[d] \in {"lease", "unlink_lease", "create_lease"}
             PROVE  ~TreeAlive(<<d, current[d]>>)'
  BY DEF CurrentInv, daemonVars
<1>1. ~TreeAlive(<<d, current[d]>>) /\ current[d] \in Jobs /\ current[d] # j
  BY DEF CurrentInv, TypeInv, HandOK
<1>2. UNCHANGED current
  BY DEF daemonVars
<1> QED BY <1>1, <1>2, OtherWorkers

\* Releasing the leases of other jobs leaves a job its own.
LEMMA LeaseKept ==
    ASSUME NEW S, NEW j \in Jobs \ S, HasLease(j), lease' = LeasesReleasedBy(S)
    PROVE  HasLease(j)'
BY StateAssumption DEF HasLease, LeasesReleasedBy

\* The job spawned next is one of those reserved.
LEMMA OldestChosen ==
    ASSUME NEW d, Daemons = {d}, TreeCovers, TypeInv, chosen[d] # {}
    PROVE  Oldest(chosen[d]) \in chosen[d] /\ Oldest(chosen[d]) \in Jobs
BY OldestIsMember DEF TypeInv, TypeOK

\* Nothing is reserved while abandoned jobs are recovered.
LEMMA ChosenRecovered ==
    ASSUME NEW d, Daemons = {d}, TreeCovers, TypeInv, ChosenInv(d),
           NEW aged \in SUBSET Jobs, RecoverAbandonedJobs(d, aged)
    PROVE  ChosenInv(d)'
<1>1. chosen[d] = {} /\ UNCHANGED chosen
  BY DEF ChosenInv, RecoverAbandonedJobs
<1> QED BY <1>1 DEF ChosenInv

\* A lease is created for the job in hand, in a workspace no reserved job is in.
LEMMA ChosenAcquired ==
    ASSUME NEW d, Daemons = {d}, TreeCovers,
           TypeInv, CurrentInv(d), ChosenInv(d), AcquireLease(d)
    PROVE  ChosenInv(d)'
<1>0. PICK j \in Jobs : j = current[d]
  BY DEF AcquireLease, TypeInv, HandOK
<1>1. /\ WorkspaceOf[j] \in Workspaces /\ lease[WorkspaceOf[j]] = None
      /\ ~TreeAlive(<<d, j>>) /\ dispatchLock[j] = d /\ daemonPc[d] # "identify"
      /\ \A k \in chosen[d] : WorkspaceOf[k] # WorkspaceOf[j]
  BY <1>0, StateAssumption DEF AcquireLease, CurrentInv, TypeInv, HandOK
<1>2. /\ chosen'[d] = chosen[d] \cup {j} /\ daemonPc'[d] = "reserve"
      /\ UNCHANGED <<dispatchLock, workerPc>>
      /\ lease' = [lease EXCEPT ![WorkspaceOf[j]] = [owner |-> d, job |-> j]]
  BY <1>0 DEF AcquireLease, Goto, TypeInv, TypeOK
<1>3. HasLease(j)'
  BY StateAssumption, <1>1, <1>2 DEF HasLease, TypeInv, TypeOK, Lease
<1>4. ASSUME NEW k \in chosen[d]
      PROVE  dispatchLock[k] = d /\ HasLease(k)' /\ ~TreeAlive(<<d, k>>)
  BY <1>1, <1>2, <1>4 DEF ChosenInv, HasLease
<1>5. UNCHANGED TreeAlive(<<d, j>>) /\ \A k \in chosen[d] : UNCHANGED TreeAlive(<<d, k>>)
  BY <1>2 DEF TreeAlive, WorkerAlive
<1> QED BY <1>1, <1>2, <1>3, <1>4, <1>5 DEF ChosenInv

\* A job given back takes no other job's lease with it.
LEMMA ChosenGivenBack ==
    ASSUME NEW d, Daemons = {d}, TreeCovers, TypeInv, ChosenInv(d),
           SpawnFails(d) \/ IdentityNotWritten(d)
    PROVE  ChosenInv(d)'
<1> DEFINE j == Oldest(chosen[d])
<1>1. chosen[d] \subseteq Jobs /\ j \in chosen[d] /\ j \in Jobs
  BY OldestChosen DEF SpawnFails, IdentityNotWritten, TypeInv, HandOK, TypeOK
<1>2. /\ chosen'[d] = chosen[d] \ {j} /\ daemonPc'[d] = "spawn"
      /\ dispatchLock' = [dispatchLock EXCEPT ![j] = None]
      /\ lease' = LeasesReleasedBy({j})
      /\ workerPc' = workerPc \/ WorkerGoto(<<d, j>>, "gone")
  BY DEF SpawnFails, IdentityNotWritten, TerminateTree, Goto, WorkerGoto, TypeInv, TypeOK
<1>3. ASSUME NEW k \in chosen[d] \ {j}
      PROVE  dispatchLock'[k] = d /\ HasLease(k)' /\ ~TreeAlive(<<d, k>>)'
  <2> HIDE DEF j
  <2>1. dispatchLock[k] = d /\ HasLease(k) /\ ~TreeAlive(<<d, k>>) /\ k \in Jobs /\ k # j
    BY <1>1, <1>3 DEF ChosenInv, j
  <2>2. dispatchLock'[k] = d
    BY <1>2, <2>1 DEF TypeInv, TypeOK
  <2>3. HasLease(k)'
    BY <1>2, <2>1, LeaseKept
  <2>4. CASE workerPc' = workerPc
    BY <2>1, <2>2, <2>3, <2>4 DEF TreeAlive, WorkerAlive
  <2>5. CASE WorkerGoto(<<d, j>>, "gone")
    BY <1>1, <2>1, <2>2, <2>3, <2>5, OtherWorkers
  <2> QED BY <1>2, <2>4, <2>5
<1> QED BY <1>2, <1>3 DEF ChosenInv

\* Recovery takes no dispatch.lock of a job with a process left.
LEMMA DispatchRecovered ==
    ASSUME NEW d, Daemons = {d}, TreeCovers, TypeInv, OwnFiles(d), DispatchInv(d),
           NEW aged \in SUBSET Jobs, RecoverAbandonedJobs(d, aged)
    PROVE  DispatchInv(d)'
<1>1. ASSUME NEW j \in Jobs, TreeAlive(<<d, j>>), status'[j] \in {"absent", "queued"}
      PROVE  dispatchLock'[j] = d
  <2>1. j \notin Abandoned(HarnessAt(d)) \cap aged
    BY <1>1, AbandonedIsOver
  <2>2. status'[j] = status[j] /\ dispatchLock'[j] = dispatchLock[j]
    BY <2>1 DEF RecoverAbandonedJobs
  <2> QED BY <1>1, <2>2 DEF DispatchInv
<1>2. UNCHANGED workerPc
  BY DEF RecoverAbandonedJobs
<1> QED BY <1>1, <1>2 DEF DispatchInv, TreeAlive, WorkerAlive

\* What LeaseInv says of one job.
LEMMA LeaseOfJob ==
    ASSUME NEW d, Daemons = {d}, TreeCovers, LeaseInv(d), NEW j \in Jobs, NEW S,
           lease' = LeasesReleasedBy(S), UNCHANGED WorkerOf(d, j),
           j \in S => WorkerOf(d, j) \in {"none", "gone"},
           status[j] \in Terminal => status'[j] \in Terminal
    PROVE  /\ WorkerOf(d, j)' \in {"read", "exec", "orphan"} => HasLease(j)'
           /\ WorkerOf(d, j)' \in {"boot", "locked", "claimed"} =>
                 HasLease(j)' \/ status'[j] \in Terminal
<1>1. CASE j \in S
  BY <1>1
<1>2. CASE j \notin S
  <2>1. HasLease(j) => HasLease(j)'
    BY <1>2, LeaseKept
  <2> QED BY <2>1 DEF LeaseInv
<1> QED BY <1>1, <1>2

\* Reaping releases the lease of a job that has no process left.
LEMMA LeaseReaped ==
    ASSUME NEW d, Daemons = {d}, TreeCovers,
           TypeInv, LeaseInv(d), NEW j \in Jobs, ReapWorker(d, j)
    PROVE  LeaseInv(d)'
<1>1. WorkerOf(d, j) \in {"none", "gone"} /\ lease' = LeasesReleasedBy({j})
  BY DEF ReapWorker, TreeAlive, WorkerAlive, WorkerOf
<1>2. \A k \in Jobs : UNCHANGED WorkerOf(d, k)
  BY DEF ReapWorker, WorkerOf
<1>3. \A k \in Jobs : status[k] \in Terminal => status'[k] \in Terminal
  BY DEF ReapWorker, TypeInv, TypeOK
<1> QED BY <1>1, <1>2, <1>3, LeaseOfJob DEF LeaseInv, Terminal

\* So does recovery.
LEMMA LeaseRecovered ==
    ASSUME NEW d, Daemons = {d}, TreeCovers, TypeInv, OwnFiles(d), LeaseInv(d),
           NEW aged \in SUBSET Jobs, RecoverAbandonedJobs(d, aged)
    PROVE  LeaseInv(d)'
<1> DEFINE dead == Abandoned(HarnessAt(d)) \cap aged
<1>1. /\ \A k \in dead : WorkerOf(d, k) \in {"none", "gone"}
      /\ lease' = LeasesReleasedBy(dead)
  BY AbandonedIsOver DEF RecoverAbandonedJobs
<1>2. \A k \in Jobs : UNCHANGED WorkerOf(d, k)
  BY DEF RecoverAbandonedJobs, WorkerOf
<1>3. \A k \in Jobs : status[k] \in Terminal => status'[k] \in Terminal
  BY DEF RecoverAbandonedJobs
<1> HIDE DEF dead
<1> QED BY <1>1, <1>2, <1>3, LeaseOfJob DEF LeaseInv, Terminal

\* The lease given back when Popen raises is that of a job without a worker.
LEMMA LeaseSpawnFails ==
    ASSUME NEW d, Daemons = {d}, TreeCovers, TypeInv, LeaseInv(d), ChosenInv(d), SpawnFails(d)
    PROVE  LeaseInv(d)'
<1>1. PICK j \in Jobs : j = Oldest(chosen[d]) /\ j \in chosen[d]
  BY OldestChosen DEF SpawnFails
<1>2. WorkerOf(d, j) \in {"none", "gone"} /\ lease' = LeasesReleasedBy({j})
  BY <1>1 DEF SpawnFails, ChosenInv, TreeAlive, WorkerAlive, WorkerOf
<1>3. /\ \A k \in Jobs : UNCHANGED WorkerOf(d, k)
      /\ UNCHANGED status
  BY DEF SpawnFails, WorkerOf
<1> QED BY <1>2, <1>3, LeaseOfJob DEF LeaseInv, Terminal

\* The child whose identity cannot be written is terminated before its lease is
\* released.
LEMMA LeaseNotWritten ==
    ASSUME NEW d, Daemons = {d}, TreeCovers, TypeInv, LeaseInv(d), IdentityNotWritten(d)
    PROVE  LeaseInv(d)'
<1>1. PICK j \in Jobs : j = Oldest(chosen[d]) /\ j \in chosen[d]
  BY OldestChosen DEF IdentityNotWritten, TypeInv, HandOK
<1>2. WorkerGoto(<<d, j>>, "gone") /\ lease' = LeasesReleasedBy({j})
  BY <1>1 DEF IdentityNotWritten, TerminateTree, WorkerGoto
<1>3. ASSUME NEW k \in Jobs, k # j
      PROVE  /\ WorkerOf(d, k)' \in {"read", "exec", "orphan"} => HasLease(k)'
             /\ WorkerOf(d, k)' \in {"boot", "locked", "claimed"} =>
                   HasLease(k)' \/ status'[k] \in Terminal
  <2>1. WorkerOf(d, k)' = WorkerOf(d, k)
    BY <1>2, <1>3, OtherWorkers
  <2>2. status'[k] = status[k]
    BY <1>1, <1>3 DEF IdentityNotWritten, TerminateTree, TypeInv, TypeOK
  <2> QED BY <1>2, <1>3, <2>1, <2>2, LeaseOfJob
<1>4. WorkerOf(d, j)' = "gone"
  BY <1>2, OtherWorkers
<1> QED BY <1>3, <1>4 DEF LeaseInv, Terminal

\* What a lease about to be unlinked is of no use to stays of no use to it.
LEMMA UselessStays ==
    ASSUME NEW d, Daemons = {d}, TreeCovers, TypeInv, UnlinkInv(d), NEW j \in Jobs, NEW label,
           UNCHANGED <<daemonVars, lease>>, WorkerGoto(<<d, j>>, label),
           Useless(d, j) => Useless(d, j)',
           \A k \in Jobs \ {j} : status'[k] = status[k]
    PROVE  UnlinkInv(d)'
<1> SUFFICES ASSUME daemonPc[d] = "unlink_lease",
                    NEW l \in Lease, l = lease[WorkspaceOf[current[d]]]
             PROVE  Useless(d, l.job)'
  BY StateAssumption DEF UnlinkInv, daemonVars, TypeInv, TypeOK, HandOK
<1>1. Useless(d, l.job) /\ l.job \in Jobs
  BY StateAssumption DEF UnlinkInv, Lease
<1>2. CASE l.job = j
  BY <1>1, <1>2
<1>3. CASE l.job # j
  BY <1>1, <1>3, OtherWorkers DEF Useless
<1> QED BY <1>2, <1>3

\* A worker the lease is of no use to does not come to need it.
LEMMA UnlinkWorker ==
    ASSUME NEW d, Daemons = {d}, TreeCovers,
           TypeInv, UnlinkInv(d), NEW j \in Jobs, UNCHANGED daemonVars,
           CreateWorkerLock(<<d, j>>) \/ WriteRunning(<<d, j>>) \/ CrashWorker(<<d, j>>)
    PROVE  UnlinkInv(d)'
<1>1. CASE CreateWorkerLock(<<d, j>>)
  <2>1. /\ WorkerOf(d, j) = "boot" /\ UNCHANGED <<status, lease>>
        /\ WorkerGoto(<<d, j>>, "locked") \/ WorkerGoto(<<d, j>>, "lost")
    BY <1>1 DEF CreateWorkerLock, WorkerOf
  <2>2. WorkerOf(d, j)' \in {"locked", "lost"}
    BY <2>1, OtherWorkers
  <2>3. Useless(d, j) => Useless(d, j)'
    BY <2>1, <2>2 DEF Useless
  <2> QED BY <2>1, <2>3, UselessStays
<1>2. CASE WriteRunning(<<d, j>>)
  <2>1. /\ WorkerOf(d, j) = "read" /\ UNCHANGED lease
        /\ \A k \in Jobs \ {j} : status'[k] = status[k]
        /\ WorkerGoto(<<d, j>>, "exec")
    BY <1>2 DEF WriteRunning, WorkerOf, TypeInv, TypeOK
  <2>2. ~Useless(d, j)
    BY <2>1 DEF Useless
  <2> QED BY <2>1, <2>2, UselessStays
<1>3. CASE CrashWorker(<<d, j>>)
  <2>1. /\ UNCHANGED <<status, lease>>
        /\ \/ WorkerGoto(<<d, j>>, "gone")
           \/ WorkerOf(d, j) = "exec" /\ WorkerGoto(<<d, j>>, "orphan")
    BY <1>3 DEF CrashWorker, WorkerOf, files
  <2>2. CASE WorkerGoto(<<d, j>>, "gone")
    <3>1. Useless(d, j)'
      BY <2>2, OtherWorkers DEF Useless
    <3> QED BY <2>1, <2>2, <3>1, UselessStays
  <2>3. CASE WorkerOf(d, j) = "exec" /\ WorkerGoto(<<d, j>>, "orphan")
    <3>1. ~Useless(d, j)
      BY <2>3 DEF Useless
    <3> QED BY <2>1, <2>3, <3>1, UselessStays
  <2> QED BY <2>1, <2>2, <2>3
<1> QED BY <1>1, <1>2, <1>3

\* A lease judged stale is of no use to the job it names: that is what the
\* judgement on identity, worker.lock, status and owner is worth.
LEMMA UnlinkFound ==
    ASSUME NEW d, Daemons = {d}, TreeCovers,
           TypeInv, OwnFiles(d), ClaimInv(d), FindStaleLease(d)
    PROVE  UnlinkInv(d)'
<1>1. current[d] \in Jobs /\ WorkspaceOf[current[d]] \in Workspaces
  BY StateAssumption DEF FindStaleLease, TypeInv, HandOK
<1>2. PICK l \in Lease : l = lease[WorkspaceOf[current[d]]]
  BY <1>1 DEF FindStaleLease, TypeInv, TypeOK
<1>3. PICK graceOver \in BOOLEAN : IsStaleLease(l, graceOver)
  BY <1>2 DEF FindStaleLease
<1>4. PICK j \in Jobs : j = l.job /\ l.owner = d
  BY DEF Lease
<1>5. WorkerOf(d, j) \in WorkerPcs \ {"read", "exec", "orphan"}
  <2>1. WorkerOf(d, j) \in WorkerPcs
    BY DEF WorkerOf, TypeInv, TypeOK, Workers
  <2> QED BY <1>3, <1>4, <2>1, ClaimIsSeen DEF IsStaleLease
<1>6. DaemonAlive(d)
  BY DEF FindStaleLease, DaemonAlive
<1>7. Useless(d, j)
  <2>1. CASE status[j] \in Terminal
    BY <1>5, <2>1 DEF Useless, WorkerPcs
  <2>2. CASE WorkerLockPid(j) # None /\ ~WorkerAlive(WorkerLockPid(j))
    <3>1. ~WorkerAlive(<<d, j>>)
      BY <2>2, OwnersOfJob
    <3> QED BY <1>5, <3>1 DEF Useless, WorkerOf, WorkerAlive
  <2> QED BY <1>3, <1>4, <1>6, <2>1, <2>2 DEF IsStaleLease
<1>8. UNCHANGED <<current, lease, status, workerPc>>
  BY DEF FindStaleLease, files
<1> QED BY <1>2, <1>4, <1>7, <1>8 DEF UnlinkInv, Useless, WorkerOf

\* A job is reserved from those still queued for the harness.
LEMMA OldestCandidate ==
    ASSUME NEW d, Daemons = {d}, TreeCovers, TypeInv, ReserveJob(d)
    PROVE  Oldest(Candidates(d)) \in queue[d] /\ Oldest(Candidates(d)) \in Jobs
<1>1. Candidates(d) \in SUBSET Jobs /\ Candidates(d) \subseteq queue[d]
  BY DEF Candidates, TypeInv, TypeOK
<1> QED BY <1>1, OldestIsMember DEF ReserveJob, MoreToReserve

\* So is the one spawned, registered or given back.
LEMMA OldestSpawned ==
    ASSUME NEW d, Daemons = {d}, TreeCovers, TypeInv,
           SpawnWorker(d) \/ RegisterWorker(d) \/ SpawnFails(d) \/ IdentityNotWritten(d)
    PROVE  Oldest(chosen[d]) \in chosen[d] /\ Oldest(chosen[d]) \in Jobs
BY OldestChosen
DEF SpawnWorker, RegisterWorker, SpawnFails, IdentityNotWritten, TypeInv, HandOK

\* Popen gives a process to a job that is reserved, with its lease.
LEMMA Spawned ==
    ASSUME NEW d, Daemons = {d}, TreeCovers, TypeInv, ChosenInv(d), SpawnWorker(d)
    PROVE  \E j \in Jobs :
              /\ j \in chosen[d] /\ dispatchLock[j] = d /\ HasLease(j)
              /\ WorkerGoto(<<d, j>>, "boot")
              /\ UNCHANGED <<status, dispatchLock, lease, queue, chosen>>
<1>1. PICK j \in Jobs : j = Oldest(chosen[d]) /\ j \in chosen[d]
  BY OldestSpawned
<1>2. WorkerGoto(<<d, j>>, "boot") /\ UNCHANGED <<status, dispatchLock, lease, queue, chosen>>
  BY <1>1 DEF SpawnWorker, WorkerGoto, files
<1> QED BY <1>1, <1>2 DEF ChosenInv

\* It is not queued any more.
LEMMA QueueSpawned ==
    ASSUME NEW d, Daemons = {d}, TreeCovers, TypeInv, QueueInv(d), ChosenInv(d), SpawnWorker(d)
    PROVE  QueueInv(d)'
<1>1. PICK j \in Jobs : j \in chosen[d] /\ WorkerGoto(<<d, j>>, "boot")
                        /\ UNCHANGED <<queue, chosen>>
  BY Spawned
<1>2. ASSUME NEW k \in queue[d] PROVE ~TreeAlive(<<d, k>>)' /\ k \notin chosen[d]
  BY <1>1, OtherWorkers DEF QueueInv, TypeInv, TypeOK
<1> QED BY <1>1, <1>2 DEF QueueInv

\* Its dispatch.lock is there.
LEMMA DispatchSpawned ==
    ASSUME NEW d, Daemons = {d}, TreeCovers,
           TypeInv, ChosenInv(d), DispatchInv(d), SpawnWorker(d)
    PROVE  DispatchInv(d)'
<1>1. PICK j \in Jobs : /\ dispatchLock[j] = d /\ WorkerGoto(<<d, j>>, "boot")
                        /\ UNCHANGED <<status, dispatchLock>>
  BY Spawned
<1>2. ASSUME NEW k \in Jobs, TreeAlive(<<d, k>>)', status'[k] \in {"absent", "queued"}
      PROVE  dispatchLock'[k] = d
  BY <1>1, <1>2, OtherWorkers DEF DispatchInv
<1> QED BY <1>2 DEF DispatchInv

\* So is its lease.
LEMMA LeaseSpawned ==
    ASSUME NEW d, Daemons = {d}, TreeCovers, TypeInv, ChosenInv(d), LeaseInv(d), SpawnWorker(d)
    PROVE  LeaseInv(d)'
<1>1. PICK j \in Jobs : /\ HasLease(j) /\ WorkerGoto(<<d, j>>, "boot")
                        /\ UNCHANGED <<status, lease>>
  BY Spawned
<1>2. \A k \in Jobs : UNCHANGED HasLease(k)
  BY <1>1 DEF HasLease
<1>3. ASSUME NEW k \in Jobs
      PROVE  /\ WorkerOf(d, k)' \in {"read", "exec", "orphan"} => HasLease(k)'
             /\ WorkerOf(d, k)' \in {"boot", "locked", "claimed"} =>
                   HasLease(k)' \/ status'[k] \in Terminal
  BY <1>1, <1>2, OtherWorkers DEF LeaseInv
<1> QED BY <1>3 DEF LeaseInv, Terminal

\* When Popen raises, the reservation given back is that of a job without a
\* worker.
LEMMA DispatchSpawnFails ==
    ASSUME NEW d, Daemons = {d}, TreeCovers,
           TypeInv, ChosenInv(d), DispatchInv(d), SpawnFails(d)
    PROVE  DispatchInv(d)'
<1>1. PICK j \in Jobs : j = Oldest(chosen[d]) /\ j \in chosen[d]
  BY OldestSpawned
<1>2. ~TreeAlive(<<d, j>>) /\ UNCHANGED <<status, workerPc>>
  BY <1>1 DEF SpawnFails, ChosenInv
<1>3. \A k \in Jobs \ {j} : dispatchLock'[k] = dispatchLock[k]
  BY <1>1 DEF SpawnFails, TypeInv, TypeOK
<1> QED BY <1>2, <1>3 DEF DispatchInv, TreeAlive, WorkerAlive

\* The job taken in hand was queued: it has no worker, and no job reserved in
\* this tick is in its workspace.
LEMMA CurrentReserved ==
    ASSUME NEW d, Daemons = {d}, TreeCovers, TypeInv, QueueInv(d), CurrentInv(d), ReserveJob(d)
    PROVE  CurrentInv(d)'
<1>1. PICK j \in Jobs : j = Oldest(Candidates(d)) /\ j \in queue[d]
  BY OldestCandidate
<1>2. /\ daemonPc[d] = "reserve" /\ UNCHANGED <<chosen, workerPc>>
      /\ queue' = [queue EXCEPT ![d] = @ \ {j}]
  BY <1>1 DEF ReserveJob
<1>3. CASE UNCHANGED daemonPc
  BY <1>2, <1>3 DEF CurrentInv
<1>4. CASE /\ \A k \in chosen[d] : WorkspaceOf[k] # WorkspaceOf[j]
           /\ dispatchLock' = [dispatchLock EXCEPT ![j] = d]
           /\ current' = [current EXCEPT ![d] = j]
  <2>1. /\ current'[d] = j /\ dispatchLock'[j] = d /\ queue'[d] = queue[d] \ {j}
    BY <1>2, <1>4 DEF TypeInv, TypeOK
  <2>2. ~TreeAlive(<<d, j>>) /\ j \notin chosen[d]
    BY <1>1 DEF QueueInv
  <2>3. ~TreeAlive(<<d, j>>)'
    BY <1>2, <2>2 DEF TreeAlive, WorkerAlive
  <2> QED BY <1>2, <1>4, <2>1, <2>2, <2>3 DEF CurrentInv
<1> QED BY <1>1, <1>3, <1>4 DEF ReserveJob

\* The state written while a worker is at work makes no lease useless.
LEMMA UnlinkProgress ==
    ASSUME NEW d, Daemons = {d}, TreeCovers,
           TypeInv, UnlinkInv(d), NEW j \in Jobs, UNCHANGED daemonVars,
           WriteProgress(<<d, j>>)
    PROVE  UnlinkInv(d)'
<1>1. /\ WorkerOf(d, j) = "exec" /\ UNCHANGED <<lease, workerPc, current, daemonPc>>
      /\ \A k \in Jobs \ {j} : status'[k] = status[k]
  BY DEF WriteProgress, WorkerOf, daemonVars, TypeInv, TypeOK
<1>2. \A k \in Jobs : Useless(d, k) => Useless(d, k)'
  BY <1>1 DEF Useless, WorkerOf
<1> SUFFICES ASSUME daemonPc[d] = "unlink_lease",
                    NEW l \in Lease, l = lease[WorkspaceOf[current[d]]]
             PROVE  Useless(d, l.job)'
  BY StateAssumption, <1>1 DEF UnlinkInv, TypeInv, TypeOK, HandOK
<1>3. Useless(d, l.job) /\ l.job \in Jobs
  BY StateAssumption DEF UnlinkInv, Lease
<1> QED BY <1>2, <1>3

\* Reading the status as queued makes no useless lease useful again.
LEMMA UnlinkRead ==
    ASSUME NEW d, Daemons = {d}, TreeCovers,
           TypeInv, UnlinkInv(d), NEW j \in Jobs, UNCHANGED daemonVars,
           ReadStatus(<<d, j>>)
    PROVE  UnlinkInv(d)'
<1>1. /\ WorkerOf(d, j) = "claimed" /\ UNCHANGED <<status, lease>>
      /\ WorkerGoto(<<d, j>>, IF status[j] = "queued" THEN "read" ELSE "lost")
  BY DEF ReadStatus, WorkerOf, files
<1>2. Useless(d, j) => status[j] # "queued"
  BY <1>1 DEF Useless, Terminal
<1>3. Useless(d, j) => Useless(d, j)'
  BY <1>1, <1>2, OtherWorkers DEF Useless
<1> QED BY <1>1, <1>3, UselessStays

\* The worker that moves is not that of the job in hand.
LEMMA CurrentWorker ==
    ASSUME NEW d, Daemons = {d}, TreeCovers,
           TypeInv, CurrentInv(d), NEW j \in Jobs, UNCHANGED daemonVars,
           \/ CreateWorkerLock(<<d, j>>) \/ WriteWorkerPid(<<d, j>>) \/ ReadStatus(<<d, j>>)
           \/ WriteRunning(<<d, j>>) \/ WriteResult(<<d, j>>) \/ WrapperError(<<d, j>>)
           \/ ReleaseJobLock(<<d, j>>) \/ CrashWorker(<<d, j>>) \/ OrphanEnds(<<d, j>>)
    PROVE  CurrentInv(d)'
<1>1. /\ TreeAlive(<<d, j>>) /\ UNCHANGED dispatchLock
      /\ \E label : WorkerGoto(<<d, j>>, label)
  <2>1. CASE \/ CreateWorkerLock(<<d, j>>) \/ WriteWorkerPid(<<d, j>>)
             \/ ReadStatus(<<d, j>>) \/ WriteRunning(<<d, j>>)
    BY <2>1 DEF CreateWorkerLock, WriteWorkerPid, ReadStatus, WriteRunning, TreeAlive,
                WorkerAlive, files
  <2>2. CASE WriteResult(<<d, j>>) \/ WrapperError(<<d, j>>)
    BY <2>2 DEF WriteResult, WrapperError, TreeAlive, WorkerAlive
  <2>3. CASE ReleaseJobLock(<<d, j>>) \/ CrashWorker(<<d, j>>) \/ OrphanEnds(<<d, j>>)
    BY <2>3 DEF ReleaseJobLock, CrashWorker, OrphanEnds, TreeAlive, WorkerAlive, files
  <2> QED BY <2>1, <2>2, <2>3
<1> QED BY <1>1, CurrentNotWorker

\* The lease unlinked was of no use to the job it names, and another job's
\* lease is another file.
LEMMA LeaseUnlinked ==
    ASSUME NEW d, Daemons = {d}, TreeCovers, TypeInv, LeaseInv(d), UnlinkInv(d), UnlinkLease(d)
    PROVE  LeaseInv(d)'
<1>1. PICK c \in Jobs : c = current[d]
  BY DEF UnlinkLease, TypeInv, HandOK
<1>2. /\ daemonPc[d] = "unlink_lease" /\ UNCHANGED <<status, workerPc>>
      /\ lease' = [lease EXCEPT ![WorkspaceOf[c]] = None]
  BY <1>1 DEF UnlinkLease
<1>3. ASSUME NEW k \in Jobs, HasLease(k)
      PROVE  HasLease(k)' \/ Useless(d, k)
  <2>1. CASE WorkspaceOf[k] = WorkspaceOf[c]
    BY <1>1, <1>2, <1>3, <2>1 DEF HasLease, UnlinkInv
  <2>2. CASE WorkspaceOf[k] # WorkspaceOf[c]
    BY <1>2, <1>3, <2>2, StateAssumption DEF HasLease, TypeInv, TypeOK
  <2> QED BY <2>1, <2>2
<1>4. \A k \in Jobs : UNCHANGED WorkerOf(d, k)
  BY <1>2 DEF WorkerOf
<1> QED BY <1>2, <1>3, <1>4 DEF LeaseInv, Useless, Terminal

\* A refused job has no worker when its reservation is given back.
LEMMA DispatchRefused ==
    ASSUME NEW d, Daemons = {d}, TreeCovers,
           TypeInv, CurrentInv(d), DispatchInv(d), LeaseRefused(d)
    PROVE  DispatchInv(d)'
<1>1. PICK c \in Jobs : c = current[d]
  BY DEF LeaseRefused, TypeInv, HandOK
<1>2. /\ ~TreeAlive(<<d, c>>) /\ UNCHANGED <<status, workerPc>>
      /\ dispatchLock' = [dispatchLock EXCEPT ![c] = None]
  BY <1>1 DEF LeaseRefused, CurrentInv
<1>3. \A k \in Jobs \ {c} : dispatchLock'[k] = dispatchLock[k]
  BY <1>2 DEF TypeInv, TypeOK
<1> QED BY <1>2, <1>3 DEF DispatchInv, TreeAlive, WorkerAlive

\* A worker that moves on keeps ClaimInv if the lock is in its new place.
LEMMA ClaimMoves ==
    ASSUME NEW d, Daemons = {d}, TreeCovers, TypeInv, ClaimInv(d), NEW j \in Jobs, NEW label,
           WorkerGoto(<<d, j>>, label),
           \A k \in Jobs \ {j} : /\ workerLock'[k] = workerLock[k]
                                 /\ pidWritten[k] => pidWritten'[k],
           label \in {"locked", "claimed", "read", "exec", "orphan"} => workerLock'[j] = <<d, j>>,
           label \in {"claimed", "read", "exec", "orphan"} => pidWritten'[j]
    PROVE  ClaimInv(d)'
<1>1. ASSUME NEW k \in Jobs
      PROVE  /\ WorkerOf(d, k)' \in {"locked", "claimed", "read", "exec", "orphan"} =>
                   workerLock'[k] = <<d, k>>
             /\ WorkerOf(d, k)' \in {"claimed", "read", "exec", "orphan"} => pidWritten'[k]
  <2>1. CASE k = j
    <3>1. WorkerOf(d, j)' = label
      BY OtherWorkers
    <3> QED BY <2>1, <3>1
  <2>2. CASE k # j
    <3>1. WorkerOf(d, k)' = WorkerOf(d, k)
      BY <2>2, OtherWorkers
    <3> QED BY <2>2, <3>1 DEF ClaimInv
  <2> QED BY <2>1, <2>2
<1> QED BY <1>1 DEF ClaimInv

\* The worker creates worker.lock, reads the status, or is killed.
LEMMA ClaimWorker ==
    ASSUME NEW d, Daemons = {d}, TreeCovers, TypeInv, ClaimInv(d), NEW j \in Jobs,
           \/ CreateWorkerLock(<<d, j>>) \/ ReadStatus(<<d, j>>)
           \/ CrashWorker(<<d, j>>) \/ OrphanEnds(<<d, j>>)
    PROVE  ClaimInv(d)'
<1>1. CASE CreateWorkerLock(<<d, j>>)
  <2>1. \A k \in Jobs \ {j} : workerLock'[k] = workerLock[k] /\ (pidWritten[k] => pidWritten'[k])
    BY <1>1 DEF CreateWorkerLock, TypeInv, TypeOK
  <2>2. \/ WorkerGoto(<<d, j>>, "locked") /\ workerLock'[j] = <<d, j>>
        \/ WorkerGoto(<<d, j>>, "lost")
    BY <1>1 DEF CreateWorkerLock, TypeInv, TypeOK
  <2> QED BY <2>1, <2>2, ClaimMoves
<1>2. CASE ReadStatus(<<d, j>>) \/ CrashWorker(<<d, j>>) \/ OrphanEnds(<<d, j>>)
  <2>1. /\ UNCHANGED <<workerLock, pidWritten>>
        /\ \/ \E label \in {"lost", "gone"} : WorkerGoto(<<d, j>>, label)
           \/ /\ WorkerOf(d, j) \in {"claimed", "exec"}
              /\ \E label \in {"read", "orphan"} : WorkerGoto(<<d, j>>, label)
    BY <1>2 DEF ReadStatus, CrashWorker, OrphanEnds, files, WorkerOf
  <2>2. WorkerOf(d, j) \in {"claimed", "exec"} => workerLock[j] = <<d, j>> /\ pidWritten[j]
    BY DEF ClaimInv
  <2> QED BY <2>1, <2>2, ClaimMoves
<1> QED BY <1>1, <1>2

\* A worker that moves on keeps LeaseInv if it has the lease its new place
\* asks for.
LEMMA LeaseMoves ==
    ASSUME NEW d, Daemons = {d}, TreeCovers, TypeInv, LeaseInv(d), NEW j \in Jobs, NEW label,
           WorkerGoto(<<d, j>>, label), UNCHANGED lease,
           \A k \in Jobs \ {j} : status'[k] = status[k],
           label \in {"read", "exec", "orphan"} => HasLease(j),
           label \in {"boot", "locked", "claimed"} => HasLease(j) \/ status'[j] \in Terminal
    PROVE  LeaseInv(d)'
<1>1. \A k \in Jobs : UNCHANGED HasLease(k)
  BY DEF HasLease
<1>2. ASSUME NEW k \in Jobs
      PROVE  /\ WorkerOf(d, k)' \in {"read", "exec", "orphan"} => HasLease(k)'
             /\ WorkerOf(d, k)' \in {"boot", "locked", "claimed"} =>
                   HasLease(k)' \/ status'[k] \in Terminal
  <2>1. CASE k = j
    BY <1>1, <2>1, OtherWorkers
  <2>2. CASE k # j
    BY <1>1, <2>2, OtherWorkers DEF LeaseInv
  <2> QED BY <2>1, <2>2
<1> QED BY <1>2 DEF LeaseInv, Terminal

\* Every step of a worker.
LEMMA LeaseWorker ==
    ASSUME NEW d, Daemons = {d}, TreeCovers, TypeInv, LeaseInv(d), NEW j \in Jobs,
           \/ CreateWorkerLock(<<d, j>>) \/ WriteWorkerPid(<<d, j>>) \/ ReadStatus(<<d, j>>)
           \/ WriteRunning(<<d, j>>) \/ WriteResult(<<d, j>>) \/ WrapperError(<<d, j>>)
           \/ ReleaseJobLock(<<d, j>>) \/ CrashWorker(<<d, j>>) \/ OrphanEnds(<<d, j>>)
    PROVE  LeaseInv(d)'
<1>1. CASE CreateWorkerLock(<<d, j>>) \/ WriteWorkerPid(<<d, j>>)
  <2>1. /\ WorkerOf(d, j) \in {"boot", "locked"} /\ UNCHANGED <<status, lease>>
        /\ \E label \in {"locked", "claimed", "lost"} : WorkerGoto(<<d, j>>, label)
    BY <1>1 DEF CreateWorkerLock, WriteWorkerPid, WorkerOf
  <2>2. HasLease(j) \/ status'[j] \in Terminal
    BY <2>1 DEF LeaseInv
  <2> QED BY <2>1, <2>2, LeaseMoves
<1>2. CASE ReadStatus(<<d, j>>)
  <2>1. /\ WorkerOf(d, j) = "claimed" /\ UNCHANGED <<status, lease>>
        /\ WorkerGoto(<<d, j>>, IF status[j] = "queued" THEN "read" ELSE "lost")
    BY <1>2 DEF ReadStatus, WorkerOf, files
  <2>2. status[j] = "queued" => HasLease(j)
    BY <2>1 DEF LeaseInv, Terminal
  <2> QED BY <2>1, <2>2, LeaseMoves
<1>3. CASE WriteRunning(<<d, j>>)
  <2>1. /\ WorkerOf(d, j) = "read" /\ UNCHANGED lease /\ WorkerGoto(<<d, j>>, "exec")
        /\ \A k \in Jobs \ {j} : status'[k] = status[k]
    BY <1>3 DEF WriteRunning, WorkerOf, TypeInv, TypeOK
  <2> QED BY <2>1, LeaseMoves DEF LeaseInv
<1>4. CASE WriteResult(<<d, j>>) \/ WrapperError(<<d, j>>) \/ ReleaseJobLock(<<d, j>>)
  <2>1. /\ \E label \in {"final", "gone"} : WorkerGoto(<<d, j>>, label)
        /\ UNCHANGED lease /\ \A k \in Jobs \ {j} : status'[k] = status[k]
    BY <1>4 DEF WriteResult, WrapperError, ReleaseJobLock, TypeInv, TypeOK
  <2> QED BY <2>1, LeaseMoves
<1>5. CASE CrashWorker(<<d, j>>) \/ OrphanEnds(<<d, j>>)
  <2>1. /\ UNCHANGED <<status, lease>>
        /\ \/ WorkerGoto(<<d, j>>, "gone")
           \/ WorkerOf(d, j) = "exec" /\ WorkerGoto(<<d, j>>, "orphan")
    BY <1>5 DEF CrashWorker, OrphanEnds, files, WorkerOf
  <2> QED BY <2>1, LeaseMoves DEF LeaseInv
<1> QED BY <1>1, <1>2, <1>3, <1>4, <1>5

\* The steps of the daemon that touch no file of a job and no process of one.
Aside(d) ==
    \/ StartDaemon(d) \/ CrashDaemon(d) \/ StopDaemon(d) \/ ExitDaemon(d)
    \/ SkipDisabledHarness(d) \/ FindStaleHarnessLock(d) \/ UnlinkHarnessLock(d)
    \/ AcquireHarnessLock(d) \/ HarnessLockBusy(d) \/ ReleaseHarnessLock(d)
    \/ FinishHarness(d)

\* What is reserved is kept until it is spawned, or forgotten altogether.
LEMMA AsideStep ==
    ASSUME NEW d, Daemons = {d}, TreeCovers, TypeInv, OneDaemonInv(d), Aside(d)
    PROVE  OneDaemonInv(d)'
<1>1. UNCHANGED <<status, recordedPid, workerLock, pidWritten, dispatchLock, identity, lease,
                  workerPc>>
  BY DEF Aside, StartDaemon, CrashDaemon, StopDaemon, ExitDaemon, SkipDisabledHarness,
         FindStaleHarnessLock, UnlinkHarnessLock, AcquireHarnessLock, HarnessLockBusy,
         ReleaseHarnessLock, FinishHarness, files
<1>2. /\ queue'[d] \subseteq queue[d] /\ chosen'[d] \in {chosen[d], {}}
      /\ daemonPc'[d] \notin {"lease", "unlink_lease", "create_lease", "identify"}
      /\ chosen'[d] # {} => daemonPc'[d] = "spawn" /\ daemonPc[d] # "identify"
  <2> USE DEF OneDaemonInv, ChosenInv, Goto, TypeInv, TypeOK
  <2>1. CASE StartDaemon(d) \/ CrashDaemon(d) \/ StopDaemon(d) \/ ExitDaemon(d)
    BY <2>1 DEF StartDaemon, CrashDaemon, StopDaemon, ExitDaemon, Forget
  <2>2. CASE FindStaleHarnessLock(d) \/ UnlinkHarnessLock(d) \/ AcquireHarnessLock(d)
             \/ ReleaseHarnessLock(d)
    BY <2>2 DEF FindStaleHarnessLock, UnlinkHarnessLock, AcquireHarnessLock,
                ReleaseHarnessLock
  <2>3. CASE SkipDisabledHarness(d) \/ HarnessLockBusy(d) \/ FinishHarness(d)
    BY <2>3 DEF SkipDisabledHarness, HarnessLockBusy, FinishHarness, NextHarness
  <2> QED BY <2>1, <2>2, <2>3 DEF Aside
<1>3. OwnFiles(d)' /\ ClaimInv(d)' /\ DispatchInv(d)' /\ LeaseInv(d)'
  BY <1>1 DEF OneDaemonInv, OwnFiles, ClaimInv, DispatchInv, LeaseInv, HasLease, WorkerOf,
              TreeAlive, WorkerAlive
<1>4. QueueInv(d)' /\ CurrentInv(d)' /\ UnlinkInv(d)'
  BY <1>1, <1>2 DEF OneDaemonInv, QueueInv, CurrentInv, UnlinkInv, TreeAlive, WorkerAlive
<1>5. ChosenInv(d)'
  BY <1>1, <1>2 DEF OneDaemonInv, ChosenInv, HasLease, TreeAlive, WorkerAlive
<1> QED BY <1>3, <1>4, <1>5 DEF OneDaemonInv

\* Only FindStaleLease goes on to unlink a lease.
LEMMA UnlinkElsewhere ==
    ASSUME NEW d, Daemons = {d}, TreeCovers, TypeInv,
           \/ ScanQueue(d) \/ (\E aged \in SUBSET Jobs : RecoverAbandonedJobs(d, aged))
           \/ CountSlots(d) \/ ReserveJob(d) \/ UnlinkLease(d) \/ AcquireLease(d)
           \/ LeaseRefused(d) \/ SpawnWorker(d) \/ RegisterWorker(d) \/ SpawnFails(d)
           \/ IdentityNotWritten(d)
    PROVE  UnlinkInv(d)'
<1>1. daemonPc'[d] # "unlink_lease"
  BY DEF ScanQueue, RecoverAbandonedJobs, CountSlots, ReserveJob, UnlinkLease, AcquireLease,
         LeaseRefused, SpawnWorker, RegisterWorker, SpawnFails, IdentityNotWritten, Goto,
         TypeInv, TypeOK
<1> QED BY <1>1 DEF UnlinkInv

\* The steps there are, when there is one daemon.
LEMMA OneDaemonNext ==
    ASSUME NEW d, Daemons = {d}, TreeCovers, Next
    PROVE  \/ DaemonStep(d)
           \/ \E j \in Jobs : WorkerStep(<<d, j>>) /\ UNCHANGED daemonVars
           \/ \E j \in Jobs : ControlStep(j) /\ UNCHANGED daemonVars
<1>1. ASSUME NEW w \in Workers, WorkerStep(w), UNCHANGED daemonVars
      PROVE  \E j \in Jobs : WorkerStep(<<d, j>>) /\ UNCHANGED daemonVars
  <2>1. w[2] \in Jobs /\ w = <<d, w[2]>>
    BY DEF Workers
  <2> QED BY <1>1, <2>1
<1> QED BY <1>1 DEF Next

\* A job's files keep naming the one worker the daemon can have started for it.
LEMMA OwnFilesStep ==
    ASSUME NEW d, Daemons = {d}, TreeCovers, TypeInv, OwnFiles(d), Next, ~Aside(d)
    PROVE  OwnFiles(d)'
<1>1. ASSUME NEW j \in Jobs,
             TerminateWorker(d, j) \/ ReapWorker(d, j)
      PROVE  OwnFiles(d)'
  BY <1>1 DEF OwnFiles, TypeInv, TypeOK, TerminateWorker, TerminateTree, ReapWorker
<1>2. ASSUME ScanQueue(d)
      PROVE  OwnFiles(d)'
  BY <1>2 DEF OwnFiles, ScanQueue
<1>3. ASSUME NEW aged \in SUBSET Jobs, RecoverAbandonedJobs(d, aged)
      PROVE  OwnFiles(d)'
  BY <1>3 DEF OwnFiles, RecoverAbandonedJobs
<1>4. ASSUME CountSlots(d) \/ ReserveJob(d) \/ FindStaleLease(d)
      PROVE  OwnFiles(d)'
  BY <1>4 DEF OwnFiles, CountSlots, ReserveJob, FindStaleLease, files
<1>5. ASSUME UnlinkLease(d)
      PROVE  OwnFiles(d)'
  BY <1>5 DEF OwnFiles, UnlinkLease
<1>6. ASSUME AcquireLease(d)
      PROVE  OwnFiles(d)'
  BY <1>6 DEF OwnFiles, AcquireLease
<1>7. ASSUME LeaseRefused(d)
      PROVE  OwnFiles(d)'
  BY <1>7 DEF OwnFiles, LeaseRefused
<1>8. ASSUME SpawnWorker(d) \/ RegisterWorker(d)
      PROVE  OwnFiles(d)'
  <2>1. CASE SpawnWorker(d)
    BY <2>1 DEF OwnFiles, SpawnWorker, files
  <2>2. CASE RegisterWorker(d)
    BY <2>2 DEF OwnFiles, TypeInv, TypeOK, RegisterWorker
  <2> QED BY <1>8, <2>1, <2>2
<1>9. ASSUME SpawnFails(d) \/ IdentityNotWritten(d)
      PROVE  OwnFiles(d)'
  BY <1>9 DEF OwnFiles, TypeInv, TypeOK, SpawnFails, IdentityNotWritten, TerminateTree
<1>10. ASSUME NEW j \in Jobs, UNCHANGED daemonVars,
              \/ CreateWorkerLock(<<d, j>>) \/ WriteWorkerPid(<<d, j>>)
              \/ ReadStatus(<<d, j>>) \/ WriteRunning(<<d, j>>)
              \/ WriteProgress(<<d, j>>) \/ WriteResult(<<d, j>>)
              \/ WrapperError(<<d, j>>) \/ ReleaseJobLock(<<d, j>>)
              \/ CrashWorker(<<d, j>>) \/ OrphanEnds(<<d, j>>)
       PROVE  OwnFiles(d)'
  BY <1>10
  DEF OwnFiles, TypeInv, TypeOK, CreateWorkerLock, WriteWorkerPid, ReadStatus, files,
      WriteRunning, WriteProgress, WriteResult, WrapperError, ReleaseJobLock,
      CrashWorker, OrphanEnds
<1>11. ASSUME NEW j \in Jobs, UNCHANGED daemonVars,
              StartTask(j) \/ CheckCancel(j) \/ WriteCancelled(j)
       PROVE  OwnFiles(d)'
  BY <1>11
  DEF OwnFiles, TypeInv, TypeOK, StartTask, CheckCancel, files, WriteCancelled
<1> QED
  BY <1>1, <1>2, <1>3, <1>4, <1>5, <1>6, <1>7, <1>8, <1>9, <1>10, <1>11, OneDaemonNext
  DEF Aside, DaemonStep, Tick, WorkerStep, Work, ControlStep

\* Where no harness outlives its worker unseen, a terminated worker is gone.
LEMMA TerminatedIsGone ==
    ASSUME TreeCovers, NEW d, NEW j, TerminateTree(d, j)
    PROVE  /\ workerPc' = [workerPc EXCEPT ![<<d, j>>] = "gone"]
           /\ \/ UNCHANGED <<status, workerLock, pidWritten>>
              \/ /\ workerPc[<<d, j>>] \in {"locked", "claimed", "read", "exec", "final", "lost"}
                 /\ status' = [status EXCEPT ![j] = "failed"]
                 /\ workerLock' = [workerLock EXCEPT ![j] = None]
                 /\ pidWritten' = [pidWritten EXCEPT ![j] = FALSE]
BY DEF TerminateTree

\* ... and what is recorded of the other jobs stays.
LEMMA TerminatedAlone ==
    ASSUME TreeCovers, TypeInv, NEW d, NEW j, TerminateTree(d, j),
           NEW k \in Jobs, k # j
    PROVE  /\ status'[k] = status[k]
           /\ workerLock'[k] = workerLock[k]
           /\ pidWritten'[k] = pidWritten[k]
<1>1. CASE UNCHANGED <<status, workerLock, pidWritten>>
  BY <1>1
<1>2. CASE /\ status' = [status EXCEPT ![j] = "failed"]
           /\ workerLock' = [workerLock EXCEPT ![j] = None]
           /\ pidWritten' = [pidWritten EXCEPT ![j] = FALSE]
  BY <1>2 DEF TypeInv, TypeOK
<1> QED BY <1>1, <1>2, TerminatedIsGone

\* No step takes worker.lock from a worker that has claimed its job.
LEMMA ClaimStep ==
    ASSUME NEW d, Daemons = {d}, TreeCovers, TypeInv, OwnFiles(d), ClaimInv(d), Next, ~Aside(d)
    PROVE  ClaimInv(d)'
<1>1. ASSUME NEW j \in Jobs, TerminateWorker(d, j)
      PROVE  ClaimInv(d)'
  BY <1>1, TerminatedIsGone
  DEF ClaimInv, WorkerOf, Workers, TypeInv, TypeOK, TerminateWorker
<1>2. ASSUME NEW j \in Jobs, ReapWorker(d, j)
      PROVE  ClaimInv(d)'
  BY <1>2 DEF ClaimInv, WorkerOf, ReapWorker
<1>3. ASSUME ScanQueue(d)
      PROVE  ClaimInv(d)'
  BY <1>3 DEF ClaimInv, WorkerOf, ScanQueue, QueuedJobs
<1>4. ASSUME NEW aged \in SUBSET Jobs, RecoverAbandonedJobs(d, aged)
      PROVE  ClaimInv(d)'
  BY <1>4, ClaimRecovered
<1>5. ASSUME CountSlots(d) \/ ReserveJob(d) \/ FindStaleLease(d)
      PROVE  ClaimInv(d)'
  BY <1>5 DEF ClaimInv, WorkerOf, CountSlots, ReserveJob, FindStaleLease, files
<1>6. ASSUME UnlinkLease(d)
      PROVE  ClaimInv(d)'
  BY <1>6 DEF ClaimInv, WorkerOf, UnlinkLease
<1>7. ASSUME AcquireLease(d)
      PROVE  ClaimInv(d)'
  BY <1>7 DEF ClaimInv, WorkerOf, AcquireLease
<1>8. ASSUME LeaseRefused(d)
      PROVE  ClaimInv(d)'
  BY <1>8 DEF ClaimInv, WorkerOf, LeaseRefused
<1>9. ASSUME SpawnWorker(d) \/ RegisterWorker(d)
      PROVE  ClaimInv(d)'
  <2>1. CASE SpawnWorker(d)
    <3>1. PICK j \in Jobs : WorkerGoto(<<d, j>>, "boot")
      BY <2>1, OldestSpawned DEF SpawnWorker, WorkerGoto
    <3>2. UNCHANGED <<workerLock, pidWritten>>
      BY <2>1 DEF SpawnWorker, files
    <3>3. \A k \in Jobs : WorkerOf(d, k)' = IF k = j THEN "boot" ELSE WorkerOf(d, k)
      BY <3>1, WorkersAfter
    <3> QED BY <3>2, <3>3 DEF ClaimInv
  <2>2. CASE RegisterWorker(d)
    BY <2>2 DEF ClaimInv, WorkerOf, RegisterWorker
  <2> QED BY <1>9, <2>1, <2>2
<1>10. ASSUME SpawnFails(d)
       PROVE  ClaimInv(d)'
  BY <1>10 DEF ClaimInv, WorkerOf, SpawnFails
<1>11. ASSUME IdentityNotWritten(d)
       PROVE  ClaimInv(d)'
  <2>1. PICK j \in Jobs : TerminateTree(d, j)
    BY <1>11, OldestSpawned DEF IdentityNotWritten
  <2>2. WorkerGoto(<<d, j>>, "gone")
    BY <2>1, TerminatedIsGone DEF WorkerGoto
  <2>3. \A k \in Jobs : k # j =>
            workerLock'[k] = workerLock[k] /\ pidWritten'[k] = pidWritten[k]
    BY <2>1, TerminatedAlone
  <2>4. \A k \in Jobs : WorkerOf(d, k)' = IF k = j THEN "gone" ELSE WorkerOf(d, k)
    BY <2>2, WorkersAfter
  <2> QED BY <2>3, <2>4 DEF ClaimInv
<1>12. ASSUME NEW j \in Jobs, UNCHANGED daemonVars,
              WriteResult(<<d, j>>) \/ WrapperError(<<d, j>>)
       PROVE  ClaimInv(d)'
  BY <1>12, StateAssumption
  DEF ClaimInv, WorkerOf, Workers, TypeInv, TypeOK, WriteResult, WorkerGoto,
      WrapperError, daemonVars
<1>13. ASSUME NEW j \in Jobs, UNCHANGED daemonVars,
              ReleaseJobLock(<<d, j>>)
       PROVE  ClaimInv(d)'
  BY <1>13, StateAssumption
  DEF ClaimInv, WorkerOf, Workers, TypeInv, TypeOK, WorkerGoto, ReleaseJobLock,
      daemonVars
<1>14. ASSUME NEW j \in Jobs, UNCHANGED daemonVars,
              WriteRunning(<<d, j>>) \/ WriteProgress(<<d, j>>)
       PROVE  ClaimInv(d)'
  BY <1>14
  DEF ClaimInv, WorkerOf, Workers, TypeInv, TypeOK, WriteRunning, WorkerGoto,
      WriteProgress
<1>15. ASSUME NEW j \in Jobs, UNCHANGED daemonVars,
              \/ CreateWorkerLock(<<d, j>>) \/ ReadStatus(<<d, j>>)
              \/ CrashWorker(<<d, j>>) \/ OrphanEnds(<<d, j>>)
       PROVE  ClaimInv(d)'
  BY <1>15, ClaimWorker
<1>16. ASSUME NEW j \in Jobs, UNCHANGED daemonVars,
              WriteWorkerPid(<<d, j>>)
       PROVE  ClaimInv(d)'
  BY <1>16, ClaimWritten
<1>17. ASSUME NEW j \in Jobs, UNCHANGED daemonVars,
              StartTask(j) \/ CheckCancel(j) \/ WriteCancelled(j)
       PROVE  ClaimInv(d)'
  BY <1>17 DEF ClaimInv, WorkerOf, StartTask, CheckCancel, files, WriteCancelled
<1> QED
  BY <1>1, <1>2, <1>3, <1>4, <1>5, <1>6, <1>7, <1>8, <1>9, <1>10, <1>11, <1>12, <1>13,
     <1>14, <1>15, <1>16, <1>17, OneDaemonNext
  DEF Aside, DaemonStep, Tick, WorkerStep, Work, ControlStep

\* The jobs still to be reserved have no worker, and are not reserved twice.
LEMMA QueueStep ==
    ASSUME NEW d, Daemons = {d}, TreeCovers, TypeInv, QueueInv(d), CurrentInv(d), ChosenInv(d),
           DispatchInv(d), Next, ~Aside(d)
    PROVE  QueueInv(d)'
<1>1. ASSUME NEW j \in Jobs,
             TerminateWorker(d, j) \/ ReapWorker(d, j)
      PROVE  QueueInv(d)'
  BY <1>1
  DEF QueueInv, TreeAlive, WorkerAlive, Workers, TypeInv, TypeOK, TerminateWorker,
      TerminateTree, daemonVars, ReapWorker
<1>2. ASSUME ScanQueue(d)
      PROVE  QueueInv(d)'
  BY <1>2, StateAssumption
  DEF QueueInv, ChosenInv, DispatchInv, TreeAlive, WorkerAlive, Terminal, ScanQueue,
      QueuedJobs, Unclaimed, IsDispatchLocked, IsStaleDispatchLock, DaemonAlive
<1>3. ASSUME NEW aged \in SUBSET Jobs, RecoverAbandonedJobs(d, aged)
      PROVE  QueueInv(d)'
  BY <1>3 DEF QueueInv, TreeAlive, WorkerAlive, RecoverAbandonedJobs
<1>4. ASSUME CountSlots(d) \/ ReserveJob(d) \/ FindStaleLease(d)
      PROVE  QueueInv(d)'
  BY <1>4
  DEF QueueInv, TreeAlive, WorkerAlive, TypeInv, TypeOK, Terminal, CountSlots, Goto,
      ReserveJob, FindStaleLease, files, HandOK
<1>5. ASSUME UnlinkLease(d)
      PROVE  QueueInv(d)'
  BY <1>5 DEF QueueInv, TreeAlive, WorkerAlive, UnlinkLease
<1>6. ASSUME AcquireLease(d)
      PROVE  QueueInv(d)'
  BY <1>6 DEF QueueInv, CurrentInv, TreeAlive, WorkerAlive, AcquireLease
<1>7. ASSUME LeaseRefused(d)
      PROVE  QueueInv(d)'
  BY <1>7 DEF QueueInv, TreeAlive, WorkerAlive, LeaseRefused
<1>8. ASSUME RegisterWorker(d) \/ SpawnFails(d)
      PROVE  QueueInv(d)'
  BY <1>8, StateAssumption, OldestSpawned
  DEF QueueInv, TreeAlive, WorkerAlive, Workers, TypeInv, TypeOK, Terminal,
      RegisterWorker, SpawnFails, LeasesReleasedBy
<1>9. ASSUME IdentityNotWritten(d)
      PROVE  QueueInv(d)'
  <2>1. PICK j \in Jobs : /\ TerminateTree(d, j)
                          /\ chosen' = [chosen EXCEPT ![d] = @ \ {j}]
    BY <1>9, OldestSpawned DEF IdentityNotWritten
  <2>2. workerPc' = [workerPc EXCEPT ![<<d, j>>] = "gone"]
    BY <2>1, TerminatedIsGone
  <2>3. queue' = queue
    BY <1>9 DEF IdentityNotWritten
  <2>4. chosen'[d] \subseteq chosen[d]
    BY <2>1 DEF TypeInv, TypeOK
  <2>5. \A k \in Jobs : workerPc'[<<d, k>>] \in {workerPc[<<d, k>>], "gone"}
    BY <2>2 DEF TypeInv, TypeOK, Workers
  <2>6. \A k \in Jobs : TreeAlive(<<d, k>>)' => TreeAlive(<<d, k>>)
    BY <2>5 DEF TreeAlive, WorkerAlive
  <2>7. queue[d] \subseteq Jobs
    BY DEF TypeInv, TypeOK
  <2> QED BY <2>3, <2>4, <2>6, <2>7 DEF QueueInv
<1>10. ASSUME SpawnWorker(d)
       PROVE  QueueInv(d)'
  BY <1>10, QueueSpawned
<1>11. ASSUME NEW j \in Jobs, UNCHANGED daemonVars,
              \/ CreateWorkerLock(<<d, j>>) \/ WriteWorkerPid(<<d, j>>)
              \/ ReadStatus(<<d, j>>) \/ WriteRunning(<<d, j>>)
              \/ WriteProgress(<<d, j>>) \/ WriteResult(<<d, j>>)
              \/ WrapperError(<<d, j>>) \/ ReleaseJobLock(<<d, j>>)
              \/ CrashWorker(<<d, j>>) \/ OrphanEnds(<<d, j>>)
       PROVE  QueueInv(d)'
  BY <1>11
  DEF QueueInv, TreeAlive, WorkerAlive, Workers, TypeInv, TypeOK, CreateWorkerLock,
      WorkerGoto, WriteWorkerPid, ReadStatus, WriteRunning, WriteProgress,
      WriteResult, WrapperError, ReleaseJobLock, CrashWorker, OrphanEnds, daemonVars
<1>12. ASSUME NEW j \in Jobs, UNCHANGED daemonVars,
              StartTask(j) \/ CheckCancel(j) \/ WriteCancelled(j)
       PROVE  QueueInv(d)'
  BY <1>12
  DEF QueueInv, TreeAlive, WorkerAlive, StartTask, CheckCancel, WriteCancelled,
      daemonVars
<1> QED
  BY <1>1, <1>2, <1>3, <1>4, <1>5, <1>6, <1>7, <1>8, <1>9, <1>10, <1>11, <1>12,
     OneDaemonNext
  DEF Aside, DaemonStep, Tick, WorkerStep, Work, ControlStep

\* The job in hand has no worker, its dispatch.lock is held and its workspace is
\* not reserved yet.
LEMMA CurrentStep ==
    ASSUME NEW d, Daemons = {d}, TreeCovers,
           TypeInv, QueueInv(d), CurrentInv(d), Next, ~Aside(d)
    PROVE  CurrentInv(d)'
<1>1. ASSUME NEW j \in Jobs,
             TerminateWorker(d, j) \/ ReapWorker(d, j)
      PROVE  CurrentInv(d)'
  BY <1>1 DEF CurrentInv, TerminateWorker, daemonVars, ReapWorker
<1>2. ASSUME ScanQueue(d)
      PROVE  CurrentInv(d)'
  BY <1>2 DEF CurrentInv, ScanQueue, Goto
<1>3. ASSUME NEW aged \in SUBSET Jobs, RecoverAbandonedJobs(d, aged)
      PROVE  CurrentInv(d)'
  BY <1>3 DEF CurrentInv, RecoverAbandonedJobs, Goto
<1>4. ASSUME CountSlots(d) \/ FindStaleLease(d)
      PROVE  CurrentInv(d)'
  BY <1>4
  DEF CurrentInv, TreeAlive, WorkerAlive, TypeInv, TypeOK, Terminal, CountSlots, Goto,
      DispatchLocksAfterLookingAt, IsDispatchLocked, IsStaleDispatchLock, DaemonAlive,
      FindStaleLease, files
<1>5. ASSUME UnlinkLease(d)
      PROVE  CurrentInv(d)'
  BY <1>5 DEF CurrentInv, TreeAlive, WorkerAlive, UnlinkLease
<1>6. ASSUME AcquireLease(d)
      PROVE  CurrentInv(d)'
  BY <1>6 DEF CurrentInv, TypeInv, TypeOK, AcquireLease, Goto
<1>7. ASSUME LeaseRefused(d)
      PROVE  CurrentInv(d)'
  BY <1>7 DEF CurrentInv, TypeInv, TypeOK, LeaseRefused, Goto
<1>8. ASSUME ReserveJob(d)
      PROVE  CurrentInv(d)'
  BY <1>8, CurrentReserved
<1>9. ASSUME \/ SpawnWorker(d) \/ RegisterWorker(d) \/ SpawnFails(d)
             \/ IdentityNotWritten(d)
      PROVE  CurrentInv(d)'
  BY <1>9
  DEF CurrentInv, TypeInv, TypeOK, SpawnWorker, Goto, RegisterWorker, SpawnFails,
      IdentityNotWritten
<1>10. ASSUME NEW j \in Jobs, UNCHANGED daemonVars,
              WriteProgress(<<d, j>>)
       PROVE  CurrentInv(d)'
  BY <1>10 DEF CurrentInv, TreeAlive, WorkerAlive, WriteProgress, daemonVars
<1>11. ASSUME NEW j \in Jobs, UNCHANGED daemonVars,
              \/ CreateWorkerLock(<<d, j>>) \/ WriteWorkerPid(<<d, j>>)
              \/ ReadStatus(<<d, j>>) \/ WriteRunning(<<d, j>>)
              \/ WriteResult(<<d, j>>) \/ WrapperError(<<d, j>>)
              \/ ReleaseJobLock(<<d, j>>) \/ CrashWorker(<<d, j>>)
              \/ OrphanEnds(<<d, j>>)
       PROVE  CurrentInv(d)'
  BY <1>11, CurrentWorker
<1>12. ASSUME NEW j \in Jobs, UNCHANGED daemonVars,
              StartTask(j) \/ CheckCancel(j) \/ WriteCancelled(j)
       PROVE  CurrentInv(d)'
  BY <1>12
  DEF CurrentInv, TreeAlive, WorkerAlive, StartTask, CheckCancel, files,
      WriteCancelled, daemonVars
<1> QED
  BY <1>1, <1>2, <1>3, <1>4, <1>5, <1>6, <1>7, <1>8, <1>9, <1>10, <1>11, <1>12,
     OneDaemonNext
  DEF Aside, DaemonStep, Tick, WorkerStep, Work, ControlStep

\* What is reserved stays reserved, lease included, until it is spawned or given
\* back.
LEMMA ChosenStep ==
    ASSUME NEW d, Daemons = {d}, TreeCovers,
           TypeInv, CurrentInv(d), ChosenInv(d), Next, ~Aside(d)
    PROVE  ChosenInv(d)'
<1>1. ASSUME NEW j \in Jobs,
             TerminateWorker(d, j) \/ ReapWorker(d, j)
      PROVE  ChosenInv(d)'
  BY <1>1 DEF ChosenInv, TerminateWorker, daemonVars, ReapWorker
<1>2. ASSUME ScanQueue(d)
      PROVE  ChosenInv(d)'
  BY <1>2 DEF ChosenInv, ScanQueue
<1>3. ASSUME NEW aged \in SUBSET Jobs, RecoverAbandonedJobs(d, aged)
      PROVE  ChosenInv(d)'
  BY <1>3, ChosenRecovered
<1>4. ASSUME CountSlots(d) \/ ReserveJob(d)
      PROVE  ChosenInv(d)'
  BY <1>4
  DEF ChosenInv, TreeAlive, WorkerAlive, TypeInv, TypeOK, HasLease, Lease, CountSlots,
      Goto, ReserveJob
<1>5. ASSUME FindStaleLease(d)
      PROVE  ChosenInv(d)'
  BY <1>5 DEF ChosenInv, TreeAlive, WorkerAlive, HasLease, FindStaleLease, Goto, files
<1>6. ASSUME UnlinkLease(d)
      PROVE  ChosenInv(d)'
  BY <1>6
  DEF ChosenInv, CurrentInv, TreeAlive, WorkerAlive, HasLease, UnlinkLease, Goto
<1>7. ASSUME LeaseRefused(d)
      PROVE  ChosenInv(d)'
  BY <1>7
  DEF ChosenInv, CurrentInv, TreeAlive, WorkerAlive, HasLease, LeaseRefused, Goto
<1>8. ASSUME AcquireLease(d)
      PROVE  ChosenInv(d)'
  BY <1>8, ChosenAcquired
<1>9. ASSUME SpawnWorker(d) \/ RegisterWorker(d)
      PROVE  ChosenInv(d)'
  BY <1>9
  DEF ChosenInv, TreeAlive, WorkerAlive, Workers, TypeInv, TypeOK, HasLease,
      SpawnWorker, Goto, files, RegisterWorker
<1>10. ASSUME SpawnFails(d) \/ IdentityNotWritten(d)
       PROVE  ChosenInv(d)'
  BY <1>10, ChosenGivenBack
<1>11. ASSUME NEW j \in Jobs, UNCHANGED daemonVars,
              \/ CreateWorkerLock(<<d, j>>) \/ WriteWorkerPid(<<d, j>>)
              \/ ReadStatus(<<d, j>>) \/ WriteRunning(<<d, j>>)
              \/ WriteProgress(<<d, j>>) \/ WriteResult(<<d, j>>)
              \/ WrapperError(<<d, j>>) \/ ReleaseJobLock(<<d, j>>)
              \/ CrashWorker(<<d, j>>) \/ OrphanEnds(<<d, j>>)
       PROVE  ChosenInv(d)'
  BY <1>11
  DEF ChosenInv, TreeAlive, WorkerAlive, Workers, TypeInv, TypeOK, HasLease,
      CreateWorkerLock, WorkerGoto, WriteWorkerPid, ReadStatus, files, WriteRunning,
      WriteProgress, WriteResult, WrapperError, ReleaseJobLock, CrashWorker,
      OrphanEnds, daemonVars
<1>12. ASSUME NEW j \in Jobs, UNCHANGED daemonVars,
              StartTask(j) \/ CheckCancel(j) \/ WriteCancelled(j)
       PROVE  ChosenInv(d)'
  BY <1>12
  DEF ChosenInv, TreeAlive, WorkerAlive, HasLease, StartTask, CheckCancel, files,
      WriteCancelled, daemonVars
<1> QED
  BY <1>1, <1>2, <1>3, <1>4, <1>5, <1>6, <1>7, <1>8, <1>9, <1>10, <1>11, <1>12,
     OneDaemonNext
  DEF Aside, DaemonStep, Tick, WorkerStep, Work, ControlStep

\* A job at work that is not recorded as such keeps its dispatch.lock.
LEMMA DispatchStep ==
    ASSUME NEW d, Daemons = {d}, TreeCovers, TypeInv, OwnFiles(d), ClaimInv(d), CurrentInv(d),
           ChosenInv(d), DispatchInv(d), Next, ~Aside(d)
    PROVE  DispatchInv(d)'
<1>1. ASSUME NEW j \in Jobs,
             TerminateWorker(d, j) \/ ReapWorker(d, j)
      PROVE  DispatchInv(d)'
  BY <1>1
  DEF DispatchInv, TreeAlive, WorkerAlive, Workers, TypeInv, TypeOK, Terminal,
      TerminateWorker, TerminateTree, ReapWorker
<1>2. ASSUME ScanQueue(d)
      PROVE  DispatchInv(d)'
  BY <1>2
  DEF DispatchInv, TreeAlive, WorkerAlive, Terminal, ScanQueue,
      DispatchLocksAfterLookingAt, IsDispatchLocked, IsStaleDispatchLock, DaemonAlive
<1>3. ASSUME NEW aged \in SUBSET Jobs, RecoverAbandonedJobs(d, aged)
      PROVE  DispatchInv(d)'
  BY <1>3, DispatchRecovered
<1>4. ASSUME CountSlots(d)
      PROVE  DispatchInv(d)'
  BY <1>4
  DEF DispatchInv, TreeAlive, WorkerAlive, Terminal, CountSlots,
      DispatchLocksAfterLookingAt, IsDispatchLocked, IsStaleDispatchLock, DaemonAlive
<1>5. ASSUME ReserveJob(d) \/ FindStaleLease(d)
      PROVE  DispatchInv(d)'
  BY <1>5
  DEF DispatchInv, TreeAlive, WorkerAlive, TypeInv, TypeOK, ReserveJob,
      FindStaleLease, files
<1>6. ASSUME UnlinkLease(d)
      PROVE  DispatchInv(d)'
  BY <1>6 DEF DispatchInv, TreeAlive, WorkerAlive, UnlinkLease
<1>7. ASSUME AcquireLease(d)
      PROVE  DispatchInv(d)'
  BY <1>7 DEF DispatchInv, TreeAlive, WorkerAlive, AcquireLease
<1>8. ASSUME LeaseRefused(d)
      PROVE  DispatchInv(d)'
  BY <1>8, DispatchRefused
<1>9. ASSUME RegisterWorker(d) \/ IdentityNotWritten(d)
      PROVE  DispatchInv(d)'
  <2>1. CASE RegisterWorker(d)
    BY <2>1 DEF DispatchInv, TreeAlive, WorkerAlive, RegisterWorker
  <2>2. CASE IdentityNotWritten(d)
    <3>1. PICK j \in Jobs : /\ TerminateTree(d, j)
                            /\ dispatchLock' = [dispatchLock EXCEPT ![j] = None]
      BY <2>2, OldestSpawned DEF IdentityNotWritten
    <3>2. WorkerGoto(<<d, j>>, "gone")
      BY <3>1, TerminatedIsGone DEF WorkerGoto
    <3>3. ~TreeAlive(<<d, j>>)'
      BY <3>2 DEF WorkerGoto, TreeAlive, WorkerAlive, Workers, TypeInv, TypeOK
    <3>4. \A k \in Jobs : k # j =>
              status'[k] = status[k] /\ dispatchLock'[k] = dispatchLock[k]
      BY <3>1, TerminatedAlone DEF TypeInv, TypeOK
    <3>5. \A k \in Jobs : k # j => TreeAlive(<<d, k>>)' = TreeAlive(<<d, k>>)
      BY <3>2, OtherWorkers
    <3> QED BY <3>3, <3>4, <3>5 DEF DispatchInv
  <2> QED BY <1>9, <2>1, <2>2
<1>10. ASSUME SpawnWorker(d)
       PROVE  DispatchInv(d)'
  BY <1>10, DispatchSpawned
<1>11. ASSUME SpawnFails(d)
       PROVE  DispatchInv(d)'
  BY <1>11, DispatchSpawnFails
<1>12. ASSUME NEW j \in Jobs, UNCHANGED daemonVars,
              \/ CreateWorkerLock(<<d, j>>) \/ WriteWorkerPid(<<d, j>>)
              \/ ReadStatus(<<d, j>>) \/ WriteRunning(<<d, j>>)
              \/ WriteProgress(<<d, j>>) \/ WriteResult(<<d, j>>)
              \/ WrapperError(<<d, j>>) \/ ReleaseJobLock(<<d, j>>)
              \/ CrashWorker(<<d, j>>) \/ OrphanEnds(<<d, j>>)
       PROVE  DispatchInv(d)'
  BY <1>12
  DEF DispatchInv, ClaimInv, TreeAlive, WorkerAlive, Workers, TypeInv, TypeOK,
      CreateWorkerLock, WorkerGoto, WriteWorkerPid, ReadStatus, files, WriteRunning,
      WriteProgress, WriteResult, WrapperError, ReleaseJobLock, CrashWorker,
      OrphanEnds
<1>13. ASSUME NEW j \in Jobs, UNCHANGED daemonVars,
              StartTask(j) \/ CheckCancel(j) \/ WriteCancelled(j)
       PROVE  DispatchInv(d)'
  BY <1>13
  DEF DispatchInv, TreeAlive, WorkerAlive, TypeInv, TypeOK, StartTask, CheckCancel,
      files, WriteCancelled
<1> QED
  BY <1>1, <1>2, <1>3, <1>4, <1>5, <1>6, <1>7, <1>8, <1>9, <1>10, <1>11, <1>12, <1>13,
     OneDaemonNext
  DEF Aside, DaemonStep, Tick, WorkerStep, Work, ControlStep

\* No step takes the lease from a worker that may still hand over its prompt.
LEMMA LeaseStep ==
    ASSUME NEW d, Daemons = {d}, TreeCovers, TypeInv, OwnFiles(d), ChosenInv(d), LeaseInv(d),
           UnlinkInv(d), Next, ~Aside(d)
    PROVE  LeaseInv(d)'
<1>1. ASSUME NEW j \in Jobs, TerminateWorker(d, j)
      PROVE  LeaseInv(d)'
  <2>1. WorkerGoto(<<d, j>>, "gone") /\ UNCHANGED lease
    BY <1>1, TerminatedIsGone DEF TerminateWorker, WorkerGoto
  <2>2. \A k \in Jobs \ {j} : status'[k] = status[k]
    BY <1>1, TerminatedIsGone DEF TerminateWorker, TypeInv, TypeOK
  <2>3. ASSUME NEW k \in Jobs, k # j
        PROVE  WorkerOf(d, k)' = WorkerOf(d, k) /\ status'[k] = status[k]
    BY <2>1, <2>2, <2>3, OtherWorkers
  <2>4. WorkerOf(d, j)' = "gone"
    BY <2>1, OtherWorkers
  <2> QED BY <2>1, <2>3, <2>4 DEF LeaseInv, HasLease
<1>2. ASSUME NEW j \in Jobs, ReapWorker(d, j)
      PROVE  LeaseInv(d)'
  BY <1>2, LeaseReaped
<1>3. ASSUME ScanQueue(d)
      PROVE  LeaseInv(d)'
  BY <1>3 DEF LeaseInv, WorkerOf, HasLease, ScanQueue
<1>4. ASSUME NEW aged \in SUBSET Jobs, RecoverAbandonedJobs(d, aged)
      PROVE  LeaseInv(d)'
  BY <1>4, LeaseRecovered
<1>5. ASSUME CountSlots(d) \/ ReserveJob(d) \/ FindStaleLease(d)
      PROVE  LeaseInv(d)'
  BY <1>5
  DEF LeaseInv, WorkerOf, HasLease, CountSlots, ReserveJob, FindStaleLease, files
<1>6. ASSUME AcquireLease(d)
      PROVE  LeaseInv(d)'
  BY <1>6 DEF LeaseInv, WorkerOf, HasLease, AcquireLease
<1>7. ASSUME LeaseRefused(d)
      PROVE  LeaseInv(d)'
  BY <1>7 DEF LeaseInv, WorkerOf, HasLease, LeaseRefused
<1>8. ASSUME UnlinkLease(d)
      PROVE  LeaseInv(d)'
  BY <1>8, LeaseUnlinked
<1>9. ASSUME RegisterWorker(d)
      PROVE  LeaseInv(d)'
  BY <1>9 DEF LeaseInv, WorkerOf, HasLease, RegisterWorker
<1>10. ASSUME SpawnWorker(d)
       PROVE  LeaseInv(d)'
  BY <1>10, LeaseSpawned
<1>11. ASSUME SpawnFails(d)
       PROVE  LeaseInv(d)'
  BY <1>11, LeaseSpawnFails
<1>12. ASSUME IdentityNotWritten(d)
       PROVE  LeaseInv(d)'
  BY <1>12, LeaseNotWritten
<1>13. ASSUME NEW j \in Jobs, UNCHANGED daemonVars,
              WriteProgress(<<d, j>>)
       PROVE  LeaseInv(d)'
  BY <1>13
  DEF LeaseInv, WorkerOf, HasLease, TypeInv, TypeOK, WriteProgress, daemonVars
<1>14. ASSUME NEW j \in Jobs, UNCHANGED daemonVars,
              \/ CreateWorkerLock(<<d, j>>) \/ WriteWorkerPid(<<d, j>>)
              \/ ReadStatus(<<d, j>>) \/ WriteRunning(<<d, j>>)
              \/ WriteResult(<<d, j>>) \/ WrapperError(<<d, j>>)
              \/ ReleaseJobLock(<<d, j>>) \/ CrashWorker(<<d, j>>)
              \/ OrphanEnds(<<d, j>>)
       PROVE  LeaseInv(d)'
  BY <1>14, LeaseWorker
<1>15. ASSUME NEW j \in Jobs, UNCHANGED daemonVars,
              StartTask(j)
       PROVE  LeaseInv(d)'
  BY <1>15 DEF LeaseInv, WorkerOf, Terminal, HasLease, StartTask
<1>16. ASSUME NEW j \in Jobs, UNCHANGED daemonVars,
              CheckCancel(j) \/ WriteCancelled(j)
       PROVE  LeaseInv(d)'
  BY <1>16
  DEF LeaseInv, WorkerOf, TypeInv, TypeOK, Terminal, HasLease, CheckCancel, files,
      WriteCancelled
<1> QED
  BY <1>1, <1>2, <1>3, <1>4, <1>5, <1>6, <1>7, <1>8, <1>9, <1>10, <1>11, <1>12, <1>13,
     <1>14, <1>15, <1>16, OneDaemonNext
  DEF Aside, DaemonStep, Tick, WorkerStep, Work, ControlStep

\* Between the judgement that a lease is stale and its unlink, nobody comes to
\* need it.
LEMMA UnlinkStep ==
    ASSUME NEW d, Daemons = {d}, TreeCovers, TypeInv, OwnFiles(d), ClaimInv(d), UnlinkInv(d),
           Next, ~Aside(d)
    PROVE  UnlinkInv(d)'
<1>1. ASSUME NEW j \in Jobs,
             TerminateWorker(d, j) \/ ReapWorker(d, j)
      PROVE  UnlinkInv(d)'
  BY <1>1 DEF UnlinkInv, TerminateWorker, daemonVars, ReapWorker
<1>2. ASSUME ScanQueue(d)
      PROVE  UnlinkInv(d)'
  BY <1>2, UnlinkElsewhere
<1>3. ASSUME NEW aged \in SUBSET Jobs, RecoverAbandonedJobs(d, aged)
      PROVE  UnlinkInv(d)'
  BY <1>3, UnlinkElsewhere
<1>4. ASSUME \/ CountSlots(d) \/ ReserveJob(d) \/ UnlinkLease(d) \/ AcquireLease(d)
             \/ LeaseRefused(d)
      PROVE  UnlinkInv(d)'
  BY <1>4, UnlinkElsewhere
<1>5. ASSUME FindStaleLease(d)
      PROVE  UnlinkInv(d)'
  BY <1>5, UnlinkFound
<1>6. ASSUME \/ SpawnWorker(d) \/ RegisterWorker(d) \/ SpawnFails(d)
             \/ IdentityNotWritten(d)
      PROVE  UnlinkInv(d)'
  BY <1>6, UnlinkElsewhere
<1>7. ASSUME NEW j \in Jobs, UNCHANGED daemonVars,
             WriteWorkerPid(<<d, j>>)
      PROVE  UnlinkInv(d)'
  BY <1>7
  DEF UnlinkInv, OwnFiles, ClaimInv, WorkerOf, Useless, WriteWorkerPid, WorkerGoto,
      daemonVars
<1>8. ASSUME NEW j \in Jobs, UNCHANGED daemonVars,
             WriteResult(<<d, j>>)
      PROVE  UnlinkInv(d)'
  BY <1>8 DEF UnlinkInv, WorkerOf, Useless, WriteResult, WorkerGoto, daemonVars
<1>9. ASSUME NEW j \in Jobs, UNCHANGED daemonVars,
             WrapperError(<<d, j>>)
      PROVE  UnlinkInv(d)'
  BY <1>9
  DEF UnlinkInv, WorkerOf, Terminal, Useless, WrapperError, WorkerGoto, daemonVars
<1>10. ASSUME NEW j \in Jobs, UNCHANGED daemonVars,
              ReleaseJobLock(<<d, j>>)
       PROVE  UnlinkInv(d)'
  BY <1>10 DEF UnlinkInv, WorkerOf, Useless, ReleaseJobLock, WorkerGoto, daemonVars
<1>11. ASSUME NEW j \in Jobs, UNCHANGED daemonVars,
              OrphanEnds(<<d, j>>)
       PROVE  UnlinkInv(d)'
  BY <1>11 DEF UnlinkInv, WorkerOf, Useless, OrphanEnds, WorkerGoto, files, daemonVars
<1>12. ASSUME NEW j \in Jobs, UNCHANGED daemonVars,
              \/ CreateWorkerLock(<<d, j>>) \/ WriteRunning(<<d, j>>)
              \/ CrashWorker(<<d, j>>)
       PROVE  UnlinkInv(d)'
  BY <1>12, UnlinkWorker
<1>13. ASSUME NEW j \in Jobs, UNCHANGED daemonVars,
              ReadStatus(<<d, j>>)
       PROVE  UnlinkInv(d)'
  BY <1>13, UnlinkRead
<1>14. ASSUME NEW j \in Jobs, UNCHANGED daemonVars,
              WriteProgress(<<d, j>>)
       PROVE  UnlinkInv(d)'
  BY <1>14, UnlinkProgress
<1>15. ASSUME NEW j \in Jobs, UNCHANGED daemonVars,
              StartTask(j)
       PROVE  UnlinkInv(d)'
  BY <1>15 DEF UnlinkInv, WorkerOf, Terminal, Useless, StartTask, daemonVars
<1>16. ASSUME NEW j \in Jobs, UNCHANGED daemonVars,
              CheckCancel(j)
       PROVE  UnlinkInv(d)'
  BY <1>16 DEF UnlinkInv, WorkerOf, Useless, CheckCancel, files, daemonVars
<1>17. ASSUME NEW j \in Jobs, UNCHANGED daemonVars,
              WriteCancelled(j)
       PROVE  UnlinkInv(d)'
  BY <1>17 DEF UnlinkInv, WorkerOf, Terminal, Useless, WriteCancelled, daemonVars
<1> QED
  BY <1>1, <1>2, <1>3, <1>4, <1>5, <1>6, <1>7, <1>8, <1>9, <1>10, <1>11, <1>12, <1>13,
     <1>14, <1>15, <1>16, <1>17, OneDaemonNext
  DEF Aside, DaemonStep, Tick, WorkerStep, Work, ControlStep

\* Nothing is running and nothing is reserved in an empty jobs directory.
LEMMA OneDaemonInit ==
    ASSUME NEW d, Daemons = {d}, TreeCovers, Init
    PROVE  OneDaemonInv(d)
<1>1. \A j \in Jobs : workerPc[<<d, j>>] = "none"
  BY DEF Init, InitQueueState, Workers
<1>2. /\ daemonPc[d] = "off" /\ queue[d] = {} /\ chosen[d] = {}
      /\ \A j \in Jobs : workerLock[j] = None /\ recordedPid[j] = None /\ identity[j] = None
  BY DEF Init, InitQueueState, InitDaemon
<1> QED BY <1>1, <1>2
    DEF OneDaemonInv, OwnFiles, ClaimInv, QueueInv, CurrentInv, ChosenInv, DispatchInv,
        LeaseInv, UnlinkInv, WorkerOf, TreeAlive, WorkerAlive

\* Nor does a step of something else change any of this.
LEMMA OneDaemonStutter ==
    ASSUME NEW d, OneDaemonInv(d), UNCHANGED vars
    PROVE  OneDaemonInv(d)'
BY DEF vars, files, daemonVars, OneDaemonInv, OwnFiles, ClaimInv, QueueInv, CurrentInv,
       ChosenInv, DispatchInv, LeaseInv, UnlinkInv, Useless, HasLease, WorkerOf, TreeAlive,
       WorkerAlive

\* So it is an invariant of the queue.
LEMMA OneDaemonHolds ==
    ASSUME NEW d, Daemons = {d}, TreeCovers
    PROVE  Spec => [](TypeInv /\ OneDaemonInv(d))
<1> DEFINE IInv == TypeInv /\ OneDaemonInv(d)
<1>1. Init => IInv
  BY TypeInit, OneDaemonInit
<1>2. IInv /\ [Next]_vars => IInv'
  <2> SUFFICES ASSUME IInv, [Next]_vars PROVE IInv'
    OBVIOUS
  <2>1. TypeInv'
    BY TypeNext
  <2>2. CASE Next /\ ~Aside(d)
    <3>1. OwnFiles(d)' /\ ClaimInv(d)' /\ QueueInv(d)' /\ CurrentInv(d)'
      BY <2>2, OwnFilesStep, ClaimStep, QueueStep, CurrentStep DEF OneDaemonInv
    <3>2. ChosenInv(d)' /\ DispatchInv(d)' /\ LeaseInv(d)' /\ UnlinkInv(d)'
      BY <2>2, ChosenStep, DispatchStep, LeaseStep, UnlinkStep DEF OneDaemonInv
    <3> QED BY <2>1, <3>1, <3>2 DEF OneDaemonInv
  <2>3. CASE UNCHANGED vars
    BY <2>1, <2>3, OneDaemonStutter
  <2>4. CASE Aside(d)
    BY <2>1, <2>4, AsideStep
  <2> QED BY <2>2, <2>3, <2>4
<1>3. IInv => TypeInv /\ OneDaemonInv(d)
  OBVIOUS
<1> QED
  <2> HIDE DEF IInv
  <2> QED BY <1>1, <1>2, <1>3, PTL DEF Spec

\* With one daemon, where no harness outlives its worker unseen (on Windows it
\* is in the worker's Job Object), the lease of a workspace names the job being
\* worked on there for as long as a prompt is at work, even by what a dead
\* worker left behind; so no two prompts are ever at work in one workspace.  Neither a crash of the
\* daemon or of a worker between any two steps, nor a cancellation, a failed
\* spawn, a recovery or a reaping takes the lease away early.
THEOREM OneDaemonExclusive ==
    ASSUME NEW d, Daemons = {d}, TreeCovers
    PROVE  Spec => [](LeaseProtectsExecution /\ WorkspaceExclusive)
<1>1. TypeInv /\ OneDaemonInv(d) => LeaseProtectsExecution /\ WorkspaceExclusive
  <2> SUFFICES ASSUME LeaseInv(d) PROVE LeaseProtectsExecution /\ WorkspaceExclusive
    BY DEF OneDaemonInv
  <2>1. ASSUME NEW w \in Workers, Executing(w)
        PROVE  w[2] \in Jobs /\ w = <<d, w[2]>> /\ HasLease(w[2])
    <3>1. w[2] \in Jobs /\ w = <<d, w[2]>>
      BY DEF Workers
    <3>2. WorkerOf(d, w[2]) \in {"exec", "orphan"}
      BY <2>1, <3>1 DEF Executing, WorkerOf
    <3> QED BY <3>1, <3>2 DEF LeaseInv
  <2>2. LeaseProtectsExecution
    BY <2>1 DEF LeaseProtectsExecution, HasLease
  <2>3. ASSUME NEW v \in Workers, NEW w \in Workers, v # w, Executing(v), Executing(w)
        PROVE  WorkspaceOf[v[2]] # WorkspaceOf[w[2]]
    BY <2>1, <2>3 DEF HasLease
  <2> QED BY <2>2, <2>3 DEF WorkspaceExclusive
<1> QED BY <1>1, OneDaemonHolds, PTL
=============================================================================
