---------------------------- MODULE ServiceProofs ----------------------------
(***************************************************************************)
(* With one daemon, or several of them one after the other, the queue is   *)
(* an implementation of HarborService, which knows no files, locks or      *)
(* processes, and no workspace or prompt is worked on twice.               *)
(***************************************************************************)
EXTENDS HarborQueueProofs

\* What a submitter can tell of job j when d is the only daemon.
Phase(d, j) ==
    IF WorkerOf(d, j) \in {"exec", "orphan"} THEN "working"
    ELSE IF status[j] = "absent" THEN "absent"
    ELSE IF status[j] \in Terminal \/ <<d, j>> \in ran THEN "over"
    ELSE "waiting"

\* A job anything is known of has been submitted.
PresentInv(d) ==
    \A j \in Jobs : status[j] = "absent" =>
        /\ j \notin queue[d] \cup chosen[d] \cup active[d]
        /\ daemonPc[d] \in {"lease", "unlink_lease", "create_lease"} => current[d] # j
        /\ WorkerOf(d, j) = "none" /\ workerLock[j] = None

\* The record of a job follows its worker, and its prompt starts once.
RunInv(d) ==
    \A j \in Jobs :
        /\ WorkerOf(d, j) = "read" => status[j] = "queued"
        /\ WorkerOf(d, j) \in {"exec", "orphan"} =>
              status[j] = "running" /\ <<d, j>> \in ran
        /\ <<d, j>> \in ran => status[j] \notin {"absent", "queued"}

\* The only daemon's worker is the only one a job can have, so the phase of a
\* job is told by it and by the record.
LEMMA PhaseOfJob ==
    ASSUME NEW d, Daemons = {d}, TreeCovers,
           TypeInv, TypeInv', RunInv(d), RunInv(d)', NEW j \in Jobs
    PROVE  JobPhase[j] = Phase(d, j) /\ JobPhase'[j] = Phase(d, j)'
<1>1. \A w \in Workers : w[2] = j <=> w = <<d, j>>
  BY DEF Workers
<1>2. <<d, j>> \in Workers
  BY DEF Workers
<1>3. /\ (\E w \in Workers : w[2] = j /\ Executing(w)) <=> WorkerOf(d, j) \in {"exec", "orphan"}
      /\ (\E w \in ran : w[2] = j) <=> <<d, j>> \in ran
  BY <1>1, <1>2 DEF Executing, WorkerOf, TypeInv, TypeOK
<1>4. /\ (\E w \in Workers : w[2] = j /\ Executing(w)') <=> WorkerOf(d, j)' \in {"exec", "orphan"}
      /\ (\E w \in ran' : w[2] = j) <=> <<d, j>> \in ran'
  BY <1>1, <1>2 DEF Executing, WorkerOf, TypeInv, TypeOK
<1>5. JobPhase[j] = Phase(d, j)
  <2>1. CASE \E w \in Workers : w[2] = j /\ Executing(w)
    <3>1. status[j] # "absent"
      BY <1>3, <2>1 DEF RunInv
    <3>2. JobPhase[j] = "working"
      BY <2>1, <3>1 DEF JobPhase
    <3> QED BY <1>3, <2>1, <3>2 DEF Phase
  <2>2. CASE ~\E w \in Workers : w[2] = j /\ Executing(w)
    <3>1. JobPhase[j] = IF status[j] = "absent" THEN "absent"
                        ELSE IF status[j] \in Terminal \/ \E w \in ran : w[2] = j
                             THEN "over" ELSE "waiting"
      BY <2>2 DEF JobPhase
    <3> QED BY <1>3, <2>2, <3>1 DEF Phase
  <2> QED BY <2>1, <2>2
<1>6. JobPhase'[j] = Phase(d, j)'
  <2>1. CASE \E w \in Workers : w[2] = j /\ Executing(w)'
    <3>1. status'[j] # "absent"
      BY <1>4, <2>1 DEF RunInv
    <3>2. JobPhase'[j] = "working"
      BY <2>1, <3>1 DEF JobPhase
    <3> QED BY <1>4, <2>1, <3>2 DEF Phase
  <2>2. CASE ~\E w \in Workers : w[2] = j /\ Executing(w)'
    <3>1. JobPhase'[j] = IF status'[j] = "absent" THEN "absent"
                         ELSE IF status'[j] \in Terminal \/ \E w \in ran' : w[2] = j
                              THEN "over" ELSE "waiting"
      BY <2>2 DEF JobPhase
    <3> QED BY <1>4, <2>2, <3>1 DEF Phase
  <2> QED BY <2>1, <2>2
<1> QED BY <1>5, <1>6

\* How the phases change when one job's phase does, ...
LEMMA OneJobMoves ==
    ASSUME NEW d, Daemons = {d}, TreeCovers,
           TypeInv, TypeInv', RunInv(d), RunInv(d)', NEW j \in Jobs,
           \A k \in Jobs \ {j} : Phase(d, k)' = Phase(d, k)
    PROVE  JobPhase' = [JobPhase EXCEPT ![j] = Phase(d, j)']
<1>1. \A k \in Jobs : JobPhase'[k] = IF k = j THEN Phase(d, j)' ELSE JobPhase[k]
  BY PhaseOfJob
<1>2. /\ JobPhase' = [k \in Jobs |-> JobPhase'[k]]
      /\ JobPhase = [k \in Jobs |-> JobPhase[k]]
  BY DEF JobPhase
<1>3. [JobPhase EXCEPT ![j] = Phase(d, j)'] =
      [k \in Jobs |-> IF k = j THEN Phase(d, j)' ELSE JobPhase[k]]
  BY <1>2
<1> QED BY <1>1, <1>2, <1>3

\* ... and which step of the service that is.
LEMMA Drops ==
    ASSUME NEW d, Daemons = {d}, TreeCovers,
           TypeInv, TypeInv', RunInv(d), RunInv(d)', NEW S \in SUBSET Jobs,
           \A k \in Jobs \ S : Phase(d, k)' = Phase(d, k),
           \A j \in S : Phase(d, j) = "waiting" /\ Phase(d, j)' = "over"
    PROVE  Service!Next
<1>1. JobPhase' = [j \in Jobs |-> IF j \in S THEN "over" ELSE JobPhase[j]]
  <2>1. \A k \in Jobs : JobPhase'[k] = IF k \in S THEN "over" ELSE JobPhase[k]
    BY PhaseOfJob
  <2>2. JobPhase' = [k \in Jobs |-> JobPhase'[k]]
    BY DEF JobPhase
  <2> QED BY <2>1, <2>2
<1>2. Service!Drop(S)
  BY <1>1, PhaseOfJob DEF Service!Drop
<1> QED BY <1>2 DEF Service!Next

LEMMA Submits ==
    ASSUME NEW d, Daemons = {d}, TreeCovers,
           TypeInv, TypeInv', RunInv(d), RunInv(d)', NEW j \in Jobs,
           \A k \in Jobs \ {j} : Phase(d, k)' = Phase(d, k),
           Phase(d, j) = "absent", Phase(d, j)' = "waiting"
    PROVE  Service!Next
BY OneJobMoves, PhaseOfJob DEF Service!Next, Service!Submit

LEMMA Begins ==
    ASSUME NEW d, Daemons = {d}, TreeCovers,
           TypeInv, TypeInv', RunInv(d), RunInv(d)', NEW j \in Jobs,
           \A k \in Jobs \ {j} : Phase(d, k)' = Phase(d, k),
           Phase(d, j) = "waiting", Phase(d, j)' = "working",
           \A k \in Jobs : Phase(d, k) = "working" => WorkspaceOf[k] # WorkspaceOf[j]
    PROVE  Service!Next
BY OneJobMoves, PhaseOfJob DEF Service!Next, Service!Begin

LEMMA Ends ==
    ASSUME NEW d, Daemons = {d}, TreeCovers,
           TypeInv, TypeInv', RunInv(d), RunInv(d)', NEW j \in Jobs,
           \A k \in Jobs \ {j} : Phase(d, k)' = Phase(d, k),
           Phase(d, j) = "working", Phase(d, j)' = "over"
    PROVE  Service!Next
BY OneJobMoves, PhaseOfJob DEF Service!Next, Service!End

\* No phase changes: a stuttering step.
LEMMA Stays ==
    ASSUME NEW d, Daemons = {d}, TreeCovers, TypeInv, TypeInv', RunInv(d), RunInv(d)',
           \A k \in Jobs : Phase(d, k)' = Phase(d, k)
    PROVE  UNCHANGED JobPhase
<1>1. \A k \in Jobs : JobPhase'[k] = JobPhase[k]
  BY PhaseOfJob
<1>2. JobPhase' = [k \in Jobs |-> JobPhase'[k]] /\ JobPhase = [k \in Jobs |-> JobPhase[k]]
  BY DEF JobPhase
<1> QED BY <1>1, <1>2

(***************************************************************************)
(* The inductive invariant                                                 *)
(***************************************************************************)
\* Where nobody may cancel, nobody does.
NobodyCancels == \A j \in Jobs : cancel[j] = "none"

\* The steps of the daemon that change a record or a worker.
LEMMA DaemonKinds ==
    ASSUME NEW d, Daemons = {d}, TreeCovers, TypeInv, DaemonStep(d)
    PROVE  \/ UNCHANGED <<status, workerPc>>
           \/ SpawnWorker(d)
           \/ \E j \in Jobs : ReapWorker(d, j)
           \/ \E aged \in SUBSET Jobs : RecoverAbandonedJobs(d, aged)
           \/ \E j \in Jobs \cap (chosen[d] \cup active[d]) : TerminateTree(d, j)
<1>1. CASE IdentityNotWritten(d)
  BY <1>1, OldestIsMember DEF IdentityNotWritten, TypeInv, TypeOK, HandOK
<1> QED
  BY <1>1
  DEF DaemonStep, Tick, StartDaemon, CrashDaemon, StopDaemon, ExitDaemon,
      TerminateWorker, ScanQueue, SkipDisabledHarness,
      FindStaleHarnessLock, UnlinkHarnessLock, AcquireHarnessLock, HarnessLockBusy,
      CountSlots, ReserveJob, FindStaleLease, UnlinkLease,
      AcquireLease, LeaseRefused, ReleaseHarnessLock, RegisterWorker,
      SpawnFails, FinishHarness, files

\* No record goes back to absent.
LEMMA NeverAbsentAgain ==
    ASSUME NEW d, Daemons = {d}, TreeCovers,
           TypeInv, Next, NEW j \in Jobs, status'[j] = "absent"
    PROVE  status[j] = "absent"
<1> USE DEF TypeInv, TypeOK
<1>1. ASSUME DaemonStep(d) PROVE status[j] = "absent"
  <2>1. CASE UNCHANGED status
    BY <2>1
  <2>2. ASSUME NEW k \in Jobs, ReapWorker(d, k) PROVE status[j] = "absent"
    BY <2>2 DEF ReapWorker
  <2>3. ASSUME NEW aged \in SUBSET Jobs, RecoverAbandonedJobs(d, aged)
        PROVE  status[j] = "absent"
    BY <2>3 DEF RecoverAbandonedJobs
  <2>4. ASSUME NEW k \in Jobs, TerminateTree(d, k) PROVE status[j] = "absent"
    BY <2>4 DEF TerminateTree
  <2> QED BY <1>1, <2>1, <2>2, <2>3, <2>4, DaemonKinds DEF SpawnWorker, files
<1>2. ASSUME NEW k \in Jobs, WorkerStep(<<d, k>>) PROVE status[j] = "absent"
  BY <1>2
  DEF WorkerStep, Work, CreateWorkerLock, WriteWorkerPid, ReadStatus, WriteRunning,
      WriteProgress, WriteResult, WrapperError, ReleaseJobLock, CrashWorker, OrphanEnds,
      files
<1>3. ASSUME NEW k \in Jobs, ControlStep(k) PROVE status[j] = "absent"
  BY <1>3 DEF ControlStep, StartTask, CheckCancel, WriteCancelled, files
<1> QED BY <1>1, <1>2, <1>3, OneDaemonNext

\* What PresentInv says of a job nobody has submitted.
NothingOf(d, j) ==
    /\ j \notin queue[d] \cup chosen[d] \cup active[d]
    /\ daemonPc[d] \in {"lease", "unlink_lease", "create_lease"} => current[d] # j
    /\ WorkerOf(d, j) = "none" /\ workerLock[j] = None

\* A pass of the daemon takes up nothing that was not submitted.
LEMMA NothingByTick ==
    ASSUME NEW d, Daemons = {d}, TreeCovers, TypeInv, NEW j \in Jobs, status[j] = "absent",
           NothingOf(d, j), StartDaemon(d) \/ Tick(d)
    PROVE  NothingOf(d, j)'
<1> USE DEF NothingOf, TypeInv, TypeOK, Goto, WorkerOf
<1>1. CASE StartDaemon(d) \/ ScanQueue(d)
  BY <1>1 DEF StartDaemon, ScanQueue, QueuedJobs, Unclaimed, files
<1>2. CASE SkipDisabledHarness(d) \/ HarnessLockBusy(d) \/ FinishHarness(d)
  BY <1>2 DEF SkipDisabledHarness, HarnessLockBusy, FinishHarness, NextHarness, files
<1>3. CASE \/ FindStaleHarnessLock(d) \/ UnlinkHarnessLock(d) \/ AcquireHarnessLock(d)
           \/ CountSlots(d) \/ ReleaseHarnessLock(d)
  BY <1>3
  DEF FindStaleHarnessLock, UnlinkHarnessLock, AcquireHarnessLock, CountSlots,
      ReleaseHarnessLock, files
<1>4. ASSUME NEW aged \in SUBSET Jobs, RecoverAbandonedJobs(d, aged)
      PROVE  NothingOf(d, j)'
  BY <1>4 DEF RecoverAbandonedJobs
<1>5. CASE ReserveJob(d)
  <2>1. Oldest(Candidates(d)) \in queue[d]
    BY <1>5, OldestCandidate DEF ReserveJob, MoreToReserve
  <2> QED BY <1>5, <2>1 DEF ReserveJob
<1>6. CASE FindStaleLease(d) \/ UnlinkLease(d) \/ LeaseRefused(d)
  BY <1>6 DEF FindStaleLease, UnlinkLease, LeaseRefused, files
<1>7. CASE AcquireLease(d)
  BY <1>7 DEF AcquireLease
<1>8. CASE SpawnWorker(d) \/ RegisterWorker(d)
  <2>1. Oldest(chosen[d]) \in chosen[d] \cap Jobs
    BY <1>8, OldestIsMember DEF SpawnWorker, RegisterWorker, HandOK
  <2>2. workerPc'[<<d, j>>] = workerPc[<<d, j>>]
    BY <1>8, <2>1 DEF SpawnWorker, RegisterWorker, Workers
  <2> QED BY <1>8, <2>1, <2>2 DEF SpawnWorker, RegisterWorker, files
<1>9. CASE SpawnFails(d) \/ IdentityNotWritten(d)
  <2>1. Oldest(chosen[d]) \in chosen[d] \cap Jobs
    BY <1>9, OldestIsMember DEF SpawnFails, IdentityNotWritten, HandOK
  <2>2. workerPc'[<<d, j>>] = workerPc[<<d, j>>]
    BY <1>9, <2>1 DEF SpawnFails, IdentityNotWritten, TerminateTree, Workers
  <2>3. workerLock'[j] = None
    BY <1>9, <2>1 DEF SpawnFails, IdentityNotWritten, TerminateTree
  <2> QED BY <1>9, <2>1, <2>2, <2>3 DEF SpawnFails, IdentityNotWritten
<1> QED BY <1>1, <1>2, <1>3, <1>4, <1>5, <1>6, <1>7, <1>8, <1>9 DEF Tick

\* Every step keeps what is known of the jobs nobody has submitted.
LEMMA PresentStep ==
    ASSUME NEW d, Daemons = {d}, TreeCovers, TypeInv, PresentInv(d), Next
    PROVE  PresentInv(d)'
<1> SUFFICES ASSUME NEW j \in Jobs, status'[j] = "absent"
             PROVE  NothingOf(d, j)'
  BY DEF PresentInv, NothingOf
<1>1. status[j] = "absent" /\ NothingOf(d, j)
  BY NeverAbsentAgain DEF PresentInv, NothingOf
<1> USE DEF NothingOf, TypeInv, TypeOK, WorkerOf
<1>2. ASSUME DaemonStep(d) PROVE NothingOf(d, j)'
  <2>1. CASE CrashDaemon(d) \/ StopDaemon(d) \/ ExitDaemon(d)
    BY <1>1, <2>1 DEF CrashDaemon, StopDaemon, ExitDaemon, Forget, Goto, files
  <2>2. ASSUME NEW k \in Jobs, ReapWorker(d, k) PROVE NothingOf(d, j)'
    BY <1>1, <2>2 DEF ReapWorker
  <2>3. ASSUME NEW k \in Jobs, TerminateWorker(d, k) PROVE NothingOf(d, j)'
    <3>1. k # j /\ workerPc' = [workerPc EXCEPT ![<<d, k>>] = "gone"]
      BY <1>1, <2>3 DEF TerminateWorker, TerminateTree
    <3>2. workerPc'[<<d, j>>] = workerPc[<<d, j>>]
      BY <3>1 DEF Workers
    <3>3. workerLock'[j] = workerLock[j]
      BY <2>3, <3>1 DEF TerminateWorker, TerminateTree
    <3> QED BY <1>1, <2>3, <3>2, <3>3 DEF TerminateWorker, daemonVars
  <2> QED BY <1>1, <1>2, <2>1, <2>2, <2>3, NothingByTick DEF DaemonStep
<1>3. ASSUME NEW k \in Jobs, WorkerStep(<<d, k>>), UNCHANGED daemonVars
      PROVE  NothingOf(d, j)'
  <2>1. workerPc[<<d, k>>] # "none"
    BY <1>3
    DEF WorkerStep, Work, CreateWorkerLock, WriteWorkerPid, ReadStatus, WriteRunning,
        WriteProgress, WriteResult, WrapperError, ReleaseJobLock, CrashWorker, OrphanEnds,
        WorkerAlive
  <2>2. k # j
    BY <1>1, <2>1
  <2>3. \/ UNCHANGED workerPc
        \/ \E label : WorkerGoto(<<d, k>>, label)
    BY <1>3
    DEF WorkerStep, Work, CreateWorkerLock, WriteWorkerPid, ReadStatus, WriteRunning,
        WriteProgress, WriteResult, WrapperError, ReleaseJobLock, CrashWorker, OrphanEnds
  <2>4. workerPc'[<<d, j>>] = workerPc[<<d, j>>]
    BY <2>2, <2>3 DEF WorkerGoto, Workers
  <2>5. workerLock'[j] = workerLock[j]
    BY <1>3, <2>2
    DEF WorkerStep, Work, CreateWorkerLock, WriteWorkerPid, ReadStatus, WriteRunning,
        WriteProgress, WriteResult, WrapperError, ReleaseJobLock, CrashWorker, OrphanEnds,
        files
  <2> QED BY <1>1, <1>3, <2>4, <2>5 DEF daemonVars
<1>4. ASSUME NEW k \in Jobs, ControlStep(k), UNCHANGED daemonVars
      PROVE  NothingOf(d, j)'
  BY <1>1, <1>4 DEF ControlStep, StartTask, CheckCancel, WriteCancelled, daemonVars, files
<1> QED BY <1>2, <1>3, <1>4, OneDaemonNext

\* The steps there are, and whose history they leave alone.
LEMMA ServiceNext ==
    ASSUME NEW d, Daemons = {d}, TreeCovers, Next
    PROVE  \/ DaemonStep(d) /\ UNCHANGED <<ran, cancel>>
           \/ \E k \in Jobs : WorkerStep(<<d, k>>) /\ UNCHANGED <<daemonVars, cancel>>
           \/ \E k \in Jobs : ControlStep(k) /\ UNCHANGED <<daemonVars, ran>>
<1>1. ASSUME NEW w \in Workers, WorkerStep(w), UNCHANGED <<daemonVars, cancel>>
      PROVE  \E k \in Jobs : WorkerStep(<<d, k>>) /\ UNCHANGED <<daemonVars, cancel>>
  <2>1. w[2] \in Jobs /\ w = <<d, w[2]>>
    BY DEF Workers
  <2> QED BY <1>1, <2>1
<1> QED BY <1>1 DEF Next

\* A step that leaves alone what the phase of job j depends on.
Same(d, j) ==
    /\ status'[j] = status[j] /\ workerPc'[<<d, j>>] = workerPc[<<d, j>>]
    /\ <<d, j>> \in ran' <=> <<d, j>> \in ran

\* The worker of job k moves on to label.
Moves(d, k, label) ==
    /\ WorkerOf(d, k)' = label
    /\ \A j \in Jobs \ {k} : Same(d, j)

\* A worker's step changes its own job's record and place only.
LEMMA WorkerMoves ==
    ASSUME NEW d, Daemons = {d}, TreeCovers, TypeInv, NEW k \in Jobs, WorkerStep(<<d, k>>)
    PROVE  \/ /\ WorkerOf(d, k) \in {"boot", "locked"}
              /\ \E label \in {"locked", "claimed", "lost"} : Moves(d, k, label)
              /\ UNCHANGED <<status, ran>>
           \/ /\ WorkerOf(d, k) = "claimed"
              /\ \/ Moves(d, k, "read") /\ status[k] = "queued"
                 \/ Moves(d, k, "lost")
              /\ UNCHANGED <<status, ran>>
           \/ /\ WorkerOf(d, k) = "read" /\ Moves(d, k, "exec")
              /\ status'[k] = "running" /\ ran' = ran \cup {<<d, k>>}
           \/ /\ WorkerOf(d, k) = "exec" /\ Moves(d, k, "exec")
              /\ status'[k] = "running" /\ UNCHANGED ran
           \/ /\ WorkerOf(d, k) = "exec" /\ Moves(d, k, "final")
              /\ status'[k] \in {"completed", "failed"} /\ UNCHANGED ran
           \/ /\ WorkerOf(d, k) \in {"claimed", "read"} /\ Moves(d, k, "final")
              /\ status'[k] = "failed" /\ UNCHANGED ran
           \/ /\ WorkerOf(d, k) = "exec" /\ Moves(d, k, "orphan")
              /\ UNCHANGED <<status, ran>>
           \/ /\ WorkerOf(d, k) # "none" /\ Moves(d, k, "gone")
              /\ UNCHANGED <<status, ran>>
<1>1. <<d, k>> \in Workers /\ \A j \in Jobs \ {k} : <<d, j>> \in Workers /\ <<d, j>> # <<d, k>>
  BY DEF Workers
<1> USE <1>1 DEF TypeInv, TypeOK, WorkerOf, WorkerGoto, Moves, Same
<1>2. CASE CreateWorkerLock(<<d, k>>) \/ WriteWorkerPid(<<d, k>>)
  BY <1>2 DEF CreateWorkerLock, WriteWorkerPid
<1>3. CASE ReadStatus(<<d, k>>)
  BY <1>3 DEF ReadStatus, files
<1>4. CASE WriteRunning(<<d, k>>)
  BY <1>4 DEF WriteRunning
<1>5. CASE WriteProgress(<<d, k>>)
  BY <1>5 DEF WriteProgress
<1>6. CASE WriteResult(<<d, k>>) \/ WrapperError(<<d, k>>)
  BY <1>6 DEF WriteResult, WrapperError
<1>7. CASE ReleaseJobLock(<<d, k>>) \/ OrphanEnds(<<d, k>>)
  BY <1>7 DEF ReleaseJobLock, OrphanEnds, files
<1>8. CASE CrashWorker(<<d, k>>)
  BY <1>8 DEF CrashWorker, WorkerAlive, files
<1> QED BY <1>2, <1>3, <1>4, <1>5, <1>6, <1>7, <1>8 DEF WorkerStep, Work

\* A child that is terminated, and what its handler may write.
LEMMA TreeMoves ==
    ASSUME NEW d, Daemons = {d}, TreeCovers,
           TypeInv, NEW k \in Jobs, TerminateTree(d, k), UNCHANGED ran
    PROVE  /\ Moves(d, k, "gone")
           /\ status'[k] \in {status[k], "failed"}
<1>1. <<d, k>> \in Workers /\ \A j \in Jobs \ {k} : <<d, j>> \in Workers /\ <<d, j>> # <<d, k>>
  BY DEF Workers
<1>2. workerPc' = [workerPc EXCEPT ![<<d, k>>] = "gone"]
  BY DEF TerminateTree
<1>3. status' \in {status, [status EXCEPT ![k] = "failed"]}
  BY DEF TerminateTree
<1>4. \A j \in Jobs \ {k} : status'[j] = status[j]
  BY <1>3 DEF TypeInv, TypeOK
<1>5. status'[k] \in {status[k], "failed"}
  BY <1>3 DEF TypeInv, TypeOK
<1> QED BY <1>1, <1>2, <1>4, <1>5 DEF Moves, Same, WorkerOf, TypeInv, TypeOK

\* The start of a worker, the reaping of one and the recovery of jobs.
LEMMA SpawnMoves ==
    ASSUME NEW d, Daemons = {d}, TreeCovers,
           TypeInv, ChosenInv(d), SpawnWorker(d), UNCHANGED ran
    PROVE  \E k \in Jobs : Moves(d, k, "boot") /\ ~TreeAlive(<<d, k>>) /\ UNCHANGED status
<1>1. PICK k \in chosen[d] \cap Jobs : workerPc' = [workerPc EXCEPT ![<<d, k>>] = "boot"]
  BY OldestIsMember DEF SpawnWorker, TypeInv, TypeOK
<1>2. <<d, k>> \in Workers /\ \A j \in Jobs \ {k} : <<d, j>> \in Workers /\ <<d, j>> # <<d, k>>
  BY DEF Workers
<1>3. ~TreeAlive(<<d, k>>) /\ UNCHANGED status
  BY <1>1 DEF ChosenInv, SpawnWorker, files
<1>4. Moves(d, k, "boot")
  BY <1>1, <1>2, <1>3 DEF Moves, Same, WorkerOf, TypeInv, TypeOK
<1> QED BY <1>1, <1>3, <1>4

LEMMA ReapMoves ==
    ASSUME NEW d, Daemons = {d}, TreeCovers,
           TypeInv, NEW k \in Jobs, ReapWorker(d, k), UNCHANGED ran
    PROVE  /\ ~TreeAlive(<<d, k>>) /\ k \in active[d]
           /\ status'[k] \in Terminal /\ UNCHANGED workerPc
           /\ \A j \in Jobs \ {k} : Same(d, j)
BY DEF ReapWorker, Same, Terminal, TypeInv, TypeOK

LEMMA RecoverMoves ==
    ASSUME NEW d, Daemons = {d}, TreeCovers, TypeInv, OwnFiles(d), PresentInv(d),
           NEW aged \in SUBSET Jobs, RecoverAbandonedJobs(d, aged), UNCHANGED ran
    PROVE  \E dead \in SUBSET Jobs :
              /\ \A j \in dead : /\ WorkerOf(d, j) \in {"none", "gone"}
                                 /\ status[j] # "absent" /\ status'[j] \in Terminal
              /\ \A j \in Jobs \ dead : Same(d, j)
              /\ UNCHANGED workerPc
<1> DEFINE dead == Abandoned(HarnessAt(d)) \cap aged
<1>1. dead \in SUBSET Jobs
  OBVIOUS
<1>2. /\ status' = [j \in Jobs |-> IF j \in dead /\ status[j] \notin Terminal
                                   THEN "failed" ELSE status[j]]
      /\ UNCHANGED workerPc
  BY DEF RecoverAbandonedJobs
<1>3. ASSUME NEW j \in dead
      PROVE  WorkerOf(d, j) \in {"none", "gone"} /\ status[j] # "absent"
  <2>1. WorkerOf(d, j) \in {"none", "gone"}
    BY AbandonedIsOver
  <2>2. status[j] \in {"queued", "running"} \/ workerLock[j] # None
    BY DEF Abandoned
  <2> QED BY <1>1, <2>1, <2>2 DEF PresentInv
<1> HIDE DEF dead
<1>4. \A j \in dead : status'[j] \in Terminal
  BY <1>1, <1>2 DEF Terminal
<1>5. \A j \in Jobs \ dead : Same(d, j)
  BY <1>2 DEF Same
<1> QED BY <1>1, <1>2, <1>3, <1>4, <1>5

\* What RunInv says of one job.
RunOf(d, j) ==
    /\ WorkerOf(d, j) = "read" => status[j] = "queued"
    /\ WorkerOf(d, j) \in {"exec", "orphan"} => status[j] = "running" /\ <<d, j>> \in ran
    /\ <<d, j>> \in ran => status[j] \notin {"absent", "queued"}

LEMMA SubmitMoves ==
    ASSUME NEW d, Daemons = {d}, TreeCovers, TypeInv, PresentInv(d), NobodyCancels,
           NEW k \in Jobs, ControlStep(k), UNCHANGED ran
    PROVE  \/ /\ status[k] = "absent" /\ status'[k] = "queued" /\ WorkerOf(d, k) = "none"
              /\ UNCHANGED workerPc
              /\ \A j \in Jobs \ {k} : Same(d, j)
           \/ UNCHANGED <<status, workerPc>>
<1>1. ~WriteCancelled(k)
  BY DEF NobodyCancels, WriteCancelled
<1> QED BY <1>1 DEF ControlStep, StartTask, CheckCancel, files, PresentInv, Same, TypeInv, TypeOK

\* Every step keeps the record in step with the worker.
LEMMA RunStep ==
    ASSUME NEW d, Daemons = {d}, TreeCovers, TypeInv, OneDaemonInv(d), PresentInv(d), RunInv(d),
           NobodyCancels, Next
    PROVE  RunInv(d)'
<1> SUFFICES ASSUME NEW j \in Jobs PROVE RunOf(d, j)'
  BY DEF RunInv, RunOf
<1>1. RunOf(d, j)
  BY DEF RunInv, RunOf
<1>2. Same(d, j) => RunOf(d, j)'
  BY <1>1 DEF Same, RunOf, WorkerOf
<1>3. ASSUME DaemonStep(d), UNCHANGED ran PROVE RunOf(d, j)'
  <2>1. CASE UNCHANGED <<status, workerPc>>
    BY <1>2, <1>3, <2>1 DEF Same
  <2>2. CASE SpawnWorker(d)
    <3>1. PICK k \in Jobs : Moves(d, k, "boot") /\ UNCHANGED status
      BY <1>3, <2>2, SpawnMoves DEF OneDaemonInv
    <3> QED BY <1>1, <1>2, <1>3, <3>1 DEF Moves, RunOf
  <2>3. ASSUME NEW k \in Jobs, ReapWorker(d, k) PROVE RunOf(d, j)'
    <3>1. /\ ~TreeAlive(<<d, k>>) /\ UNCHANGED workerPc
          /\ status'[k] \in Terminal /\ (j # k => Same(d, j))
      BY <1>3, <2>3, ReapMoves
    <3> QED BY <1>2, <3>1 DEF RunOf, WorkerOf, TreeAlive, WorkerAlive, Terminal
  <2>4. ASSUME NEW aged \in SUBSET Jobs, RecoverAbandonedJobs(d, aged) PROVE RunOf(d, j)'
    <3>1. PICK dead \in SUBSET Jobs :
              /\ \A i \in dead : WorkerOf(d, i) \in {"none", "gone"} /\ status'[i] \in Terminal
              /\ \A i \in Jobs \ dead : Same(d, i)
              /\ UNCHANGED workerPc
      BY <1>3, <2>4, RecoverMoves DEF OneDaemonInv
    <3> QED BY <1>2, <3>1 DEF RunOf, WorkerOf, Terminal
  <2>5. ASSUME NEW k \in Jobs, TerminateTree(d, k) PROVE RunOf(d, j)'
    <3>1. Moves(d, k, "gone") /\ status'[k] \in {status[k], "failed"}
      BY <1>3, <2>5, TreeMoves
    <3> QED BY <1>1, <1>2, <1>3, <3>1 DEF Moves, RunOf
  <2> QED BY <1>3, <2>1, <2>2, <2>3, <2>4, <2>5, DaemonKinds
<1>4. ASSUME NEW k \in Jobs, WorkerStep(<<d, k>>) PROVE RunOf(d, j)'
  <2>1. CASE j # k
    BY <1>2, <1>4, <2>1, WorkerMoves DEF Moves
  <2>2. CASE j = k
    BY <1>1, <1>4, <2>2, WorkerMoves DEF Moves, RunOf
  <2> QED BY <2>1, <2>2
<1>5. ASSUME NEW k \in Jobs, ControlStep(k), UNCHANGED ran PROVE RunOf(d, j)'
  BY <1>1, <1>2, <1>5, SubmitMoves DEF RunOf, Same, WorkerOf
<1> QED BY <1>3, <1>4, <1>5, ServiceNext

(***************************************************************************)
(* Every step is a step of the service, or none at all                     *)
(***************************************************************************)
\* What leaves a job's record and worker alone leaves its phase.
LEMMA SamePhase ==
    ASSUME NEW d, NEW j, Same(d, j)
    PROVE  Phase(d, j)' = Phase(d, j)
BY DEF Same, Phase, WorkerOf

\* The phases of a job that has been submitted and has no prompt at work, and
\* what becomes of them when its record is closed.
LEMMA ClosedPhase ==
    ASSUME NEW d, NEW j \in Jobs, TypeInv, status[j] # "absent",
           WorkerOf(d, j) \notin {"exec", "orphan"}, WorkerOf(d, j)' \notin {"exec", "orphan"},
           status'[j] \in Terminal
    PROVE  Phase(d, j) \in {"waiting", "over"} /\ Phase(d, j)' = "over"
BY DEF Phase, Terminal

\* The steps of the daemon: it drops jobs or ends them.
LEMMA ServiceByDaemon ==
    ASSUME NEW d, Daemons = {d}, TreeCovers, TypeInv, TypeInv', OneDaemonInv(d), PresentInv(d),
           RunInv(d), RunInv(d)', DaemonStep(d), UNCHANGED ran
    PROVE  Service!Next \/ UNCHANGED JobPhase
<1>1. CASE UNCHANGED <<status, workerPc>>
  BY <1>1, SamePhase, Stays DEF Same
<1>2. CASE SpawnWorker(d)
  <2>1. PICK k \in Jobs : Moves(d, k, "boot") /\ ~TreeAlive(<<d, k>>) /\ UNCHANGED status
    BY <1>2, SpawnMoves DEF OneDaemonInv
  <2>2. Phase(d, k)' = Phase(d, k)
    BY <2>1 DEF Moves, Phase, WorkerOf, TreeAlive, WorkerAlive
  <2> QED BY <2>1, <2>2, SamePhase, Stays DEF Moves
<1>3. ASSUME NEW k \in Jobs, ReapWorker(d, k) PROVE Service!Next \/ UNCHANGED JobPhase
  <2>1. /\ ~TreeAlive(<<d, k>>) /\ k \in active[d]
        /\ status'[k] \in Terminal /\ UNCHANGED workerPc
        /\ \A j \in Jobs \ {k} : Same(d, j)
    BY <1>3, ReapMoves
  <2>2. Phase(d, k) \in {"waiting", "over"} /\ Phase(d, k)' = "over"
    BY <2>1, ClosedPhase DEF PresentInv, WorkerOf, TreeAlive, WorkerAlive
  <2>3. CASE Phase(d, k) = "waiting"
    <3> DEFINE S == {k}
    <3>1. S \in SUBSET Jobs
      OBVIOUS
    <3>2. \A j \in Jobs \ S : Phase(d, j)' = Phase(d, j)
      BY <2>1, SamePhase
    <3>3. \A j \in S : Phase(d, j) = "waiting" /\ Phase(d, j)' = "over"
      BY <2>2, <2>3
    <3> HIDE DEF S
    <3> QED BY <3>1, <3>2, <3>3, Drops
  <2>4. CASE Phase(d, k) = "over"
    BY <2>1, <2>2, <2>4, SamePhase, Stays
  <2> QED BY <2>2, <2>3, <2>4
<1>4. ASSUME NEW aged \in SUBSET Jobs, RecoverAbandonedJobs(d, aged)
      PROVE  Service!Next
  <2>1. PICK dead \in SUBSET Jobs :
            /\ \A j \in dead : /\ WorkerOf(d, j) \in {"none", "gone"}
                               /\ status[j] # "absent" /\ status'[j] \in Terminal
            /\ \A j \in Jobs \ dead : Same(d, j)
            /\ UNCHANGED workerPc
    BY <1>4, RecoverMoves DEF OneDaemonInv
  <2> DEFINE S == {j \in dead : Phase(d, j) = "waiting"}
  <2>2. ASSUME NEW j \in dead
        PROVE  Phase(d, j) \in {"waiting", "over"} /\ Phase(d, j)' = "over"
    BY <2>1, ClosedPhase DEF WorkerOf
  <2>3. S \in SUBSET Jobs /\ \A j \in Jobs \ S : Phase(d, j)' = Phase(d, j)
    BY <2>1, <2>2, SamePhase
  <2>4. \A j \in S : Phase(d, j) = "waiting" /\ Phase(d, j)' = "over"
    BY <2>2
  <2> HIDE DEF S
  <2> QED BY <2>3, <2>4, Drops
<1>5. ASSUME NEW k \in Jobs \cap (chosen[d] \cup active[d]), TerminateTree(d, k)
      PROVE  Service!Next \/ UNCHANGED JobPhase
  <2>1. Moves(d, k, "gone") /\ status'[k] \in {status[k], "failed"} /\ status[k] # "absent"
    BY <1>5, TreeMoves DEF PresentInv
  <2>2. \A j \in Jobs \ {k} : Phase(d, j)' = Phase(d, j)
    BY <2>1, SamePhase DEF Moves
  <2>3. CASE Phase(d, k) = "working"
    <3>1. WorkerOf(d, k) \in {"exec", "orphan"}
      BY <2>3 DEF Phase
    <3>2. <<d, k>> \in ran
      BY <3>1 DEF RunInv
    <3>3. Phase(d, k)' = "over"
      BY <2>1, <3>2 DEF Moves, Phase
    <3> QED BY <2>2, <2>3, <3>3, Ends
  <2>4. CASE Phase(d, k) # "working" /\ status'[k] = "failed"
    <3>1. Phase(d, k) \in {"waiting", "over"} /\ Phase(d, k)' = "over"
      BY <2>1, <2>4, ClosedPhase DEF Moves, Phase, Terminal
    <3>2. CASE Phase(d, k) = "waiting"
      <4> DEFINE S == {k}
      <4>1. S \in SUBSET Jobs
        OBVIOUS
      <4> QED BY <2>2, <3>1, <3>2, <4>1, Drops
    <3> QED BY <2>2, <3>1, <3>2, Stays
  <2>5. CASE Phase(d, k) # "working" /\ status'[k] = status[k]
    <3>1. Phase(d, k)' = Phase(d, k)
      BY <2>1, <2>5 DEF Moves, Phase
    <3> QED BY <2>2, <3>1, Stays
  <2> QED BY <2>1, <2>3, <2>4, <2>5
<1> QED BY <1>1, <1>2, <1>3, <1>4, <1>5, DaemonKinds

\* The steps of a worker: it begins its job or ends it; the lease it was
\* started under keeps the others out of its workspace.
LEMMA ServiceByWorker ==
    ASSUME NEW d, Daemons = {d}, TreeCovers, TypeInv, TypeInv', LeaseInv(d), PresentInv(d),
           RunInv(d), RunInv(d)', NEW k \in Jobs, WorkerStep(<<d, k>>)
    PROVE  Service!Next \/ UNCHANGED JobPhase
<1>1. \A j \in Jobs \ {k} : Phase(d, j)' = Phase(d, j)
  BY WorkerMoves, SamePhase DEF Moves
<1>2. WorkerOf(d, k) # "none"
  BY WorkerMoves
<1>3. status[k] # "absent"
  BY <1>2 DEF PresentInv
<1>4. CASE Phase(d, k)' = Phase(d, k)
  BY <1>1, <1>4, Stays
<1>5. CASE WorkerOf(d, k) = "read" /\ WorkerOf(d, k)' = "exec"
  <2>1. Phase(d, k) = "waiting" /\ Phase(d, k)' = "working"
    BY <1>5 DEF Phase, RunInv, Terminal
  <2>2. ASSUME NEW j \in Jobs, Phase(d, j) = "working"
        PROVE  WorkspaceOf[j] # WorkspaceOf[k]
    <3>1. WorkerOf(d, j) \in {"exec", "orphan"}
      BY <2>2 DEF Phase
    <3>2. HasLease(j) /\ HasLease(k) /\ j # k
      BY <1>5, <3>1 DEF LeaseInv
    <3> QED BY <3>2 DEF HasLease
  <2> QED BY <1>1, <2>1, <2>2, Begins
<1>6. CASE WorkerOf(d, k) \in {"exec", "orphan"} /\ WorkerOf(d, k)' \notin {"exec", "orphan"}
  <2>1. <<d, k>> \in ran /\ <<d, k>> \in ran'
    BY <1>6, WorkerMoves DEF RunInv
  <2>2. Phase(d, k) = "working" /\ Phase(d, k)' = "over"
    BY <1>6, <2>1 DEF Phase, RunInv
  <2> QED BY <1>1, <2>2, Ends
<1>7. CASE WorkerOf(d, k) \in {"claimed", "read"} /\ status'[k] = "failed"
           /\ WorkerOf(d, k)' = "final"
  <2>1. Phase(d, k) \in {"waiting", "over"} /\ Phase(d, k)' = "over"
    BY <1>3, <1>7, ClosedPhase DEF Terminal
  <2>2. CASE Phase(d, k) = "waiting"
    <3> DEFINE S == {k}
    <3>1. S \in SUBSET Jobs
      OBVIOUS
    <3> QED BY <1>1, <2>1, <2>2, <3>1, Drops
  <2> QED BY <1>4, <2>1, <2>2
<1>8. CASE WorkerOf(d, k) \in {"exec", "orphan"} /\ WorkerOf(d, k)' \in {"exec", "orphan"}
  BY <1>4, <1>8 DEF Phase
<1>9. CASE /\ WorkerOf(d, k) \notin {"exec", "orphan"}
           /\ WorkerOf(d, k)' \notin {"exec", "orphan"}
           /\ UNCHANGED <<status, ran>>
  BY <1>4, <1>9 DEF Phase
<1> QED BY <1>5, <1>6, <1>7, <1>8, <1>9, WorkerMoves DEF Moves

LEMMA ServiceStep ==
    ASSUME NEW d, Daemons = {d}, TreeCovers, TypeInv, TypeInv', OneDaemonInv(d), PresentInv(d),
           RunInv(d), RunInv(d)', NobodyCancels, Next
    PROVE  Service!Next \/ UNCHANGED JobPhase
<1>1. ASSUME NEW k \in Jobs, ControlStep(k), UNCHANGED ran
      PROVE  Service!Next \/ UNCHANGED JobPhase
  <2>1. CASE UNCHANGED <<status, workerPc>>
    BY <1>1, <2>1, SamePhase, Stays DEF Same
  <2>2. CASE /\ status[k] = "absent" /\ status'[k] = "queued" /\ WorkerOf(d, k) = "none"
             /\ UNCHANGED workerPc
             /\ \A j \in Jobs \ {k} : Same(d, j)
    <3>1. <<d, k>> \notin ran'
      BY <1>1, <2>2 DEF RunInv
    <3>2. Phase(d, k) = "absent" /\ Phase(d, k)' = "waiting"
      BY <2>2, <3>1 DEF Phase, WorkerOf, Terminal
    <3> QED BY <2>2, <3>2, SamePhase, Submits
  <2> QED BY <1>1, <2>1, <2>2, SubmitMoves
<1> QED BY <1>1, ServiceNext, ServiceByDaemon, ServiceByWorker DEF OneDaemonInv

\* What is inductive together with OneDaemonInv.
ServiceInv(d) == PresentInv(d) /\ RunInv(d) /\ NobodyCancels

LEMMA ServiceInvHolds ==
    ASSUME NEW d, Daemons = {d}, TreeCovers, Cancellable = {}
    PROVE  Spec => [](TypeInv /\ OneDaemonInv(d) /\ ServiceInv(d))
<1>1. Init => ServiceInv(d)
  BY DEF Init, InitQueueState, InitDaemon, InitWorker, InitControl, ServiceInv, PresentInv,
         RunInv, NobodyCancels, WorkerOf, Workers
<1>2. TypeInv /\ OneDaemonInv(d) /\ ServiceInv(d) /\ [Next]_vars => ServiceInv(d)'
  <2> SUFFICES ASSUME TypeInv, OneDaemonInv(d), ServiceInv(d), [Next]_vars
               PROVE  ServiceInv(d)'
    OBVIOUS
  <2>1. CASE UNCHANGED vars
    BY <2>1 DEF vars, files, daemonVars, ServiceInv, PresentInv, RunInv, NobodyCancels,
                WorkerOf
  <2>2. CASE Next
    <3>1. PresentInv(d)' /\ RunInv(d)'
      BY <2>2, PresentStep, RunStep DEF ServiceInv
    <3>2. NobodyCancels'
      BY <2>2, ServiceNext
      DEF ServiceInv, NobodyCancels, ControlStep, StartTask, CheckCancel, WriteCancelled
    <3> QED BY <3>1, <3>2 DEF ServiceInv
  <2> QED BY <2>1, <2>2
<1> QED BY <1>1, <1>2, OneDaemonHolds, PTL DEF Spec

\* With one daemon process, for any jobs, harnesses, workspaces and faults, and
\* where nobody cancels and no harness outlives its worker unseen, the queue
\* implements HarborService: a prompt starts once, in a workspace where no other
\* is at work, and what is over stays over.
THEOREM OneDaemonService ==
    ASSUME NEW d, Daemons = {d}, TreeCovers, Cancellable = {}
    PROVE  Spec => ImplementsService
<1> DEFINE IInv == TypeInv /\ OneDaemonInv(d) /\ ServiceInv(d)
<1>1. Init => Service!Init
  BY DEF Init, InitQueueState, Service!Init, JobPhase, Executing
<1>2. IInv /\ IInv' /\ [Next]_vars => [Service!Next]_JobPhase
  <2> SUFFICES ASSUME IInv, IInv', [Next]_vars
               PROVE  Service!Next \/ UNCHANGED JobPhase
    OBVIOUS
  <2>1. CASE UNCHANGED vars
    BY <2>1 DEF vars, files, JobPhase, Executing
  <2>2. CASE Next
    BY <2>2, ServiceStep DEF ServiceInv
  <2> QED BY <2>1, <2>2
<1>3. Spec => []IInv
  BY ServiceInvHolds
<1> QED
  <2> HIDE DEF IInv
  <2> QED BY <1>1, <1>2, <1>3, PTL DEF Spec, ImplementsService, Service!Spec

\* In the same setting a job at work is recorded as running, after the end of
\* its daemon too: nobody is left that could fail it.
THEOREM OneDaemonRecords ==
    ASSUME NEW d, Daemons = {d}, TreeCovers, Cancellable = {}
    PROVE  Spec => []RunningWhileExecuting
<1>1. ServiceInv(d) => RunningWhileExecuting
  BY DEF ServiceInv, RunInv, RunningWhileExecuting, Executing, WorkerOf, Workers
<1> QED BY <1>1, ServiceInvHolds, PTL

(***************************************************************************)
(* Daemons one after the other: a daemon that was killed, or stopped with  *)
(* its workers still running, and the ones started after it, each of which *)
(* judges by worker.lock, the worker identities and the leases on disk     *)
(* what those before it have left behind.                                  *)
(***************************************************************************)


\* A worker that may still hand its prompt over, or has, or still holds
\* worker.lock off: what a later worker of the same job would run into.
Engaged(w) ==
    \/ workerPc[w] \in {"read", "exec", "orphan"}
    \/ /\ status[w[2]] = "queued"
       /\ workerPc[w] \in {"boot", "locked", "claimed", "lost"}

\* It will find, or has found, worker.lock created by somebody else.
Barred(w) ==
    \/ workerPc[w] = "lost"
    \/ workerPc[w] = "boot" /\ workerLock[w[2]] # None

AtLease(d) == daemonPc[d] \in {"lease", "unlink_lease", "create_lease"}

\* Daemon d may yet start a worker for job j.
Considers(d, j) == j \in queue[d] \cup chosen[d] \/ (AtLease(d) /\ current[d] = j)

\* Worker w is the child daemon d is about to register.
IsNewChild(d, w) == daemonPc[d] = "identify" /\ w = <<d, Oldest(chosen[d])>>

\* One daemon at a time.
AloneInv == \A d, e \in Daemons : DaemonAlive(d) /\ DaemonAlive(e) => d = e

\* What a daemon remembers it has from its own tick.
MemoryInv ==
    \A d \in Daemons :
        /\ ~DaemonAlive(d) => active[d] = {} /\ queue[d] = {}
        /\ daemonPc[d] \in {"idle", "stopping"} => queue[d] = {}
        /\ daemonPc[d] \notin {"reserve", "lease", "unlink_lease", "create_lease",
                               "spawn", "identify"} => chosen[d] = {}
        /\ queue[d] \cap chosen[d] = {}
        /\ AtLease(d) => /\ current[d] \notin queue[d] \cup chosen[d]
                         /\ \A k \in chosen[d] : WorkspaceOf[k] # WorkspaceOf[current[d]]

\* Nothing is known of a job nobody has submitted.
SubmittedInv ==
    \A j \in Jobs :
        /\ status[j] = "absent" =>
              /\ \A d \in Daemons : workerPc[<<d, j>>] = "none" /\ ~Considers(d, j)
        /\ status[j] \in {"absent", "queued"} => recordedPid[j] = None

\* An engaged worker is the only one its job has left.
SoleInv ==
    \A v, w \in Workers :
        Engaged(v) /\ v # w /\ v[2] = w[2] => workerPc[w] \in {"none", "gone"}

\* A job whose prompt was handed over never waits again.
BegunInv ==
    \A w \in Workers :
        /\ workerPc[w] \in {"exec", "orphan", "final"} => status[w[2]] # "queued"
        /\ w \in ran => status[w[2]] \notin {"absent", "queued"}

\* worker.lock is the engaged worker's from its creation on, and never removed
\* from under one that was too late to create it.
LockFileInv ==
    \A w \in Workers : Engaged(w) =>
        /\ workerPc[w] \in {"locked", "claimed", "read", "exec", "orphan"} =>
              workerLock[w[2]] = w
        /\ workerPc[w] \in {"claimed", "read", "exec", "orphan"} => pidWritten[w[2]]
        /\ workerPc[w] = "locked" => ~pidWritten[w[2]]
        /\ workerPc[w] = "lost" => workerLock[w[2]] # None

\* It has the lease, unless it is barred from the job.
EngagedLeaseInv == \A w \in Workers : Engaged(w) /\ ~Barred(w) => HasLease(w[2])

\* While there is one that is barred nobody starts another.
BarredInv ==
    \A w \in Workers, d \in Daemons :
        Engaged(w) /\ Barred(w) /\ Considers(d, w[2]) => IsNewChild(d, w)

\* A job reserved has the lease and no engaged worker before it is spawned.
ReservedInv ==
    \A d \in Daemons : \A j \in chosen[d] :
        /\ HasLease(j)
        /\ \A w \in Workers : w[2] = j /\ Engaged(w) => IsNewChild(d, w)

\* A daemon ends and reaps no engaged worker of another daemon with its own.
ChildInv ==
    \A d \in Daemons : \A w \in Workers :
        w[2] \in active[d] /\ Engaged(w) => w[1] = d

\* Nobody needs the lease about to be unlinked.
NotNeededInv ==
    \A d \in Daemons : daemonPc[d] = "unlink_lease" =>
        \A w \in Workers :
            Engaged(w) /\ ~Barred(w) => WorkspaceOf[w[2]] # WorkspaceOf[current[d]]

\* Whoever has read a job as queued is the first to hand it over.
FirstInv == \A v \in ran, w \in Workers : workerPc[w] = "read" => v[2] # w[2]

SuccessionInv ==
    /\ AloneInv /\ MemoryInv /\ SubmittedInv /\ SoleInv /\ BegunInv /\ LockFileInv
    /\ EngagedLeaseInv /\ BarredInv /\ ReservedInv /\ ChildInv /\ NotNeededInv
    /\ FirstInv /\ RunsAtMostOnce

\* When a daemon recovers jobs or judges a lease, the identity file of a job
\* does not hide a worker that the files could not show otherwise: one that
\* left its harness behind, or is at work on a job that is over.
WorkersSeen ==
    (\E d \in Daemons : daemonPc[d] \in {"recover", "lease"}) =>
        \A w \in Workers :
            \/ workerPc[w] = "orphan"
            \/ workerPc[w] \in {"read", "exec"} /\ status[w[2]] \in Terminal
            => identity[w[2]] \in {None, w}

\* The steps there are.
LEMMA WorkerSteps ==
    ASSUME TypeInv, NEW w \in Workers, WorkerStep(w)
    PROVE  /\ \A v \in Workers \ {w} : workerPc'[v] = workerPc[v]
           /\ \A k \in Jobs \ {w[2]} :
                 /\ status'[k] = status[k] /\ recordedPid'[k] = recordedPid[k]
                 /\ workerLock'[k] = workerLock[k] /\ pidWritten'[k] = pidWritten[k]
           /\ UNCHANGED <<dispatchLock, identity, lease, harnessLock>>
<1>1. w[2] \in Jobs
  BY DEF Workers
<1>2. ASSUME WriteWorkerPid(w)
      PROVE  \E b \in BOOLEAN : pidWritten' = [pidWritten EXCEPT ![w[2]] = b]
  BY <1>2 DEF WriteWorkerPid
<1>3. /\ UNCHANGED <<dispatchLock, identity, lease, harnessLock>>
      /\ UNCHANGED workerPc \/ \E label : workerPc' = [workerPc EXCEPT ![w] = label]
      /\ UNCHANGED status \/ \E s : status' = [status EXCEPT ![w[2]] = s]
      /\ UNCHANGED recordedPid \/ \E p : recordedPid' = [recordedPid EXCEPT ![w[2]] = p]
      /\ UNCHANGED workerLock \/ \E p : workerLock' = [workerLock EXCEPT ![w[2]] = p]
      /\ UNCHANGED pidWritten \/ \E b \in BOOLEAN : pidWritten' = [pidWritten EXCEPT ![w[2]] = b]
  BY <1>2
  DEF WorkerStep, Work, CreateWorkerLock, WriteWorkerPid, ReadStatus, WriteRunning,
      WriteProgress, WriteResult, WrapperError, ReleaseJobLock, CrashWorker, OrphanEnds,
      files, WorkerGoto
<1>4. \A v \in Workers \ {w} : workerPc'[v] = workerPc[v]
  BY <1>3 DEF TypeInv, TypeOK
<1>5. \A k \in Jobs \ {w[2]} :
          /\ status'[k] = status[k] /\ recordedPid'[k] = recordedPid[k]
          /\ workerLock'[k] = workerLock[k] /\ pidWritten'[k] = pidWritten[k]
  BY <1>1, <1>3 DEF TypeInv, TypeOK
<1> QED BY <1>3, <1>4, <1>5

\* What a worker does to its own job.
LEMMA OwnSteps ==
    ASSUME TypeInv, NEW w \in Workers, WorkerStep(w)
    PROVE  \/ /\ workerPc[w] = "boot" /\ workerPc'[w] = "locked"
              /\ workerLock[w[2]] = None /\ workerLock'[w[2]] = w /\ ~pidWritten'[w[2]]
              /\ UNCHANGED <<status, recordedPid, ran>>
           \/ /\ workerPc[w] = "boot" /\ workerPc'[w] = "lost"
              /\ workerLock[w[2]] # None
              /\ UNCHANGED <<status, recordedPid, workerLock, pidWritten, ran>>
           \/ /\ workerPc[w] = "locked" /\ workerPc'[w] = "claimed"
              /\ workerLock[w[2]] = w => pidWritten'[w[2]]
              /\ UNCHANGED <<status, recordedPid, workerLock, ran>>
           \/ /\ workerPc[w] = "claimed"
              /\ workerPc'[w] = IF status[w[2]] = "queued" THEN "read" ELSE "lost"
              /\ UNCHANGED <<status, recordedPid, workerLock, pidWritten, ran>>
           \/ /\ workerPc[w] = "read" /\ workerPc'[w] = "exec"
              /\ status'[w[2]] = "running" /\ ran' = ran \cup {w}
              /\ UNCHANGED <<workerLock, pidWritten>>
           \/ /\ workerPc[w] = "exec" /\ workerPc'[w] = "exec"
              /\ status'[w[2]] = "running"
              /\ UNCHANGED <<workerLock, pidWritten, ran>>
           \/ /\ workerPc[w] = "exec" /\ workerPc'[w] = "final"
              /\ status'[w[2]] \in {"completed", "failed"}
              /\ UNCHANGED <<workerLock, pidWritten, ran>>
           \/ /\ workerPc[w] \in {"claimed", "read"} /\ workerPc'[w] = "final"
              /\ status'[w[2]] = "failed"
              /\ UNCHANGED <<recordedPid, workerLock, pidWritten, ran>>
           \/ /\ workerPc[w] \in {"final", "lost"} /\ workerPc'[w] = "gone"
              /\ UNCHANGED <<status, recordedPid, ran>>
           \/ /\ workerPc[w] = "exec" /\ workerPc'[w] = "orphan"
              /\ UNCHANGED <<status, recordedPid, workerLock, pidWritten, ran>>
           \/ /\ workerPc[w] \notin {"none", "gone"} /\ workerPc'[w] = "gone"
              /\ UNCHANGED <<status, recordedPid, workerLock, pidWritten, ran>>
<1>1. w[2] \in Jobs
  BY DEF Workers
<1> USE <1>1 DEF TypeInv, TypeOK, WorkerGoto
<1>2. CASE CreateWorkerLock(w)
  BY <1>2 DEF CreateWorkerLock
<1>3. CASE WriteWorkerPid(w)
  BY <1>3 DEF WriteWorkerPid
<1>4. CASE ReadStatus(w)
  BY <1>4 DEF ReadStatus, files
<1>5. CASE WriteRunning(w)
  BY <1>5 DEF WriteRunning
<1>6. CASE WriteProgress(w)
  BY <1>6 DEF WriteProgress
<1>7. CASE WriteResult(w)
  BY <1>7 DEF WriteResult
<1>8. CASE WrapperError(w)
  BY <1>8 DEF WrapperError
<1>9. CASE ReleaseJobLock(w)
  BY <1>9 DEF ReleaseJobLock
<1>10. CASE CrashWorker(w)
  BY <1>10 DEF CrashWorker, WorkerAlive, files
<1>11. CASE OrphanEnds(w)
  BY <1>11 DEF OrphanEnds, files
<1> QED BY <1>2, <1>3, <1>4, <1>5, <1>6, <1>7, <1>8, <1>9, <1>10, <1>11 DEF WorkerStep, Work

\* The steps of a daemon that change a record, a worker.lock or a worker.
LEMMA DaemonKindsOfAll ==
    ASSUME NEW d \in Daemons, DaemonStep(d)
    PROVE  \/ UNCHANGED <<status, recordedPid, workerLock, pidWritten, workerPc>>
           \/ SpawnWorker(d) \/ IdentityNotWritten(d)
           \/ \E j \in Jobs : ReapWorker(d, j) \/ TerminateWorker(d, j)
           \/ \E aged \in SUBSET Jobs : RecoverAbandonedJobs(d, aged)
BY DEF DaemonStep, Tick, StartDaemon, CrashDaemon, StopDaemon, ExitDaemon,
      ScanQueue, SkipDisabledHarness,
      FindStaleHarnessLock, UnlinkHarnessLock, AcquireHarnessLock, HarnessLockBusy,
      CountSlots, ReserveJob, FindStaleLease, UnlinkLease,
      AcquireLease, LeaseRefused, ReleaseHarnessLock, RegisterWorker,
      SpawnFails, FinishHarness, files

LEMMA OldestOfChosen ==
    ASSUME TypeInv, NEW d \in Daemons,
           \/ SpawnWorker(d) \/ SpawnFails(d) \/ RegisterWorker(d) \/ IdentityNotWritten(d)
    PROVE  Oldest(chosen[d]) \in chosen[d] \cap Jobs /\ <<d, Oldest(chosen[d])>> \in Workers
<1>1. chosen[d] # {} /\ chosen[d] \in SUBSET Jobs
  BY DEF SpawnWorker, SpawnFails, RegisterWorker, IdentityNotWritten, TypeInv, TypeOK, HandOK
<1> QED BY <1>1, OldestIsMember DEF Workers

\* What terminate_tree does to the worker, its job and the others.
LEMMA Terminated ==
    ASSUME TreeCovers, TypeInv, NEW d \in Daemons, NEW j \in Jobs, TerminateTree(d, j)
    PROVE  /\ workerPc'[<<d, j>>] = "gone"
           /\ \A v \in Workers \ {<<d, j>>} : workerPc'[v] = workerPc[v]
           /\ status'[j] \in {status[j], "failed"}
           /\ \A k \in Jobs \ {j} :
                 /\ status'[k] = status[k]
                 /\ workerLock'[k] = workerLock[k] /\ pidWritten'[k] = pidWritten[k]
<1>1. workerPc' = [workerPc EXCEPT ![<<d, j>>] = "gone"] /\ <<d, j>> \in Workers
  BY DEF TerminateTree, Workers
<1>2. status' \in {status, [status EXCEPT ![j] = "failed"]}
  BY DEF TerminateTree
<1>3. workerLock' = workerLock \/ workerLock' = [workerLock EXCEPT ![j] = None]
  BY DEF TerminateTree
<1>4. pidWritten' = pidWritten \/ pidWritten' = [pidWritten EXCEPT ![j] = FALSE]
  BY DEF TerminateTree
<1>5. /\ status'[j] \in {status[j], "failed"}
      /\ \A k \in Jobs \ {j} : status'[k] = status[k]
  BY <1>2 DEF TypeInv, TypeOK
<1>6. \A k \in Jobs \ {j} : workerLock'[k] = workerLock[k] /\ pidWritten'[k] = pidWritten[k]
  BY <1>3, <1>4 DEF TypeInv, TypeOK
<1> QED BY <1>1, <1>5, <1>6 DEF TypeInv, TypeOK

\* Recovery takes up no job of an engaged worker, but for one that has nothing
\* of its own yet.
LEMMA RecoverySpares ==
    ASSUME TreeCovers, TypeInv, SuccessionInv,
           WorkersSeen, NEW d \in Daemons, daemonPc[d] = "recover",
           NEW w \in Workers, Engaged(w), w[2] \in Abandoned(HarnessAt(d))
    PROVE  workerPc[w] \in {"boot", "lost"}
<1> DEFINE j == w[2]
<1>1. j \in Jobs /\ w # None
  BY StateAssumption DEF Workers
<1>2. /\ JobOwners(j) # {} /\ ~JobTreeAlive(j)
      /\ \A v \in JobOwners(j) : ~WorkerAlive(v)
  BY DEF Abandoned
<1>3. ASSUME workerPc[w] \in {"claimed", "read", "exec", "orphan"}
      PROVE  w \in JobOwners(j)
  BY <1>1, <1>3 DEF SuccessionInv, LockFileInv, JobOwners, WorkerLockPid
<1>4. workerPc[w] \notin {"claimed", "read", "exec"}
  BY <1>2, <1>3 DEF WorkerAlive
<1>5. workerPc[w] # "orphan"
  <2> SUFFICES ASSUME workerPc[w] = "orphan" PROVE FALSE
    OBVIOUS
  <2>1. identity[j] \in {None, w}
    BY DEF WorkersSeen
  <2> QED BY <1>1, <1>2, <1>3, <2>1 DEF JobTreeAlive, TreeAlive
<1>6. workerPc[w] # "locked"
  <2> SUFFICES ASSUME workerPc[w] = "locked" PROVE FALSE
    OBVIOUS
  <2>1. recordedPid[j] = None /\ ~pidWritten[j]
    BY <1>1 DEF Engaged, SuccessionInv, SubmittedInv, LockFileInv
  <2> QED BY <1>2, <2>1 DEF JobOwners, WorkerLockPid
<1> QED BY <1>4, <1>5, <1>6 DEF Engaged

\* What recovery does to the jobs it takes up and to the others.
LEMMA Recovered ==
    ASSUME TypeInv, NEW d \in Daemons, NEW aged \in SUBSET Jobs, RecoverAbandonedJobs(d, aged)
    PROVE  /\ daemonPc[d] = "recover" /\ UNCHANGED <<workerPc, recordedPid, identity>>
           /\ \A j \in Jobs \ (Abandoned(HarnessAt(d)) \cap aged) :
                 /\ status'[j] = status[j]
                 /\ workerLock'[j] = workerLock[j] /\ pidWritten'[j] = pidWritten[j]
           /\ \A j \in Abandoned(HarnessAt(d)) \cap aged :
                 status'[j] \in Terminal
BY DEF RecoverAbandonedJobs, TypeInv, TypeOK, Terminal

\* A job waits only from its submission on.
LEMMA QueuedBefore ==
    ASSUME TypeInv, Next, NEW j \in Jobs, status'[j] \in {"absent", "queued"}
    PROVE  /\ status[j] = status'[j] \/ (StartTask(j) /\ status[j] = "absent")
           /\ recordedPid[j] = None => recordedPid'[j] = None
<1> USE DEF TypeInv, TypeOK
<1>1. ASSUME NEW d \in Daemons, DaemonStep(d)
      PROVE  status[j] = status'[j] /\ recordedPid'[j] = recordedPid[j]
  <2>1. CASE SpawnWorker(d)
    BY <2>1 DEF SpawnWorker, files
  <2>2. ASSUME NEW k \in Jobs, TerminateTree(d, k) PROVE status[j] = status'[j]
    BY <2>2 DEF TerminateTree
  <2>3. ASSUME IdentityNotWritten(d)
        PROVE  status[j] = status'[j] /\ recordedPid'[j] = recordedPid[j]
    BY <2>2, <2>3, OldestOfChosen DEF IdentityNotWritten
  <2>4. ASSUME NEW k \in Jobs, TerminateWorker(d, k)
        PROVE  status[j] = status'[j] /\ recordedPid'[j] = recordedPid[j]
    BY <2>2, <2>4 DEF TerminateWorker
  <2>5. ASSUME NEW k \in Jobs, ReapWorker(d, k)
        PROVE  status[j] = status'[j] /\ recordedPid'[j] = recordedPid[j]
    BY <2>5 DEF ReapWorker, Terminal
  <2>6. ASSUME NEW aged \in SUBSET Jobs, RecoverAbandonedJobs(d, aged)
        PROVE  status[j] = status'[j] /\ recordedPid'[j] = recordedPid[j]
    BY <2>6, Recovered DEF Terminal
  <2> QED BY <1>1, <2>1, <2>3, <2>4, <2>5, <2>6, DaemonKindsOfAll
<1>2. ASSUME NEW w \in Workers, WorkerStep(w)
      PROVE  status[j] = status'[j] /\ (recordedPid'[j] = recordedPid[j])
  <2>1. CASE j # w[2]
    BY <1>2, <2>1, WorkerSteps
  <2>2. CASE j = w[2]
    <3>1. UNCHANGED <<status, recordedPid>>
      BY <1>2, <2>2, OwnSteps
    <3> QED BY <3>1
  <2> QED BY <2>1, <2>2
<1>3. ASSUME NEW k \in Jobs, ControlStep(k)
      PROVE  /\ status[j] = status'[j] \/ (StartTask(j) /\ status[j] = "absent")
             /\ recordedPid[j] = None => recordedPid'[j] = None
  BY <1>3 DEF ControlStep, StartTask, CheckCancel, WriteCancelled, files
<1> QED BY <1>1, <1>2, <1>3 DEF Next

\* A worker becomes engaged when it is spawned for a job that waits.
SpawnedNow(w) ==
    \E d \in Daemons :
        /\ SpawnWorker(d) /\ w = <<d, Oldest(chosen[d])>>
        /\ Oldest(chosen[d]) \in chosen[d] /\ daemonPc[d] = "spawn"
        /\ status[w[2]] = "queued" /\ workerPc'[w] = "boot"

LEMMA EngagedBefore ==
    ASSUME TreeCovers, TypeInv, SuccessionInv, Next, NEW w \in Workers, Engaged(w)'
    PROVE  Engaged(w) \/ SpawnedNow(w)
<1>1. w[2] \in Jobs /\ w[1] \in Daemons /\ w = <<w[1], w[2]>>
  BY DEF Workers
<1>2. status'[w[2]] = "queued" => status[w[2]] = "queued" \/ workerPc[w] = "none"
  BY <1>1, QueuedBefore DEF SuccessionInv, SubmittedInv
<1>3. ASSUME workerPc'[w] = workerPc[w] PROVE Engaged(w)
  BY <1>2, <1>3 DEF Engaged
<1>4. CASE WorkerStep(w)
  <2>1. status'[w[2]] = "queued" => status[w[2]] = "queued"
    BY <1>2, <1>4, OwnSteps
  <2> QED BY <1>4, <2>1, OwnSteps DEF Engaged
<1>5. ASSUME NEW v \in Workers \ {w}, WorkerStep(v) PROVE Engaged(w)
  BY <1>3, <1>5, WorkerSteps
<1>6. ASSUME NEW k \in Jobs, ControlStep(k) PROVE Engaged(w)
  BY <1>3, <1>6 DEF ControlStep, StartTask, CheckCancel, WriteCancelled
<1>7. ASSUME NEW d \in Daemons, DaemonStep(d) PROVE Engaged(w) \/ SpawnedNow(w)
  <2>1. CASE SpawnWorker(d)
    <3> DEFINE j == Oldest(chosen[d])
    <3>1. workerPc' = [workerPc EXCEPT ![<<d, j>>] = "boot"] /\ UNCHANGED status
          /\ daemonPc[d] = "spawn"
      BY <2>1 DEF SpawnWorker, files
    <3>2. j \in chosen[d] /\ <<d, j>> \in Workers
      BY <2>1, OldestOfChosen
    <3>3. CASE w = <<d, j>>
      <4>1. workerPc'[w] = "boot"
        BY <3>1, <3>2, <3>3 DEF TypeInv, TypeOK
      <4>2. status[w[2]] = "queued"
        BY <3>1, <4>1 DEF Engaged
      <4> QED BY <2>1, <3>1, <3>2, <3>3, <4>1, <4>2 DEF SpawnedNow
    <3>4. CASE w # <<d, j>>
      BY <1>3, <3>1, <3>4 DEF TypeInv, TypeOK
    <3> QED BY <3>3, <3>4
  <2>2. ASSUME NEW k \in Jobs, TerminateTree(d, k) PROVE Engaged(w)
    <3>1. workerPc'[w] \in {workerPc[w], "gone"}
      BY <2>2, Terminated
    <3> QED BY <1>3, <3>1 DEF Engaged
  <2>3. ASSUME IdentityNotWritten(d) PROVE Engaged(w)
    BY <2>2, <2>3, OldestOfChosen DEF IdentityNotWritten
  <2>4. ASSUME NEW k \in Jobs, ReapWorker(d, k) \/ TerminateWorker(d, k) PROVE Engaged(w)
    BY <1>3, <2>2, <2>4 DEF ReapWorker, TerminateWorker
  <2>5. ASSUME NEW aged \in SUBSET Jobs, RecoverAbandonedJobs(d, aged) PROVE Engaged(w)
    BY <1>3, <2>5 DEF RecoverAbandonedJobs
  <2> QED BY <1>3, <1>7, <2>1, <2>3, <2>4, <2>5, DaemonKindsOfAll
<1> QED BY <1>4, <1>5, <1>6, <1>7 DEF Next

\* What is left of an engaged worker's files by a step that is not its own.
LEMMA EngagedKept ==
    ASSUME TreeCovers, TypeInv, SuccessionInv, WorkersSeen, Next, NEW w \in Workers,
           Engaged(w), Engaged(w)', ~WorkerStep(w)
    PROVE  /\ workerPc'[w] = workerPc[w]
           /\ workerLock'[w[2]] = workerLock[w[2]]
           /\ pidWritten'[w[2]] = pidWritten[w[2]]
           /\ status'[w[2]] = status[w[2]] \/ WriteCancelled(w[2])
<1> DEFINE Kept == /\ workerPc'[w] = workerPc[w]
                   /\ workerLock'[w[2]] = workerLock[w[2]]
                   /\ pidWritten'[w[2]] = pidWritten[w[2]]
                   /\ status'[w[2]] = status[w[2]]
<1>1. w[2] \in Jobs /\ w[1] \in Daemons /\ w = <<w[1], w[2]>>
  BY DEF Workers
<1>2. ASSUME NEW v \in Workers \ {w}, WorkerStep(v) PROVE Kept
  <2>1. workerPc[v] \notin {"none", "gone"}
    BY <1>2, OwnSteps
  <2>2. v[2] # w[2]
    BY <2>1 DEF SuccessionInv, SoleInv
  <2> QED BY <1>1, <1>2, <2>2, WorkerSteps
<1>3. ASSUME NEW k \in Jobs, ControlStep(k)
      PROVE  \/ Kept
             \/ /\ WriteCancelled(w[2])
                /\ UNCHANGED <<workerPc, workerLock, pidWritten>>
  <2>1. CASE StartTask(k)
    <3>1. status[k] = "absent" /\ status' = [status EXCEPT ![k] = "queued"]
          /\ UNCHANGED <<workerPc, workerLock, pidWritten>>
      BY <2>1 DEF StartTask
    <3>2. k # w[2]
      BY <1>1, <3>1 DEF SuccessionInv, SubmittedInv, Engaged
    <3> QED BY <1>1, <3>1, <3>2 DEF TypeInv, TypeOK
  <2>2. CASE CheckCancel(k)
    BY <2>2 DEF CheckCancel, files
  <2>3. CASE WriteCancelled(k)
    BY <1>1, <2>3 DEF WriteCancelled, TypeInv, TypeOK
  <2> QED BY <1>3, <2>1, <2>2, <2>3 DEF ControlStep
<1>4. ASSUME NEW d \in Daemons, DaemonStep(d) PROVE Kept
  <2>1. CASE UNCHANGED <<status, recordedPid, workerLock, pidWritten, workerPc>>
    BY <2>1
  <2>2. CASE SpawnWorker(d)
    <3>1. w # <<d, Oldest(chosen[d])>>
      <4>1. daemonPc[d] # "identify" /\ Oldest(chosen[d]) \in chosen[d]
        BY <2>2, OldestOfChosen DEF SpawnWorker
      <4> QED BY <4>1 DEF SuccessionInv, ReservedInv, IsNewChild
    <3> QED BY <2>2, <3>1 DEF SpawnWorker, files, TypeInv, TypeOK
  <2>3. ASSUME NEW k \in Jobs, TerminateTree(d, k), k = w[2] => w = <<d, k>> PROVE Kept
    <3>1. w # <<d, k>>
      BY <2>3, Terminated DEF Engaged
    <3>2. k # w[2] /\ w \in Workers \ {<<d, k>>}
      BY <2>3, <3>1
    <3>3. workerPc'[w] = workerPc[w]
      BY <2>3, <3>2, Terminated
    <3>4. \A i \in Jobs \ {k} : /\ status'[i] = status[i]
                               /\ workerLock'[i] = workerLock[i] /\ pidWritten'[i] = pidWritten[i]
      BY <2>3, Terminated
    <3> QED BY <1>1, <3>2, <3>3, <3>4
  <2>4. CASE IdentityNotWritten(d)
    <3>1. Oldest(chosen[d]) \in chosen[d] \cap Jobs /\ TerminateTree(d, Oldest(chosen[d]))
      BY <2>4, OldestOfChosen DEF IdentityNotWritten
    <3>2. Oldest(chosen[d]) = w[2] => w = <<d, Oldest(chosen[d])>>
      BY <3>1 DEF SuccessionInv, ReservedInv, IsNewChild
    <3> QED BY <2>3, <3>1, <3>2
  <2>5. ASSUME NEW k \in Jobs, TerminateWorker(d, k) PROVE Kept
    <3>1. k \in active[d] /\ TerminateTree(d, k)
      BY <2>5 DEF TerminateWorker
    <3>2. k = w[2] => w = <<d, k>>
      BY <1>1, <3>1 DEF SuccessionInv, ChildInv
    <3> QED BY <2>3, <3>1, <3>2
  <2>6. ASSUME NEW k \in Jobs, ReapWorker(d, k) PROVE Kept
    <3>1. k # w[2]
      <4> SUFFICES ASSUME k = w[2] PROVE FALSE
        OBVIOUS
      <4>1. w = <<d, k>> /\ ~TreeAlive(w)
        BY <1>1, <2>6 DEF SuccessionInv, ChildInv, ReapWorker
      <4> QED BY <4>1 DEF TreeAlive, WorkerAlive, Engaged
    <3> QED BY <1>1, <2>6, <3>1 DEF ReapWorker, TypeInv, TypeOK
  <2>7. ASSUME NEW aged \in SUBSET Jobs, RecoverAbandonedJobs(d, aged) PROVE Kept
    <3>1. w[2] \notin Abandoned(HarnessAt(d)) \cap aged
      <4> SUFFICES ASSUME w[2] \in Abandoned(HarnessAt(d)) \cap aged PROVE FALSE
        OBVIOUS
      <4>1. workerPc[w] \in {"boot", "lost"}
        BY <2>7, Recovered, RecoverySpares
      <4>2. workerPc'[w] = workerPc[w] /\ status'[w[2]] \in Terminal
        BY <2>7, Recovered
      <4> QED BY <4>1, <4>2 DEF Engaged, Terminal
    <3> QED BY <1>1, <2>7, <3>1, Recovered
  <2> QED BY <1>4, <2>1, <2>2, <2>4, <2>5, <2>6, <2>7, DaemonKindsOfAll
<1> QED BY <1>2, <1>3, <1>4 DEF Next

\* What a step of a daemon does to a worker: start it, or end it.
LEMMA StartsOrEnds ==
    ASSUME TreeCovers, TypeInv, NEW d \in Daemons, DaemonStep(d), NEW w \in Workers
    PROVE  workerPc'[w] \in {workerPc[w], "boot", "gone"}
<1>1. CASE SpawnWorker(d)
  BY <1>1 DEF SpawnWorker, TypeInv, TypeOK
<1>2. ASSUME NEW k \in Jobs, TerminateTree(d, k) PROVE workerPc'[w] \in {workerPc[w], "gone"}
  BY <1>2, Terminated
<1>3. ASSUME IdentityNotWritten(d) PROVE workerPc'[w] \in {workerPc[w], "gone"}
  BY <1>2, <1>3, OldestOfChosen DEF IdentityNotWritten
<1> QED
  BY <1>1, <1>2, <1>3, DaemonKindsOfAll DEF ReapWorker, RecoverAbandonedJobs, TerminateWorker

\* An engaged worker stays the only one.
LEMMA SoleStep ==
    ASSUME TreeCovers, TypeInv, SuccessionInv, WorkersSeen, Next
    PROVE  SoleInv'
<1> SUFFICES ASSUME NEW v \in Workers, NEW w \in Workers, Engaged(v)', v # w, v[2] = w[2]
             PROVE  workerPc'[w] \in {"none", "gone"}
  BY DEF SoleInv
<1>1. CASE SpawnedNow(v) /\ ~Engaged(v)
  <2>1. PICK d \in Daemons :
            /\ SpawnWorker(d) /\ v = <<d, Oldest(chosen[d])>>
            /\ Oldest(chosen[d]) \in chosen[d] /\ daemonPc[d] = "spawn"
            /\ status[v[2]] = "queued"
    BY <1>1 DEF SpawnedNow
  <2>2. ~Engaged(w)
    BY <2>1 DEF SuccessionInv, ReservedInv, IsNewChild
  <2>3. workerPc[w] \in {"none", "gone"}
    BY <2>1, <2>2 DEF Engaged, SuccessionInv, BegunInv, TypeInv, TypeOK, WorkerPcs
  <2>4. workerPc'[w] = workerPc[w]
    BY <2>1 DEF SpawnWorker, TypeInv, TypeOK
  <2> QED BY <2>3, <2>4
<1>2. CASE Engaged(v)
  <2>1. workerPc[w] \in {"none", "gone"}
    BY <1>2 DEF SuccessionInv, SoleInv
  <2>2. CASE workerPc'[w] = workerPc[w]
    BY <2>1, <2>2
  <2>3. ASSUME NEW d \in Daemons, DaemonStep(d) PROVE workerPc'[w] \in {"none", "gone"}
    <3>1. CASE SpawnWorker(d)
      <4>1. w # <<d, Oldest(chosen[d])>>
        <5>1. daemonPc[d] # "identify" /\ Oldest(chosen[d]) \in chosen[d]
          BY <3>1, OldestOfChosen DEF SpawnWorker
        <5> QED BY <1>2, <5>1 DEF SuccessionInv, ReservedInv, IsNewChild
      <4> QED BY <2>2, <3>1, <4>1 DEF SpawnWorker, TypeInv, TypeOK
    <3>2. ASSUME NEW k \in Jobs, TerminateTree(d, k) PROVE workerPc'[w] \in {"none", "gone"}
      <4>1. workerPc'[w] \in {workerPc[w], "gone"}
        BY <3>2, Terminated
      <4> QED BY <2>1, <4>1
    <3>3. ASSUME IdentityNotWritten(d) PROVE workerPc'[w] \in {"none", "gone"}
      BY <3>2, <3>3, OldestOfChosen DEF IdentityNotWritten
    <3> QED
      BY <2>2, <2>3, <3>1, <3>2, <3>3, DaemonKindsOfAll
      DEF ReapWorker, RecoverAbandonedJobs, TerminateWorker
  <2>4. ASSUME NEW u \in Workers, WorkerStep(u) PROVE workerPc'[w] \in {"none", "gone"}
    <3>1. u # w
      BY <2>1, <2>4, OwnSteps
    <3> QED BY <2>2, <2>4, <3>1, WorkerSteps
  <2>5. ASSUME NEW k \in Jobs, ControlStep(k) PROVE workerPc'[w] \in {"none", "gone"}
    BY <2>2, <2>5 DEF ControlStep, StartTask, CheckCancel, WriteCancelled
  <2> QED BY <2>3, <2>4, <2>5 DEF Next
<1> QED BY <1>1, <1>2, EngagedBefore

\* A worker that begins or ends closes the record of its job.
LEMMA BegunStep ==
    ASSUME TreeCovers, TypeInv, SuccessionInv, Next
    PROVE  BegunInv'
<1> SUFFICES ASSUME NEW w \in Workers
             PROVE  /\ workerPc'[w] \in {"exec", "orphan", "final"} => status'[w[2]] # "queued"
                    /\ w \in ran' => status'[w[2]] \notin {"absent", "queued"}
  BY DEF BegunInv
<1>1. w[2] \in Jobs
  BY DEF Workers
<1>2. status'[w[2]] \in {"absent", "queued"} =>
          status[w[2]] = status'[w[2]] \/ status[w[2]] = "absent"
  BY <1>1, QueuedBefore
<1>3. status[w[2]] = "absent" => workerPc[w] = "none" /\ w \notin ran
  <2>1. w = <<w[1], w[2]>> /\ w[1] \in Daemons
    BY DEF Workers
  <2> QED BY <1>1, <2>1 DEF SuccessionInv, SubmittedInv, BegunInv
<1>4. CASE /\ workerPc'[w] \in {workerPc[w], "boot", "gone"}
           /\ w \in ran' => w \in ran
  BY <1>2, <1>3, <1>4 DEF SuccessionInv, BegunInv
<1>5. CASE WorkerStep(w)
  <2>1. status[w[2]] # "absent"
    BY <1>3, <1>5, OwnSteps
  <2> QED BY <1>2, <1>5, <2>1, OwnSteps DEF SuccessionInv, BegunInv
<1>6. ASSUME NEW v \in Workers \ {w}, WorkerStep(v)
      PROVE  workerPc'[w] = workerPc[w] /\ (w \in ran' => w \in ran)
  <2>1. ran' = ran \/ ran' = ran \cup {v}
    BY <1>6, OwnSteps
  <2> QED BY <1>6, <2>1, WorkerSteps
<1>7. ASSUME NEW k \in Jobs, ControlStep(k) PROVE UNCHANGED workerPc
  BY <1>7 DEF ControlStep, StartTask, CheckCancel, WriteCancelled
<1>8. ASSUME NEW d \in Daemons, DaemonStep(d)
      PROVE  workerPc'[w] \in {workerPc[w], "boot", "gone"}
  BY <1>8, StartsOrEnds
<1> QED BY <1>4, <1>5, <1>6, <1>7, <1>8 DEF Next

\* An engaged worker's lock stays its own.
LEMMA LockFileStep ==
    ASSUME TreeCovers, TypeInv, SuccessionInv, WorkersSeen, Next
    PROVE  LockFileInv'
<1> SUFFICES ASSUME NEW w \in Workers, Engaged(w)'
             PROVE  /\ workerPc'[w] \in {"locked", "claimed", "read", "exec", "orphan"} =>
                          workerLock'[w[2]] = w
                    /\ workerPc'[w] \in {"claimed", "read", "exec", "orphan"} => pidWritten'[w[2]]
                    /\ workerPc'[w] = "locked" => ~pidWritten'[w[2]]
                    /\ workerPc'[w] = "lost" => workerLock'[w[2]] # None
  BY DEF LockFileInv
<1>1. CASE SpawnedNow(w)
  BY <1>1 DEF SpawnedNow
<1>2. CASE Engaged(w) /\ ~WorkerStep(w)
  <2>1. /\ workerPc'[w] = workerPc[w] /\ workerLock'[w[2]] = workerLock[w[2]]
        /\ pidWritten'[w[2]] = pidWritten[w[2]]
    BY <1>2, EngagedKept
  <2> QED BY <1>2, <2>1 DEF SuccessionInv, LockFileInv
<1>3. CASE Engaged(w) /\ WorkerStep(w)
  <2>1. /\ workerPc[w] \in {"locked", "claimed", "read", "exec", "orphan"} =>
              workerLock[w[2]] = w
        /\ workerPc[w] \in {"claimed", "read", "exec", "orphan"} => pidWritten[w[2]]
        /\ workerPc[w] = "lost" => workerLock[w[2]] # None
    BY <1>3 DEF SuccessionInv, LockFileInv
  <2>2. workerPc'[w] \notin {"final", "gone"}
    <3>1. workerPc'[w] # "final" /\ workerPc'[w] # "gone"
      BY DEF Engaged
    <3> QED BY <3>1
  <2>3. workerPc[w] = "claimed" /\ workerPc'[w] = "lost" => FALSE
    <3> SUFFICES ASSUME workerPc[w] = "claimed", workerPc'[w] = "lost" PROVE FALSE
      OBVIOUS
    <3>1. status[w[2]] # "queued" /\ status' = status
      BY <1>3, OwnSteps
    <3> QED BY <3>1 DEF Engaged
  <2> QED BY <1>3, <2>1, <2>2, <2>3, OwnSteps
<1> QED BY <1>1, <1>2, <1>3, EngagedBefore

\* No job is read as queued once its prompt was handed over, and so none is
\* handed over twice.
LEMMA FirstStep ==
    ASSUME TreeCovers, TypeInv, SuccessionInv, Next
    PROVE  FirstInv' /\ RunsAtMostOnce'
<1>1. TypeInv /\ \A w \in Workers : w[2] \in Jobs
  BY DEF Workers
<1>2. ASSUME NEW w \in Workers, WorkerStep(w) PROVE FirstInv' /\ RunsAtMostOnce'
  <2>1. \A v \in Workers \ {w} : workerPc'[v] = workerPc[v]
    BY <1>2, WorkerSteps
  <2>2. CASE workerPc[w] = "read" /\ workerPc'[w] = "exec" /\ ran' = ran \cup {w}
    <3>1. \A v \in ran : v[2] # w[2]
      BY <2>2 DEF SuccessionInv, FirstInv
    <3>2. \A v \in Workers \ {w} : workerPc[v] = "read" => v[2] # w[2]
      <4>1. Engaged(w)
        BY <2>2 DEF Engaged
      <4> QED BY <4>1 DEF SuccessionInv, SoleInv
    <3>3. FirstInv'
      <4> SUFFICES ASSUME NEW v \in ran', NEW u \in Workers, workerPc'[u] = "read"
                   PROVE  v[2] # u[2]
        BY DEF FirstInv
      <4>1. u # w /\ workerPc[u] = "read"
        BY <2>1, <2>2
      <4> QED BY <2>2, <3>2, <4>1 DEF SuccessionInv, FirstInv
    <3>4. RunsAtMostOnce'
      BY <2>2, <3>1 DEF SuccessionInv, RunsAtMostOnce
    <3> QED BY <3>3, <3>4
  <2>3. CASE workerPc'[w] = "read" /\ status[w[2]] = "queued" /\ UNCHANGED ran
    <3>1. \A v \in ran : v[2] # w[2]
      BY <2>3 DEF SuccessionInv, BegunInv, TypeInv, TypeOK
    <3> QED BY <2>1, <2>3, <3>1 DEF SuccessionInv, FirstInv, RunsAtMostOnce
  <2>4. CASE workerPc'[w] # "read" /\ UNCHANGED ran
    BY <2>1, <2>4 DEF SuccessionInv, FirstInv, RunsAtMostOnce
  <2> QED BY <1>2, <2>2, <2>3, <2>4, OwnSteps
<1>3. ASSUME UNCHANGED ran, \A w \in Workers : workerPc'[w] \in {workerPc[w], "boot", "gone"}
      PROVE  FirstInv' /\ RunsAtMostOnce'
  BY <1>3 DEF SuccessionInv, FirstInv, RunsAtMostOnce
<1>4. ASSUME NEW d \in Daemons, DaemonStep(d), NEW w \in Workers
      PROVE  workerPc'[w] \in {workerPc[w], "boot", "gone"}
  BY <1>4, StartsOrEnds
<1>5. ASSUME NEW k \in Jobs, ControlStep(k) PROVE UNCHANGED workerPc
  BY <1>5 DEF ControlStep, StartTask, CheckCancel, WriteCancelled
<1> QED BY <1>2, <1>3, <1>4, <1>5 DEF Next

\* What a step of one daemon leaves of the memory of another.
LEMMA MemoryOfOthers ==
    ASSUME TypeInv, NEW d \in Daemons, DaemonStep(d), NEW e \in Daemons \ {d}
    PROVE  /\ daemonPc'[e] = daemonPc[e] /\ queue'[e] = queue[e]
           /\ current'[e] = current[e] /\ chosen'[e] = chosen[e] /\ active'[e] = active[e]
<1> USE DEF TypeInv, TypeOK, Goto, Forget
<1>1. CASE StartDaemon(d) \/ CrashDaemon(d) \/ StopDaemon(d) \/ ExitDaemon(d)
  BY <1>1 DEF StartDaemon, CrashDaemon, StopDaemon, ExitDaemon
<1>2. CASE \E j \in Jobs : TerminateWorker(d, j) \/ ReapWorker(d, j)
  BY <1>2 DEF TerminateWorker, ReapWorker, daemonVars
<1>3. CASE \/ ScanQueue(d) \/ SkipDisabledHarness(d) \/ FindStaleHarnessLock(d)
           \/ UnlinkHarnessLock(d) \/ AcquireHarnessLock(d) \/ HarnessLockBusy(d)
           \/ ReleaseHarnessLock(d) \/ FinishHarness(d)
  BY <1>3
  DEF ScanQueue, SkipDisabledHarness, FindStaleHarnessLock, UnlinkHarnessLock,
      AcquireHarnessLock, HarnessLockBusy, ReleaseHarnessLock, FinishHarness, NextHarness
<1>4. CASE \/ \E aged \in SUBSET Jobs : RecoverAbandonedJobs(d, aged)
           \/ CountSlots(d) \/ ReserveJob(d)
  BY <1>4 DEF RecoverAbandonedJobs, CountSlots, ReserveJob
<1>5. CASE FindStaleLease(d) \/ UnlinkLease(d) \/ AcquireLease(d) \/ LeaseRefused(d)
  BY <1>5 DEF FindStaleLease, UnlinkLease, AcquireLease, LeaseRefused, files
<1>6. CASE SpawnWorker(d) \/ RegisterWorker(d) \/ IdentityNotWritten(d) \/ SpawnFails(d)
  BY <1>6 DEF SpawnWorker, RegisterWorker, IdentityNotWritten, SpawnFails
<1> QED BY <1>1, <1>2, <1>3, <1>4, <1>5, <1>6 DEF DaemonStep, Tick

\* A daemon that takes a step runs, or starts while no other does.
LEMMA AliveOrStarts ==
    ASSUME TypeInv, NEW d \in Daemons, DaemonStep(d)
    PROVE  StartDaemon(d) \/ DaemonAlive(d)
BY DEF DaemonStep, Tick, StartDaemon, CrashDaemon, StopDaemon, ExitDaemon, TerminateWorker,
      ReapWorker, ScanQueue, SkipDisabledHarness,
      FindStaleHarnessLock, UnlinkHarnessLock, AcquireHarnessLock, HarnessLockBusy,
      CountSlots, ReserveJob, FindStaleLease, UnlinkLease, RecoverAbandonedJobs,
      AcquireLease, LeaseRefused, ReleaseHarnessLock, RegisterWorker, SpawnWorker,
      IdentityNotWritten, SpawnFails, FinishHarness, DaemonAlive

LEMMA AloneStep ==
    ASSUME TypeInv, AloneInv, ~Concurrent, Next
    PROVE  AloneInv'
<1>1. ASSUME NEW d \in Daemons, DaemonStep(d) PROVE AloneInv'
  <2>1. \A e \in Daemons \ {d} : ~DaemonAlive(e)
    BY <1>1, AliveOrStarts DEF StartDaemon, AloneInv
  <2>2. \A e \in Daemons \ {d} : daemonPc'[e] = daemonPc[e]
    BY <1>1, MemoryOfOthers
  <2>3. \A e \in Daemons \ {d} : ~DaemonAlive(e)'
    BY <2>1, <2>2 DEF DaemonAlive
  <2> QED BY <2>3 DEF AloneInv
<1>2. CASE UNCHANGED daemonPc
  BY <1>2 DEF AloneInv, DaemonAlive
<1> QED BY <1>1, <1>2 DEF Next, daemonVars

\* While a daemon runs the others remember nothing.
LEMMA OnlyOneConsiders ==
    ASSUME SuccessionInv, NEW d \in Daemons, DaemonAlive(d) \/ \A e \in Daemons : ~DaemonAlive(e),
           NEW e \in Daemons \ {d}
    PROVE  /\ ~DaemonAlive(e) /\ active[e] = {} /\ queue[e] = {} /\ chosen[e] = {}
           /\ ~AtLease(e) /\ daemonPc[e] \in {"off", "dead"}
           /\ \A j : ~Considers(e, j)
<1>1. ~DaemonAlive(e)
  BY DEF SuccessionInv, AloneInv
<1> QED BY <1>1 DEF SuccessionInv, MemoryInv, DaemonAlive, Considers, AtLease

\* What MemoryInv says of one daemon.
Memory(d) ==
    /\ ~DaemonAlive(d) => active[d] = {} /\ queue[d] = {}
    /\ daemonPc[d] \in {"idle", "stopping"} => queue[d] = {}
    /\ daemonPc[d] \notin {"reserve", "lease", "unlink_lease", "create_lease",
                           "spawn", "identify"} => chosen[d] = {}
    /\ queue[d] \cap chosen[d] = {}
    /\ AtLease(d) => /\ current[d] \notin queue[d] \cup chosen[d]
                     /\ \A k \in chosen[d] : WorkspaceOf[k] # WorkspaceOf[current[d]]

LEMMA MemoryOfOne ==
    ASSUME TypeInv, NEW d \in Daemons, Memory(d), DaemonStep(d)
    PROVE  Memory(d)'
<1> USE DEF Memory, TypeInv, TypeOK, Goto, Forget, AtLease, DaemonAlive
<1>1. CASE StartDaemon(d) \/ CrashDaemon(d) \/ StopDaemon(d) \/ ExitDaemon(d)
  BY <1>1 DEF StartDaemon, CrashDaemon, StopDaemon, ExitDaemon
<1>2. CASE \E j \in Jobs : TerminateWorker(d, j) \/ ReapWorker(d, j)
  BY <1>2 DEF TerminateWorker, ReapWorker, daemonVars
<1>3. CASE ScanQueue(d) \/ FindStaleHarnessLock(d)
           \/ UnlinkHarnessLock(d) \/ AcquireHarnessLock(d) \/ ReleaseHarnessLock(d)
  BY <1>3
  DEF ScanQueue, FindStaleHarnessLock, UnlinkHarnessLock,
      AcquireHarnessLock, ReleaseHarnessLock
<1>4. CASE SkipDisabledHarness(d) \/ HarnessLockBusy(d) \/ FinishHarness(d)
  BY <1>4 DEF SkipDisabledHarness, HarnessLockBusy, FinishHarness, NextHarness
<1>5. CASE \E aged \in SUBSET Jobs : RecoverAbandonedJobs(d, aged)
  <2>1. daemonPc[d] = "recover" /\ daemonPc' = [daemonPc EXCEPT ![d] = "count"]
        /\ UNCHANGED <<queue, current, chosen, active>>
    BY <1>5 DEF RecoverAbandonedJobs
  <2> QED BY <2>1
<1>9. CASE CountSlots(d) \/ FindStaleLease(d) \/ UnlinkLease(d) \/ LeaseRefused(d)
  <2>1. CASE CountSlots(d)
    <3>1. daemonPc[d] = "count" /\ daemonPc' = [daemonPc EXCEPT ![d] = "reserve"]
          /\ UNCHANGED <<queue, current, chosen, active>>
      BY <2>1 DEF CountSlots
    <3> QED BY <3>1
  <2>2. CASE FindStaleLease(d) \/ UnlinkLease(d)
    <3>1. AtLease(d) /\ AtLease(d)' /\ UNCHANGED <<queue, current, chosen, active>>
      BY <2>2 DEF FindStaleLease, UnlinkLease, files
    <3> QED BY <3>1
  <2>3. CASE LeaseRefused(d)
    <3>1. AtLease(d) /\ daemonPc' = [daemonPc EXCEPT ![d] = "reserve"]
          /\ UNCHANGED <<queue, chosen, active>>
      BY <2>3 DEF LeaseRefused
    <3> QED BY <3>1
  <2> QED BY <1>9, <2>1, <2>2, <2>3
<1>6. CASE ReserveJob(d)
  <2>1. Oldest(Candidates(d)) \in queue[d] \cap Jobs
    <3>1. Candidates(d) # {} /\ Candidates(d) \in SUBSET Jobs
      BY <1>6 DEF ReserveJob, MoreToReserve, Candidates
    <3> QED BY <3>1, OldestIsMember DEF Candidates
  <2> DEFINE k == Oldest(Candidates(d))
  <2>2. /\ daemonPc[d] = "reserve" /\ chosen' = chosen /\ active' = active
        /\ queue' = [queue EXCEPT ![d] = @ \ {k}]
        /\ \/ current' = current /\ daemonPc' = daemonPc
           \/ /\ \A i \in chosen[d] : WorkspaceOf[i] # WorkspaceOf[k]
              /\ current' = [current EXCEPT ![d] = k]
              /\ daemonPc' = [daemonPc EXCEPT ![d] = "lease"]
    BY <1>6 DEF ReserveJob
  <2> HIDE DEF k
  <2>3. k \in queue[d] \cap Jobs
    BY <2>1 DEF k
  <2> QED BY <2>2, <2>3
<1>7. CASE AcquireLease(d)
  BY <1>7 DEF AcquireLease
<1>8. CASE SpawnWorker(d) \/ RegisterWorker(d) \/ IdentityNotWritten(d) \/ SpawnFails(d)
  BY <1>8 DEF SpawnWorker, RegisterWorker, IdentityNotWritten, SpawnFails
<1> QED BY <1>1, <1>2, <1>3, <1>4, <1>5, <1>6, <1>7, <1>8, <1>9 DEF DaemonStep, Tick

LEMMA MemoryStep ==
    ASSUME TypeInv, MemoryInv, Next
    PROVE  MemoryInv'
<1> SUFFICES ASSUME NEW e \in Daemons PROVE Memory(e)'
  BY DEF MemoryInv, Memory
<1>1. Memory(e)
  BY DEF MemoryInv, Memory
<1>2. ASSUME NEW d \in Daemons, DaemonStep(d) PROVE Memory(e)'
  <2>1. CASE e = d
    BY <1>1, <1>2, <2>1, MemoryOfOne
  <2>2. CASE e # d
    BY <1>1, <1>2, <2>2, MemoryOfOthers DEF Memory, AtLease, DaemonAlive
  <2> QED BY <2>1, <2>2
<1>3. CASE UNCHANGED daemonVars
  BY <1>1, <1>3 DEF daemonVars, Memory, AtLease, DaemonAlive
<1> QED BY <1>2, <1>3 DEF Next

\* What a daemon takes up it found in its scan.
LEMMA ConsideredByOne ==
    ASSUME TypeInv, NEW d \in Daemons, DaemonStep(d), NEW j \in Jobs, Considers(d, j)'
    PROVE  Considers(d, j) \/ (ScanQueue(d) /\ j \in QueuedJobs)
<1> USE DEF TypeInv, TypeOK, HandOK, Goto, Forget, AtLease, Considers
<1>1. CASE StartDaemon(d) \/ CrashDaemon(d) \/ StopDaemon(d) \/ ExitDaemon(d)
  BY <1>1 DEF StartDaemon, CrashDaemon, StopDaemon, ExitDaemon
<1>2. CASE \E k \in Jobs : TerminateWorker(d, k) \/ ReapWorker(d, k)
  BY <1>2 DEF TerminateWorker, ReapWorker, daemonVars
<1>3. CASE ScanQueue(d)
  BY <1>3 DEF ScanQueue
<1>4. CASE FindStaleHarnessLock(d) \/ UnlinkHarnessLock(d) \/ AcquireHarnessLock(d)
           \/ ReleaseHarnessLock(d)
  BY <1>4 DEF FindStaleHarnessLock, UnlinkHarnessLock, AcquireHarnessLock, ReleaseHarnessLock
<1>5. CASE SkipDisabledHarness(d) \/ HarnessLockBusy(d) \/ FinishHarness(d)
  BY <1>5 DEF SkipDisabledHarness, HarnessLockBusy, FinishHarness, NextHarness
<1>6. CASE \E aged \in SUBSET Jobs : RecoverAbandonedJobs(d, aged)
  <2>1. daemonPc' = [daemonPc EXCEPT ![d] = "count"] /\ UNCHANGED <<queue, current, chosen>>
    BY <1>6 DEF RecoverAbandonedJobs
  <2> QED BY <2>1
<1>7. CASE CountSlots(d) \/ FindStaleLease(d) \/ UnlinkLease(d) \/ LeaseRefused(d)
  BY <1>7 DEF CountSlots, FindStaleLease, UnlinkLease, LeaseRefused
<1>10. CASE AcquireLease(d)
  BY <1>10 DEF AcquireLease
<1>8. CASE ReserveJob(d)
  <2>1. Oldest(Candidates(d)) \in queue[d] \cap Jobs
    <3>1. Candidates(d) # {} /\ Candidates(d) \in SUBSET Jobs
      BY <1>8 DEF ReserveJob, MoreToReserve, Candidates
    <3> QED BY <3>1, OldestIsMember DEF Candidates
  <2> QED BY <1>8, <2>1 DEF ReserveJob
<1>9. CASE SpawnWorker(d) \/ RegisterWorker(d) \/ IdentityNotWritten(d) \/ SpawnFails(d)
  BY <1>9 DEF SpawnWorker, RegisterWorker, IdentityNotWritten, SpawnFails
<1> QED BY <1>1, <1>2, <1>3, <1>4, <1>5, <1>6, <1>7, <1>8, <1>9, <1>10 DEF DaemonStep, Tick

LEMMA ConsideredBefore ==
    ASSUME TypeInv, Next, NEW e \in Daemons, NEW j \in Jobs, Considers(e, j)'
    PROVE  Considers(e, j) \/ (ScanQueue(e) /\ j \in QueuedJobs)
<1>1. ASSUME NEW d \in Daemons \ {e}, DaemonStep(d) PROVE Considers(e, j)
  BY <1>1, MemoryOfOthers DEF Considers, AtLease
<1>2. CASE UNCHANGED daemonVars
  BY <1>2 DEF daemonVars, Considers, AtLease
<1> QED BY <1>1, <1>2, ConsideredByOne DEF Next

\* What a daemon reserves it has just given a lease, what it has as a child it
\* has just started, and the lease it is about to unlink it has just judged.
LEMMA ReservedByOne ==
    ASSUME TypeInv, NEW d \in Daemons, DaemonStep(d), NEW j \in Jobs
    PROVE  /\ j \in chosen'[d] => j \in chosen[d] \/ (AcquireLease(d) /\ j = current[d])
           /\ j \in active'[d] => \/ j \in active[d]
                                  \/ RegisterWorker(d) /\ j = Oldest(chosen[d])
           /\ daemonPc'[d] = "unlink_lease" =>
                 \/ FindStaleLease(d)
                 \/ daemonPc[d] = "unlink_lease" /\ current'[d] = current[d]
           /\ daemonPc'[d] = "identify" =>
                 SpawnWorker(d) \/ (daemonPc[d] = "identify" /\ chosen'[d] = chosen[d])
<1> USE DEF TypeInv, TypeOK, Goto, Forget
<1>1. CASE StartDaemon(d) \/ CrashDaemon(d) \/ StopDaemon(d) \/ ExitDaemon(d)
  BY <1>1 DEF StartDaemon, CrashDaemon, StopDaemon, ExitDaemon
<1>2. CASE \E k \in Jobs : TerminateWorker(d, k) \/ ReapWorker(d, k)
  BY <1>2 DEF TerminateWorker, ReapWorker, daemonVars
<1>3. CASE ScanQueue(d) \/ FindStaleHarnessLock(d) \/ UnlinkHarnessLock(d)
           \/ AcquireHarnessLock(d) \/ ReleaseHarnessLock(d)
  BY <1>3
  DEF ScanQueue, FindStaleHarnessLock, UnlinkHarnessLock, AcquireHarnessLock,
      ReleaseHarnessLock
<1>4. CASE SkipDisabledHarness(d) \/ HarnessLockBusy(d) \/ FinishHarness(d)
  BY <1>4 DEF SkipDisabledHarness, HarnessLockBusy, FinishHarness, NextHarness
<1>5. CASE \E aged \in SUBSET Jobs : RecoverAbandonedJobs(d, aged)
  <2>1. daemonPc' = [daemonPc EXCEPT ![d] = "count"] /\ UNCHANGED <<chosen, active>>
    BY <1>5 DEF RecoverAbandonedJobs
  <2> QED BY <2>1
<1>6. CASE CountSlots(d) \/ FindStaleLease(d) \/ UnlinkLease(d) \/ LeaseRefused(d)
  BY <1>6 DEF CountSlots, FindStaleLease, UnlinkLease, LeaseRefused
<1>8. CASE AcquireLease(d)
  BY <1>8 DEF AcquireLease
<1>9. CASE ReserveJob(d)
  BY <1>9 DEF ReserveJob
<1>7. CASE SpawnWorker(d) \/ RegisterWorker(d) \/ IdentityNotWritten(d) \/ SpawnFails(d)
  BY <1>7 DEF SpawnWorker, RegisterWorker, IdentityNotWritten, SpawnFails
<1> QED BY <1>1, <1>2, <1>3, <1>4, <1>5, <1>6, <1>7, <1>8, <1>9 DEF DaemonStep, Tick

LEMMA ReservedBefore ==
    ASSUME TypeInv, Next, NEW e \in Daemons, NEW j \in Jobs
    PROVE  /\ j \in chosen'[e] => j \in chosen[e] \/ (AcquireLease(e) /\ j = current[e])
           /\ j \in active'[e] => \/ j \in active[e]
                                  \/ RegisterWorker(e) /\ j = Oldest(chosen[e])
           /\ daemonPc'[e] = "unlink_lease" =>
                 \/ FindStaleLease(e)
                 \/ daemonPc[e] = "unlink_lease" /\ current'[e] = current[e]
           /\ daemonPc'[e] = "identify" =>
                 SpawnWorker(e) \/ (daemonPc[e] = "identify" /\ chosen'[e] = chosen[e])
<1>1. ASSUME NEW d \in Daemons \ {e}, DaemonStep(d)
      PROVE  /\ daemonPc'[e] = daemonPc[e] /\ current'[e] = current[e]
             /\ chosen'[e] = chosen[e] /\ active'[e] = active[e]
  BY <1>1, MemoryOfOthers
<1>2. CASE UNCHANGED daemonVars
  BY <1>2 DEF daemonVars
<1>3. CASE DaemonStep(e)
  BY <1>3, ReservedByOne
<1> QED BY <1>1, <1>2, <1>3 DEF Next

\* What is known of a job that was not submitted or waits.
LEMMA SubmittedStep ==
    ASSUME TreeCovers, TypeInv, SuccessionInv, Next
    PROVE  SubmittedInv'
<1> SUFFICES ASSUME NEW j \in Jobs
             PROVE  /\ status'[j] = "absent" =>
                          \A d \in Daemons : workerPc'[<<d, j>>] = "none" /\ ~Considers(d, j)'
                    /\ status'[j] \in {"absent", "queued"} => recordedPid'[j] = None
  BY DEF SubmittedInv
<1>1. ASSUME status'[j] \in {"absent", "queued"} PROVE recordedPid'[j] = None
  <2>1. status[j] \in {"absent", "queued"}
    BY <1>1, QueuedBefore
  <2> QED BY <1>1, <2>1, QueuedBefore DEF SuccessionInv, SubmittedInv
<1>2. ASSUME status'[j] = "absent", NEW d \in Daemons
      PROVE  workerPc'[<<d, j>>] = "none" /\ ~Considers(d, j)'
  <2> DEFINE w == <<d, j>>
  <2>1. status[j] = "absent"
    BY <1>2, QueuedBefore
  <2>2. \A e \in Daemons : workerPc[<<e, j>>] = "none" /\ ~Considers(e, j)
    BY <2>1 DEF SuccessionInv, SubmittedInv
  <2>3. ~Considers(d, j)'
    BY <2>1, <2>2, ConsideredBefore DEF QueuedJobs, Unclaimed
  <2>4. w \in Workers /\ workerPc[w] = "none"
    BY <2>2 DEF Workers
  <2>5. ASSUME NEW v \in Workers, WorkerStep(v) PROVE workerPc'[w] = "none"
    <3>1. v # w
      BY <2>4, <2>5, OwnSteps
    <3> QED BY <2>4, <2>5, <3>1, WorkerSteps
  <2>6. ASSUME NEW k \in Jobs, ControlStep(k) PROVE workerPc'[w] = "none"
    BY <2>4, <2>6 DEF ControlStep, StartTask, CheckCancel, WriteCancelled
  <2>7. ASSUME NEW e \in Daemons, DaemonStep(e) PROVE workerPc'[w] = "none"
    <3>1. ASSUME NEW k \in Jobs \ {j}, workerPc' = [workerPc EXCEPT ![<<e, k>>] = "boot"]
                                       \/ workerPc' = [workerPc EXCEPT ![<<e, k>>] = "gone"]
          PROVE  workerPc'[w] = "none"
      BY <2>4, <3>1 DEF TypeInv, TypeOK
    <3>2. ASSUME SpawnWorker(e) \/ IdentityNotWritten(e) PROVE workerPc'[w] = "none"
      <4>1. Oldest(chosen[e]) \in Jobs \ {j}
        BY <2>2, <3>2, OldestOfChosen DEF Considers
      <4> QED BY <3>1, <3>2, <4>1 DEF SpawnWorker, IdentityNotWritten, TerminateTree
    <3>3. ASSUME NEW k \in Jobs, TerminateWorker(e, k) PROVE workerPc'[w] = "none"
      <4>1. k # j
        BY <2>2, <3>3 DEF TerminateWorker, TreeAlive, WorkerAlive
      <4> QED BY <3>1, <3>3, <4>1 DEF TerminateWorker, TerminateTree
    <3> QED
      BY <2>4, <2>7, <3>2, <3>3, DaemonKindsOfAll DEF ReapWorker, RecoverAbandonedJobs
  <2> QED BY <2>3, <2>5, <2>6, <2>7 DEF Next
<1> QED BY <1>1, <1>2

\* A child is new until it is registered or given up.
LEMMA NewChildKept ==
    ASSUME TreeCovers, TypeInv, SuccessionInv, Next, NEW d \in Daemons, NEW w \in Workers,
           IsNewChild(d, w), Considers(d, w[2])'
    PROVE  IsNewChild(d, w)'
<1> USE DEF TypeInv, TypeOK, Goto, Forget
<1>1. w[2] \in Jobs /\ w[2] = Oldest(chosen[d]) /\ daemonPc[d] = "identify"
  BY DEF IsNewChild, Workers
<1>2. ASSUME NEW e \in Daemons \ {d}, DaemonStep(e) PROVE IsNewChild(d, w)'
  BY <1>2, MemoryOfOthers DEF IsNewChild
<1>3. CASE UNCHANGED daemonVars
  BY <1>3 DEF daemonVars, IsNewChild
<1>4. CASE DaemonStep(d)
  <2>1. DaemonAlive(d) /\ w[2] \notin queue[d]
    BY <1>1, OldestIsMember DEF DaemonAlive, SuccessionInv, MemoryInv, HandOK
  <2>2. CASE CrashDaemon(d) \/ StopDaemon(d)
    BY <2>2 DEF CrashDaemon, StopDaemon, Considers, AtLease
  <2>3. CASE RegisterWorker(d) \/ IdentityNotWritten(d)
    BY <1>1, <2>1, <2>3 DEF RegisterWorker, IdentityNotWritten, Considers, AtLease
  <2>4. CASE \E k \in Jobs : TerminateWorker(d, k) \/ ReapWorker(d, k)
    BY <1>1, <2>4 DEF TerminateWorker, ReapWorker
  <2> QED
    BY <1>1, <1>4, <2>2, <2>3, <2>4
    DEF DaemonStep, Tick, StartDaemon, ExitDaemon, ScanQueue, SkipDisabledHarness,
        FindStaleHarnessLock, UnlinkHarnessLock, AcquireHarnessLock, HarnessLockBusy,
        CountSlots, ReserveJob, FindStaleLease, UnlinkLease, RecoverAbandonedJobs,
        AcquireLease, LeaseRefused, ReleaseHarnessLock, SpawnWorker, SpawnFails, FinishHarness
<1> QED BY <1>2, <1>3, <1>4 DEF Next

\* The steps that take a lease away from a job.
LEMMA LeaseLost ==
    ASSUME TypeInv, Next, NEW j \in Jobs, HasLease(j), ~HasLease(j)'
    PROVE  \E d \in Daemons :
              \/ ReapWorker(d, j)
              \/ \E aged \in SUBSET Jobs :
                    RecoverAbandonedJobs(d, aged) /\ j \in Abandoned(HarnessAt(d)) \cap aged
              \/ UnlinkLease(d) /\ WorkspaceOf[current[d]] = WorkspaceOf[j]
              \/ (SpawnFails(d) \/ IdentityNotWritten(d)) /\ j = Oldest(chosen[d])
<1>1. lease' # lease /\ WorkspaceOf[j] \in Workspaces
  BY StateAssumption DEF HasLease
<1>2. PICK d \in Daemons : DaemonStep(d)
  BY <1>1, WorkerSteps DEF Next, ControlStep, StartTask, CheckCancel, WriteCancelled, files
<1>3. CASE \E k \in Jobs : ReapWorker(d, k)
  <2>1. PICK k \in Jobs : ReapWorker(d, k)
    BY <1>3
  <2>2. j \in {k}
    BY <2>1, LeaseKept DEF ReapWorker
  <2> QED BY <2>1, <2>2
<1>4. CASE \E aged \in SUBSET Jobs : RecoverAbandonedJobs(d, aged)
  <2>1. PICK aged \in SUBSET Jobs : RecoverAbandonedJobs(d, aged)
    BY <1>4
  <2>2. lease' = LeasesReleasedBy(Abandoned(HarnessAt(d)) \cap aged)
    BY <2>1 DEF RecoverAbandonedJobs
  <2>3. j \in Abandoned(HarnessAt(d)) \cap aged
    BY <2>2, LeaseKept
  <2> QED BY <2>1, <2>3
<1>5. CASE UnlinkLease(d)
  <2>1. lease' = [lease EXCEPT ![WorkspaceOf[current[d]]] = None]
    BY <1>5 DEF UnlinkLease
  <2> QED BY <1>1, <1>5, <2>1 DEF HasLease, TypeInv, TypeOK
<1>6. CASE SpawnFails(d) \/ IdentityNotWritten(d)
  <2>1. lease' = LeasesReleasedBy({Oldest(chosen[d])})
    BY <1>6 DEF SpawnFails, IdentityNotWritten
  <2>2. j \in {Oldest(chosen[d])}
    BY <2>1, LeaseKept
  <2> QED BY <1>6, <2>2
<1>7. ~AcquireLease(d)
  <2> SUFFICES ASSUME AcquireLease(d) PROVE FALSE
    OBVIOUS
  <2>1. /\ lease[WorkspaceOf[current[d]]] = None
        /\ lease' = [lease EXCEPT ![WorkspaceOf[current[d]]] = [owner |-> d, job |-> current[d]]]
    BY DEF AcquireLease
  <2> QED BY <1>1, <2>1 DEF HasLease, TypeInv, TypeOK
<1> QED
  BY <1>1, <1>2, <1>3, <1>4, <1>5, <1>6, <1>7
  DEF DaemonStep, Tick, StartDaemon, CrashDaemon, StopDaemon, ExitDaemon, TerminateWorker,
      ScanQueue, SkipDisabledHarness, FindStaleHarnessLock, UnlinkHarnessLock,
      AcquireHarnessLock, HarnessLockBusy, CountSlots, ReserveJob, FindStaleLease,
      LeaseRefused, ReleaseHarnessLock, RegisterWorker, SpawnWorker, FinishHarness, files

\* An engaged worker that is not barred was not before, and one that is was.
LEMMA BarredStays ==
    ASSUME TreeCovers, TypeInv, SuccessionInv, WorkersSeen, Next, NEW w \in Workers,
           Engaged(w), Engaged(w)'
    PROVE  Barred(w)' <=> Barred(w)
<1>1. CASE ~WorkerStep(w)
  BY <1>1, EngagedKept DEF Barred
<1>2. CASE WorkerStep(w)
  BY <1>2, OwnSteps DEF Barred, Engaged
<1> QED BY <1>1, <1>2

\* The daemon that starts a worker runs, so it is the only one.
LEMMA SpawnedByOne ==
    ASSUME TreeCovers, TypeInv, SuccessionInv, Next, NEW w \in Workers, SpawnedNow(w)
    PROVE  \E d \in Daemons :
              /\ w = <<d, Oldest(chosen[d])>> /\ w[2] \in chosen[d] /\ daemonPc[d] = "spawn"
              /\ IsNewChild(d, w)' /\ UNCHANGED <<lease, chosen, active>>
              /\ HasLease(w[2])
              /\ \A e \in Daemons \ {d} : /\ active[e] = {} /\ chosen[e] = {}
                                          /\ daemonPc'[e] = daemonPc[e]
                                          /\ daemonPc[e] \in {"off", "dead"}
                                          /\ ~Considers(e, w[2])'
<1>1. PICK d \in Daemons :
          /\ SpawnWorker(d) /\ w = <<d, Oldest(chosen[d])>>
          /\ Oldest(chosen[d]) \in chosen[d] /\ daemonPc[d] = "spawn"
  BY DEF SpawnedNow
<1>2. DaemonAlive(d) /\ DaemonStep(d)
  BY <1>1 DEF DaemonAlive, DaemonStep, Tick
<1>3. /\ UNCHANGED <<lease, chosen, active, queue, current>>
      /\ daemonPc' = [daemonPc EXCEPT ![d] = "identify"]
  BY <1>1 DEF SpawnWorker, files, Goto
<1>4. ASSUME NEW e \in Daemons \ {d}
      PROVE  /\ active[e] = {} /\ chosen[e] = {} /\ daemonPc'[e] = daemonPc[e]
             /\ daemonPc[e] \in {"off", "dead"} /\ ~Considers(e, w[2])'
  BY <1>2, <1>3, <1>4, OnlyOneConsiders DEF Considers, AtLease, TypeInv, TypeOK
<1>5. HasLease(w[2])
  BY <1>1 DEF SuccessionInv, ReservedInv
<1>6. IsNewChild(d, w)'
  BY <1>1, <1>3 DEF IsNewChild, TypeInv, TypeOK
<1> QED BY <1>1, <1>3, <1>4, <1>5, <1>6

\* Nobody takes the lease away from an engaged worker.
LEMMA EngagedLeaseStep ==
    ASSUME TreeCovers, TypeInv, SuccessionInv, WorkersSeen, Next
    PROVE  EngagedLeaseInv'
<1> SUFFICES ASSUME NEW w \in Workers, Engaged(w)', ~Barred(w)' PROVE HasLease(w[2])'
  BY DEF EngagedLeaseInv
<1>1. CASE SpawnedNow(w)
  BY <1>1, SpawnedByOne DEF HasLease
<1>2. CASE Engaged(w)
  <2> DEFINE j == w[2]
  <2>1. j \in Jobs /\ w = <<w[1], w[2]>> /\ ~Barred(w)
    BY <1>2, BarredStays DEF Workers
  <2>2. HasLease(j)
    BY <1>2, <2>1 DEF SuccessionInv, EngagedLeaseInv
  <2> SUFFICES ASSUME ~HasLease(j)' PROVE FALSE
    OBVIOUS
  <2>3. ASSUME NEW d \in Daemons, ReapWorker(d, j) PROVE FALSE
    <3>1. w = <<d, j>> /\ ~TreeAlive(w)
      BY <1>2, <2>1, <2>3 DEF SuccessionInv, ChildInv, ReapWorker
    <3> QED BY <1>2, <3>1 DEF TreeAlive, WorkerAlive, Engaged
  <2>4. ASSUME NEW d \in Daemons, NEW aged \in SUBSET Jobs, RecoverAbandonedJobs(d, aged),
               j \in Abandoned(HarnessAt(d)) \cap aged
        PROVE  FALSE
    <3>1. workerPc[w] \in {"boot", "lost"}
      BY <1>2, <2>4, Recovered, RecoverySpares
    <3>2. workerPc'[w] = workerPc[w] /\ status'[j] \in Terminal
      BY <2>4, Recovered
    <3> QED BY <3>1, <3>2 DEF Engaged, Terminal
  <2>5. ASSUME NEW d \in Daemons, UnlinkLease(d), WorkspaceOf[current[d]] = WorkspaceOf[j]
        PROVE  FALSE
    BY <1>2, <2>1, <2>5 DEF UnlinkLease, SuccessionInv, NotNeededInv
  <2>6. ASSUME NEW d \in Daemons, SpawnFails(d) \/ IdentityNotWritten(d), j = Oldest(chosen[d])
        PROVE  FALSE
    <3>1. j \in chosen[d]
      BY <2>6, OldestOfChosen
    <3>2. IsNewChild(d, w)
      BY <1>2, <2>1, <3>1 DEF SuccessionInv, ReservedInv
    <3>3. IdentityNotWritten(d) /\ w = <<d, j>>
      BY <2>6, <3>2 DEF IsNewChild, SpawnFails
    <3> QED BY <2>1, <3>3, <2>6, Terminated DEF IdentityNotWritten, Engaged
  <2> QED BY <2>1, <2>2, <2>3, <2>4, <2>5, <2>6, LeaseLost
<1> QED BY <1>1, <1>2, EngagedBefore

\* Nobody starts a worker beside one that is barred.
LEMMA BarredStep ==
    ASSUME TreeCovers, TypeInv, SuccessionInv, WorkersSeen, Next
    PROVE  BarredInv'
<1> SUFFICES ASSUME NEW w \in Workers, NEW d \in Daemons,
                    Engaged(w)', Barred(w)', Considers(d, w[2])'
             PROVE  IsNewChild(d, w)'
  BY DEF BarredInv
<1>1. CASE SpawnedNow(w)
  BY <1>1, SpawnedByOne
<1>2. CASE Engaged(w)
  <2>1. Barred(w) /\ w[2] \in Jobs
    BY <1>2, BarredStays DEF Workers
  <2>2. workerLock[w[2]] # None
    BY <1>2, <2>1 DEF Barred, SuccessionInv, LockFileInv
  <2>3. Considers(d, w[2])
    BY <2>1, <2>2, ConsideredBefore DEF QueuedJobs, Unclaimed
  <2>4. IsNewChild(d, w)
    BY <1>2, <2>1, <2>3 DEF SuccessionInv, BarredInv
  <2> QED BY <2>4, NewChildKept
<1> QED BY <1>1, <1>2, EngagedBefore

\* A reserved job keeps the lease and gets no worker but its own.
LEMMA ReservedStep ==
    ASSUME TreeCovers, TypeInv, SuccessionInv, WorkersSeen, Next
    PROVE  ReservedInv'
<1> SUFFICES ASSUME NEW d \in Daemons, NEW j \in chosen'[d]
             PROVE  /\ HasLease(j)'
                    /\ \A w \in Workers : w[2] = j /\ Engaged(w)' => IsNewChild(d, w)'
  BY DEF ReservedInv
<1>1. j \in Jobs
  <2>1. TypeInv'
    BY TypeNext
  <2> QED BY <2>1 DEF TypeInv, TypeOK
<1>2. CASE j \in chosen[d]
  <2>1. DaemonAlive(d) /\ daemonPc[d] \notin {"idle", "stopping", "recover"} /\ HasLease(j)
    BY <1>2 DEF SuccessionInv, MemoryInv, ReservedInv, DaemonAlive
  <2>2. \A e \in Daemons \ {d} : daemonPc[e] \in {"off", "dead"} /\ chosen[e] = {}
    BY <2>1, OnlyOneConsiders
  <2>3. HasLease(j)'
    <3> SUFFICES ASSUME ~HasLease(j)' PROVE FALSE
      OBVIOUS
    <3>1. ASSUME NEW e \in Daemons, daemonPc[e] \notin {"off", "dead"} PROVE e = d
      BY <2>2, <3>1
    <3>2. ASSUME NEW e \in Daemons, ReapWorker(e, j) PROVE FALSE
      BY <2>1, <3>1, <3>2 DEF ReapWorker
    <3>3. ASSUME NEW e \in Daemons, NEW aged \in SUBSET Jobs, RecoverAbandonedJobs(e, aged)
          PROVE  FALSE
      BY <2>1, <3>1, <3>3, Recovered
    <3>4. ASSUME NEW e \in Daemons, UnlinkLease(e), WorkspaceOf[current[e]] = WorkspaceOf[j]
          PROVE  FALSE
      BY <1>2, <3>1, <3>4 DEF UnlinkLease, SuccessionInv, MemoryInv, AtLease
    <3>5. ASSUME NEW e \in Daemons, SpawnFails(e) \/ IdentityNotWritten(e),
                 j = Oldest(chosen[e])
          PROVE  FALSE
      <4>1. e = d
        BY <3>1, <3>5 DEF SpawnFails, IdentityNotWritten
      <4>2. chosen' = [chosen EXCEPT ![d] = @ \ {j}]
        BY <3>5, <4>1 DEF SpawnFails, IdentityNotWritten
      <4> QED BY <4>2 DEF TypeInv, TypeOK
    <3> QED BY <1>1, <2>1, <3>2, <3>3, <3>4, <3>5, LeaseLost
  <2>4. ASSUME NEW w \in Workers, w[2] = j, Engaged(w)' PROVE IsNewChild(d, w)'
    <3>1. CASE SpawnedNow(w)
      BY <1>2, <2>4, <3>1, SpawnedByOne
    <3>2. CASE Engaged(w)
      <4>1. IsNewChild(d, w)
        BY <1>2, <2>4, <3>2 DEF SuccessionInv, ReservedInv
      <4>2. Considers(d, w[2])'
        BY <2>4 DEF Considers
      <4> QED BY <4>1, <4>2, NewChildKept
    <3> QED BY <2>4, <3>1, <3>2, EngagedBefore
  <2> QED BY <2>3, <2>4
<1>3. CASE AcquireLease(d) /\ j = current[d]
  <2>1. /\ daemonPc[d] \in {"lease", "create_lease"} /\ lease[WorkspaceOf[j]] = None
        /\ lease' = [lease EXCEPT ![WorkspaceOf[j]] = [owner |-> d, job |-> j]]
        /\ UNCHANGED <<status, workerPc>>
    BY <1>3 DEF AcquireLease
  <2>2. HasLease(j)'
    BY <1>1, <2>1, StateAssumption DEF HasLease, TypeInv, TypeOK, Lease
  <2>3. ASSUME NEW w \in Workers, w[2] = j, Engaged(w)' PROVE FALSE
    <3>1. Engaged(w) /\ ~HasLease(j) /\ Considers(d, j)
      BY <1>3, <2>1, <2>3 DEF Engaged, HasLease, Considers, AtLease
    <3>2. Barred(w)
      BY <2>3, <3>1 DEF SuccessionInv, EngagedLeaseInv
    <3> QED BY <2>1, <2>3, <3>1, <3>2 DEF SuccessionInv, BarredInv, IsNewChild
  <2> QED BY <2>2, <2>3
<1> QED BY <1>1, <1>2, <1>3, ReservedBefore

\* A daemon's child stays its own.
LEMMA ChildStep ==
    ASSUME TreeCovers, TypeInv, SuccessionInv, WorkersSeen, Next
    PROVE  ChildInv'
<1> SUFFICES ASSUME NEW d \in Daemons, NEW w \in Workers, w[2] \in active'[d], Engaged(w)'
             PROVE  w[1] = d
  BY DEF ChildInv
<1>1. w[2] \in Jobs
  BY DEF Workers
<1>2. CASE w[2] \in active[d]
  <2>1. CASE SpawnedNow(w)
    BY <1>2, <2>1, SpawnedByOne
  <2>2. CASE Engaged(w)
    BY <1>2, <2>2 DEF SuccessionInv, ChildInv
  <2> QED BY <2>1, <2>2, EngagedBefore
<1>3. CASE RegisterWorker(d) /\ w[2] = Oldest(chosen[d])
  <2>1. Engaged(w) /\ w[2] \in chosen[d]
    BY <1>3, OldestOfChosen DEF RegisterWorker, Engaged
  <2> QED BY <2>1 DEF SuccessionInv, ReservedInv, IsNewChild
<1> QED BY <1>1, <1>2, <1>3, ReservedBefore

\* A lease judged stale belongs to no engaged worker.
LEMMA JudgedStale ==
    ASSUME TreeCovers, TypeInv, SuccessionInv, WorkersSeen, GraceCovers, NEW d \in Daemons,
           FindStaleLease(d), NEW w \in Workers, Engaged(w), ~Barred(w),
           WorkspaceOf[w[2]] = WorkspaceOf[current[d]]
    PROVE  FALSE
<1> DEFINE j == w[2]
<1>1. HasLease(j) /\ j \in Jobs /\ w # None
  BY StateAssumption DEF SuccessionInv, EngagedLeaseInv, Workers
<1>2. PICK over \in BOOLEAN :
          /\ over => ~HandoffPending(j)
          /\ IsStaleLease(lease[WorkspaceOf[current[d]]], over)
          /\ lease[WorkspaceOf[current[d]]].job = j
  BY <1>1 DEF FindStaleLease, HasLease
<1>3. /\ ~JobTreeAlive(j)
      /\ \/ status[j] \in Terminal
         \/ WorkerLockPid(j) # None /\ ~WorkerAlive(WorkerLockPid(j))
         \/ WorkerLockPid(j) = None /\ over
  BY <1>2 DEF IsStaleLease
<1>4. ASSUME workerPc[w] \in {"claimed", "read", "exec", "orphan"}
      PROVE  WorkerLockPid(j) = w /\ w \in JobOwners(j)
  BY <1>1, <1>4 DEF SuccessionInv, LockFileInv, JobOwners, WorkerLockPid
<1>5. CASE workerPc[w] = "orphan" \/ (workerPc[w] \in {"read", "exec"} /\ status[j] \in Terminal)
  <2>1. identity[j] \in {None, w}
    BY <1>5 DEF WorkersSeen, FindStaleLease
  <2> QED BY <1>1, <1>3, <1>4, <1>5, <2>1 DEF JobTreeAlive, TreeAlive, WorkerAlive
<1>6. CASE workerPc[w] \in {"claimed", "read", "exec"} /\ status[j] \notin Terminal
  BY <1>1, <1>3, <1>4, <1>6 DEF WorkerAlive
<1>7. CASE workerPc[w] = "claimed" /\ status[j] \in Terminal
  BY <1>7 DEF Engaged, Terminal
<1>8. CASE workerPc[w] \in {"boot", "locked"}
  <2>1. status[j] = "queued" /\ HandoffPending(j)
    BY <1>8 DEF Engaged, HandoffPending
  <2>2. WorkerLockPid(j) = None
    BY <1>8 DEF Barred, SuccessionInv, LockFileInv, WorkerLockPid
  <2> QED BY <1>2, <1>3, <2>1, <2>2 DEF Terminal
<1> QED BY <1>5, <1>6, <1>7, <1>8 DEF Engaged, Barred

\* And none that will need it appears until it is unlinked.
LEMMA NotNeededStep ==
    ASSUME TreeCovers, TypeInv, SuccessionInv, WorkersSeen, GraceCovers, Next
    PROVE  NotNeededInv'
<1> SUFFICES ASSUME NEW d \in Daemons, daemonPc'[d] = "unlink_lease",
                    NEW w \in Workers, Engaged(w)', ~Barred(w)'
             PROVE  WorkspaceOf[w[2]] # WorkspaceOf[current'[d]]
  BY DEF NotNeededInv
<1>1. CASE FindStaleLease(d)
  <2>1. Engaged(w) /\ ~Barred(w) /\ UNCHANGED current
    BY <1>1 DEF FindStaleLease, files, Engaged, Barred
  <2> QED BY <1>1, <2>1, JudgedStale
<1>2. CASE daemonPc[d] = "unlink_lease" /\ current'[d] = current[d]
  <2>1. CASE SpawnedNow(w)
    BY <1>2, <2>1, SpawnedByOne
  <2>2. CASE Engaged(w)
    BY <1>2, <2>2, BarredStays DEF SuccessionInv, NotNeededInv
  <2> QED BY <2>1, <2>2, EngagedBefore
<1>3. Jobs # {} /\ (FindStaleLease(d) \/ (daemonPc[d] = "unlink_lease" /\ current'[d] = current[d]))
  BY ReservedBefore DEF Workers
<1> QED BY <1>1, <1>2, <1>3

LEMMA SuccessionInit == Init => SuccessionInv
<1> SUFFICES ASSUME Init PROVE SuccessionInv
  OBVIOUS
<1>1. /\ \A w \in Workers : workerPc[w] = "none" /\ w[2] \in Jobs
      /\ \A j \in Jobs : status[j] = "absent" /\ recordedPid[j] = None
      /\ ran = {}
      /\ \A d \in Daemons : /\ daemonPc[d] = "off" /\ queue[d] = {}
                            /\ chosen[d] = {} /\ active[d] = {}
      /\ \A d \in Daemons, j \in Jobs : workerPc[<<d, j>>] = "none"
  BY DEF Init, InitQueueState, InitDaemon, InitWorker, Workers
<1>2. \A w \in Workers : ~Engaged(w)
  BY <1>1 DEF Engaged
<1>3. AloneInv /\ MemoryInv /\ SubmittedInv
  BY <1>1 DEF AloneInv, MemoryInv, SubmittedInv, DaemonAlive, Considers, AtLease
<1>4. SoleInv /\ LockFileInv /\ EngagedLeaseInv /\ BarredInv /\ ChildInv /\ NotNeededInv
  BY <1>2 DEF SoleInv, LockFileInv, EngagedLeaseInv, BarredInv, ChildInv, NotNeededInv
<1>5. BegunInv /\ ReservedInv /\ FirstInv /\ RunsAtMostOnce
  BY <1>1 DEF BegunInv, ReservedInv, FirstInv, RunsAtMostOnce
<1> QED BY <1>3, <1>4, <1>5 DEF SuccessionInv

LEMMA SuccessionStutters ==
    ASSUME SuccessionInv, UNCHANGED vars
    PROVE  SuccessionInv'
<1> USE DEF vars, files, daemonVars
<1>1. /\ \A w : Engaged(w)' <=> Engaged(w)
      /\ \A w : Barred(w)' <=> Barred(w)
      /\ \A j : HasLease(j)' <=> HasLease(j)
      /\ \A d, j : Considers(d, j)' <=> Considers(d, j)
      /\ \A d, w : IsNewChild(d, w)' <=> IsNewChild(d, w)
      /\ \A d : DaemonAlive(d)' <=> DaemonAlive(d)
      /\ \A d : AtLease(d)' <=> AtLease(d)
  BY DEF Engaged, Barred, HasLease, Considers, AtLease, IsNewChild, DaemonAlive
<1>2. AloneInv' /\ MemoryInv' /\ SubmittedInv'
  BY <1>1 DEF SuccessionInv, AloneInv, MemoryInv, SubmittedInv
<1>3. SoleInv' /\ LockFileInv' /\ EngagedLeaseInv' /\ BarredInv' /\ ChildInv' /\ NotNeededInv'
  BY <1>1 DEF SuccessionInv, SoleInv, LockFileInv, EngagedLeaseInv, BarredInv, ChildInv,
              NotNeededInv
<1>4. BegunInv' /\ ReservedInv' /\ FirstInv' /\ RunsAtMostOnce'
  BY <1>1 DEF SuccessionInv, BegunInv, ReservedInv, FirstInv, RunsAtMostOnce
<1> QED BY <1>2, <1>3, <1>4 DEF SuccessionInv

\* With the workers in sight every step keeps the invariant.
LEMMA SuccessionStep ==
    ASSUME ~Concurrent, GraceCovers, TreeCovers, TypeInv, SuccessionInv,
           WorkersSeen, [Next]_vars
    PROVE  SuccessionInv'
<1>1. CASE UNCHANGED vars
  BY <1>1, SuccessionStutters
<1>2. CASE Next
  <2>1. AloneInv' /\ MemoryInv' /\ SubmittedInv' /\ SoleInv' /\ BegunInv' /\ LockFileInv'
    BY <1>2, AloneStep, MemoryStep, SubmittedStep, SoleStep, BegunStep, LockFileStep
    DEF SuccessionInv
  <2>2. EngagedLeaseInv' /\ BarredInv' /\ ReservedInv' /\ ChildInv' /\ NotNeededInv'
    BY <1>2, EngagedLeaseStep, BarredStep, ReservedStep, ChildStep, NotNeededStep
  <2>3. FirstInv' /\ RunsAtMostOnce'
    BY <1>2, FirstStep
  <2> QED BY <2>1, <2>2, <2>3 DEF SuccessionInv
<1> QED BY <1>1, <1>2

LEMMA SuccessionHolds ==
    ASSUME ~Concurrent, GraceCovers, TreeCovers
    PROVE  Spec /\ []WorkersSeen => [](TypeInv /\ SuccessionInv)
<1>1. Init => TypeInv /\ SuccessionInv
  BY TypeInit, SuccessionInit
<1>2. TypeInv /\ SuccessionInv /\ WorkersSeen /\ [Next]_vars => TypeInv' /\ SuccessionInv'
  BY TypeNext, SuccessionStep
<1> QED BY <1>1, <1>2, PTL DEF Spec

\* A prompt at work is engaged: it has the lease, and no other is of its job.
LEMMA SuccessionSafe ==
    ASSUME TypeInv, SuccessionInv
    PROVE  LeaseProtectsExecution /\ WorkspaceExclusive /\ RunsAtMostOnce
<1>1. ASSUME NEW w \in Workers, Executing(w) PROVE Engaged(w) /\ HasLease(w[2])
  BY <1>1 DEF Executing, Engaged, Barred, SuccessionInv, EngagedLeaseInv
<1>2. LeaseProtectsExecution
  BY <1>1 DEF LeaseProtectsExecution, HasLease
<1>3. ASSUME NEW v \in Workers, NEW w \in Workers, v # w, Executing(v), Executing(w)
      PROVE  WorkspaceOf[v[2]] # WorkspaceOf[w[2]]
  <2>1. v[2] # w[2]
    BY <1>1, <1>3 DEF SuccessionInv, SoleInv, Executing
  <2> QED BY <1>1, <1>3, <2>1 DEF HasLease
<1> QED BY <1>2, <1>3 DEF WorkspaceExclusive, SuccessionInv

(***************************************************************************)
(* When the workers are in sight                                           *)
(***************************************************************************)
\* The identity file of a job names a worker a daemon started; one that names
\* another worker than the one engaged was left by a daemon that is dead, and
\* the daemon that started the engaged one did not get to write it.
IdentityInv ==
    /\ \A j \in Jobs : identity[j] # None =>
          identity[j] \in Workers /\ identity[j][2] = j /\ daemonPc[identity[j][1]] # "off"
    /\ \A w \in Workers : Engaged(w) =>
          \/ identity[w[2]] \in {None, w}
          \/ /\ \A e \in Daemons \ {w[1]} : daemonPc[e] = "dead"
             /\ daemonPc[w[1]] \in {"stopping", "dead"} \/ IsNewChild(w[1], w)

LEMMA IdentitySees == IdentityInv => WorkersSeen
<1> SUFFICES ASSUME IdentityInv, NEW d \in Daemons, daemonPc[d] \in {"recover", "lease"},
                    NEW w \in Workers, workerPc[w] \in {"read", "exec", "orphan"}
             PROVE  identity[w[2]] \in {None, w}
  BY DEF WorkersSeen
<1>1. Engaged(w)
  BY DEF Engaged
<1> QED BY <1>1 DEF IdentityInv, IsNewChild

\* No daemon is off again, and none that is dead takes a step.
LEMMA NeverOffAgain ==
    ASSUME TypeInv, Next, NEW e \in Daemons
    PROVE  /\ daemonPc[e] # "off" => daemonPc'[e] # "off"
           /\ daemonPc[e] = "dead" => daemonPc'[e] = "dead"
           /\ daemonPc[e] = "stopping" => daemonPc'[e] \in {"stopping", "dead"}
<1> USE DEF TypeInv, TypeOK, Goto
<1>1. ASSUME NEW d \in Daemons \ {e}, DaemonStep(d) PROVE daemonPc'[e] = daemonPc[e]
  BY <1>1, MemoryOfOthers
<1>2. CASE UNCHANGED daemonVars
  BY <1>2 DEF daemonVars
<1>3. CASE DaemonStep(e)
  <2>1. daemonPc[e] # "dead" /\ \E label \in DaemonPcs \ {"off"} :
            daemonPc' = [daemonPc EXCEPT ![e] = label]
            /\ (daemonPc[e] = "stopping" => label \in {"stopping", "dead"})
    <3>1. CASE StartDaemon(e) \/ CrashDaemon(e) \/ StopDaemon(e) \/ ExitDaemon(e)
      BY <3>1 DEF StartDaemon, CrashDaemon, StopDaemon, ExitDaemon, DaemonAlive, DaemonPcs
    <3>2. CASE \E j \in Jobs : TerminateWorker(e, j) \/ ReapWorker(e, j)
      BY <3>2 DEF TerminateWorker, ReapWorker, daemonVars
    <3>3. CASE Tick(e)
      <4>1. DaemonAlive(e) /\ daemonPc[e] # "stopping"
        BY <3>3
        DEF Tick, ScanQueue, SkipDisabledHarness,
            FindStaleHarnessLock, UnlinkHarnessLock, AcquireHarnessLock, HarnessLockBusy,
            CountSlots, ReserveJob, FindStaleLease, UnlinkLease, RecoverAbandonedJobs,
            AcquireLease, LeaseRefused, ReleaseHarnessLock, RegisterWorker, SpawnWorker,
            IdentityNotWritten, SpawnFails, FinishHarness, DaemonAlive
      <4>2. daemonPc' = daemonPc \/ \E label \in DaemonPcs \ {"off"} :
                daemonPc' = [daemonPc EXCEPT ![e] = label]
        BY <3>3
        DEF Tick, ScanQueue, SkipDisabledHarness,
            FindStaleHarnessLock, UnlinkHarnessLock, AcquireHarnessLock, HarnessLockBusy,
            CountSlots, ReserveJob, FindStaleLease, UnlinkLease, RecoverAbandonedJobs,
            AcquireLease, LeaseRefused, ReleaseHarnessLock, RegisterWorker, SpawnWorker,
            IdentityNotWritten, SpawnFails, FinishHarness, NextHarness, DaemonPcs, CriticalSection
      <4> QED BY <4>1, <4>2 DEF DaemonAlive
    <3> QED BY <1>3, <3>1, <3>2, <3>3 DEF DaemonStep
  <2> QED BY <2>1
<1> QED BY <1>1, <1>2, <1>3 DEF Next

\* The identity file of a job changes when its worker is registered.
LEMMA IdentityChanges ==
    ASSUME TypeInv, Next, NEW j \in Jobs, identity'[j] # identity[j]
    PROVE  \E d \in Daemons : /\ RegisterWorker(d) /\ j = Oldest(chosen[d])
                              /\ identity'[j] = <<d, j>>
<1>1. PICK d \in Daemons : DaemonStep(d)
  BY WorkerSteps DEF Next, ControlStep, StartTask, CheckCancel, WriteCancelled, files
<1>2. RegisterWorker(d)
  BY <1>1
  DEF DaemonStep, Tick, StartDaemon, CrashDaemon, StopDaemon, ExitDaemon, TerminateWorker,
      ReapWorker, ScanQueue, SkipDisabledHarness, FindStaleHarnessLock, UnlinkHarnessLock,
      AcquireHarnessLock, HarnessLockBusy, CountSlots, ReserveJob, FindStaleLease, UnlinkLease,
      AcquireLease, RecoverAbandonedJobs, LeaseRefused, ReleaseHarnessLock, SpawnWorker,
      IdentityNotWritten, SpawnFails, FinishHarness, files
<1> DEFINE k == Oldest(chosen[d])
<1>3. identity' = [identity EXCEPT ![k] = <<d, k>>]
  BY <1>2 DEF RegisterWorker
<1> HIDE DEF k
<1>4. j = k /\ identity'[j] = <<d, j>>
  BY <1>3 DEF TypeInv, TypeOK
<1> QED BY <1>2, <1>4 DEF k

\* Where a child's identity is always written, a new child stays one until it
\* is named, or its daemon ends.
LEMMA NewChildEnds ==
    ASSUME TreeCovers, TypeInv, SuccessionInv, Next, MaxFaults["identity"] = 0,
           NEW d \in Daemons, NEW w \in Workers, IsNewChild(d, w)
    PROVE  \/ IsNewChild(d, w)'
           \/ identity'[w[2]] = w
           \/ daemonPc'[d] \in {"stopping", "dead"}
<1> USE DEF TypeInv, TypeOK, Goto
<1>1. w[2] \in Jobs /\ w = <<d, w[2]>> /\ w[2] = Oldest(chosen[d]) /\ daemonPc[d] = "identify"
  BY DEF IsNewChild, Workers
<1>2. ASSUME NEW e \in Daemons \ {d}, DaemonStep(e) PROVE IsNewChild(d, w)'
  BY <1>2, MemoryOfOthers DEF IsNewChild
<1>3. CASE UNCHANGED daemonVars
  BY <1>3 DEF daemonVars, IsNewChild
<1>4. CASE DaemonStep(d)
  <2>1. ~Fault("identity")
    <3>1. faults["identity"] \in Nat
      BY DEF FaultKinds
    <3> QED BY <3>1 DEF Fault
  <2>2. CASE CrashDaemon(d) \/ StopDaemon(d)
    BY <2>2 DEF CrashDaemon, StopDaemon
  <2>3. CASE RegisterWorker(d)
    <3>1. identity' = [identity EXCEPT ![w[2]] = w]
      BY <1>1, <2>1, <2>3 DEF RegisterWorker
    <3> QED BY <1>1, <3>1
  <2>4. CASE \E k \in Jobs : TerminateWorker(d, k) \/ ReapWorker(d, k)
    BY <1>1, <2>4 DEF TerminateWorker, ReapWorker
  <2> QED
    BY <1>1, <1>4, <2>1, <2>2, <2>3, <2>4
    DEF DaemonStep, Tick, StartDaemon, ExitDaemon, ScanQueue, SkipDisabledHarness,
        FindStaleHarnessLock, UnlinkHarnessLock, AcquireHarnessLock, HarnessLockBusy,
        CountSlots, ReserveJob, FindStaleLease, UnlinkLease, RecoverAbandonedJobs,
        AcquireLease, LeaseRefused, ReleaseHarnessLock, SpawnWorker, IdentityNotWritten,
        SpawnFails, FinishHarness
<1> QED BY <1>2, <1>3, <1>4 DEF Next

\* Two daemons, one after the other.
LEMMA IdentityStep ==
    ASSUME NEW c, NEW d, Daemons = {c, d}, TreeCovers, MaxFaults["identity"] = 0,
           TypeInv, SuccessionInv, IdentityInv, Next
    PROVE  IdentityInv'
<1>1. ASSUME NEW j \in Jobs, identity'[j] # None
      PROVE  identity'[j] \in Workers /\ identity'[j][2] = j /\ daemonPc'[identity'[j][1]] # "off"
  <2>1. CASE identity'[j] = identity[j]
    <3>1. identity[j] \in Workers /\ identity[j][2] = j /\ daemonPc[identity[j][1]] # "off"
      BY <1>1, <2>1 DEF IdentityInv
    <3>2. identity[j][1] \in Daemons
      BY <3>1 DEF Workers
    <3> QED BY <2>1, <3>1, <3>2, NeverOffAgain
  <2>2. CASE identity'[j] # identity[j]
    <3>1. PICK e \in Daemons : RegisterWorker(e) /\ identity'[j] = <<e, j>>
      BY <2>2, IdentityChanges
    <3>2. daemonPc'[e] = "spawn"
      BY <3>1 DEF RegisterWorker, Goto, TypeInv, TypeOK
    <3> QED BY <3>1, <3>2 DEF Workers
  <2> QED BY <2>1, <2>2
<1>2. ASSUME NEW w \in Workers, Engaged(w)', identity'[w[2]] \notin {None, w}
      PROVE  /\ \A e \in Daemons \ {w[1]} : daemonPc'[e] = "dead"
             /\ daemonPc'[w[1]] \in {"stopping", "dead"} \/ IsNewChild(w[1], w)'
  <2>1. w[2] \in Jobs /\ w[1] \in Daemons /\ w = <<w[1], w[2]>>
    BY DEF Workers
  <2>2. CASE SpawnedNow(w)
    <3>1. /\ IsNewChild(w[1], w)' /\ UNCHANGED identity
          /\ \A e \in Daemons \ {w[1]} : daemonPc[e] \in {"off", "dead"}
                                         /\ daemonPc'[e] = daemonPc[e]
      <4>1. UNCHANGED identity
        BY <2>2 DEF SpawnedNow, SpawnWorker, files
      <4>2. PICK e \in Daemons :
                /\ w[1] = e /\ IsNewChild(e, w)'
                /\ \A a \in Daemons \ {e} : /\ daemonPc[a] \in {"off", "dead"}
                                            /\ daemonPc'[a] = daemonPc[a]
        BY <2>2, SpawnedByOne
      <4> QED BY <4>1, <4>2
    <3>2. PICK v : v = identity[w[2]] /\ v \in Workers /\ v[2] = w[2] /\ v # w
                   /\ daemonPc[v[1]] # "off"
      BY <1>2, <2>1, <3>1 DEF IdentityInv
    <3>3. v[1] # w[1] /\ v[1] \in Daemons
      BY <2>1, <3>2 DEF Workers
    <3>4. daemonPc'[v[1]] = "dead" /\ Daemons \ {w[1]} = {v[1]}
      BY <2>1, <3>1, <3>2, <3>3
    <3> QED BY <3>1, <3>4
  <2>3. CASE Engaged(w)
    <3>1. identity'[w[2]] = identity[w[2]]
      <4> SUFFICES ASSUME identity'[w[2]] # identity[w[2]] PROVE FALSE
        OBVIOUS
      <4>1. PICK e \in Daemons : /\ RegisterWorker(e) /\ w[2] = Oldest(chosen[e])
                                 /\ identity'[w[2]] = <<e, w[2]>>
        BY <2>1, IdentityChanges
      <4>2. IsNewChild(e, w)
        BY <2>3, <4>1, OldestOfChosen DEF SuccessionInv, ReservedInv
      <4> QED BY <1>2, <4>1, <4>2 DEF IsNewChild
    <3>2. /\ \A e \in Daemons \ {w[1]} : daemonPc[e] = "dead"
          /\ daemonPc[w[1]] \in {"stopping", "dead"} \/ IsNewChild(w[1], w)
      BY <1>2, <2>3, <3>1 DEF IdentityInv
    <3>3. \A e \in Daemons \ {w[1]} : daemonPc'[e] = "dead"
      BY <3>2, NeverOffAgain
    <3>4. CASE daemonPc[w[1]] \in {"stopping", "dead"}
      BY <2>1, <3>3, <3>4, NeverOffAgain
    <3>5. CASE IsNewChild(w[1], w)
      BY <1>2, <2>1, <3>3, <3>5, NewChildEnds
    <3> QED BY <3>2, <3>4, <3>5
  <2>4. SuccessionInv /\ (Engaged(w) \/ SpawnedNow(w))
    BY <1>2, EngagedBefore
  <2> QED BY <2>2, <2>3, <2>4
<1> QED BY <1>1, <1>2 DEF IdentityInv

\* With two daemons one after the other, and where the identity of every child
\* is written before the next is started, a worker is always in sight.
LEMMA TwoDaemonsSee ==
    ASSUME NEW c, NEW d, Daemons = {c, d}, ~Concurrent, GraceCovers, TreeCovers,
           MaxFaults["identity"] = 0
    PROVE  Spec => []WorkersSeen
<1>1. Init => TypeInv /\ SuccessionInv /\ IdentityInv
  <2>1. Init => IdentityInv
    BY DEF Init, InitQueueState, IdentityInv, Engaged
  <2> QED BY <2>1, TypeInit, SuccessionInit
<1>2. TypeInv /\ SuccessionInv /\ IdentityInv /\ [Next]_vars =>
          TypeInv' /\ SuccessionInv' /\ IdentityInv'
  <2> SUFFICES ASSUME TreeCovers, TypeInv, SuccessionInv, IdentityInv, [Next]_vars
               PROVE  TypeInv' /\ SuccessionInv' /\ IdentityInv'
    OBVIOUS
  <2>1. TypeInv' /\ SuccessionInv'
    BY TypeNext, IdentitySees, SuccessionStep
  <2> SUFFICES IdentityInv'
    BY <2>1
  <2>2. CASE UNCHANGED vars
    BY <2>2 DEF vars, files, daemonVars, IdentityInv, Engaged, IsNewChild
  <2>3. CASE Next
    BY <2>3, IdentityStep
  <2> QED BY <2>1, <2>2, <2>3
<1> QED BY <1>1, <1>2, IdentitySees, PTL DEF Spec

(***************************************************************************)
(* What a submitter can tell, across restarts                              *)
(***************************************************************************)
\* The record of a job follows the worker at work on it, whoever started it,
\* and there is nothing of a job nobody has submitted.
RecordInv ==
    /\ \A w \in Workers :
          /\ workerPc[w] = "read" => status[w[2]] = "queued"
          /\ Executing(w) => status[w[2]] = "running" /\ w \in ran
    /\ \A j \in Jobs : status[j] = "absent" =>
          workerLock[j] = None /\ \A d \in Daemons : j \notin active[d]
    /\ \A j \in Jobs : cancel[j] = "none"

LEMMA RecordSteps ==
    ASSUME Next, Cancellable = {}, RecordInv
    PROVE  /\ \A j \in Jobs : ~WriteCancelled(j) /\ cancel'[j] = "none"
           /\ \/ UNCHANGED ran
              \/ \E w \in Workers : WorkerStep(w)
<1>1. \A j \in Jobs : ~WriteCancelled(j) /\ ~CheckCancel(j)
  BY DEF RecordInv, WriteCancelled, CheckCancel
<1>2. ASSUME NEW j \in Jobs, ControlStep(j) PROVE UNCHANGED cancel
  BY <1>1, <1>2 DEF ControlStep, StartTask
<1> QED BY <1>1, <1>2 DEF Next, RecordInv

\* Of a job that is absent nothing appears before it is submitted.
LEMMA NothingAppears ==
    ASSUME TreeCovers, TypeInv, SuccessionInv,
           RecordInv, Next, NEW j \in Jobs, status'[j] = "absent"
    PROVE  workerLock'[j] = None /\ \A d \in Daemons : j \notin active'[d]
<1>1. status[j] = "absent"
  BY QueuedBefore
<1>2. /\ workerLock[j] = None
      /\ \A d \in Daemons : /\ j \notin active[d] /\ workerPc[<<d, j>>] = "none"
                            /\ ~Considers(d, j)
  BY <1>1 DEF RecordInv, SuccessionInv, SubmittedInv
<1>3. ASSUME NEW d \in Daemons PROVE j \notin active'[d]
  BY <1>2, OldestOfChosen, ReservedBefore DEF Considers
<1>4. workerLock'[j] = None
  <2>1. ASSUME NEW w \in Workers, WorkerStep(w) PROVE workerLock'[j] = None
    <3>1. workerPc[w] # "none" /\ w = <<w[1], w[2]>> /\ w[1] \in Daemons
      BY <2>1, OwnSteps DEF Workers
    <3>2. w[2] # j
      BY <1>2, <3>1
    <3> QED BY <1>2, <2>1, <3>2, WorkerSteps
  <2>2. ASSUME NEW k \in Jobs, ControlStep(k) PROVE workerLock'[j] = None
    BY <1>2, <2>2 DEF ControlStep, StartTask, CheckCancel, WriteCancelled, files
  <2>3. ASSUME NEW d \in Daemons, DaemonStep(d) PROVE workerLock'[j] = None
    <3>1. ASSUME NEW k \in Jobs, TerminateTree(d, k) PROVE workerLock'[j] = None
      BY <1>2, <3>1 DEF TerminateTree, TypeInv, TypeOK
    <3>2. ASSUME IdentityNotWritten(d) PROVE workerLock'[j] = None
      BY <3>1, <3>2, OldestOfChosen DEF IdentityNotWritten
    <3>3. ASSUME NEW aged \in SUBSET Jobs, RecoverAbandonedJobs(d, aged)
          PROVE  workerLock'[j] = None
      BY <1>2, <3>3 DEF RecoverAbandonedJobs
    <3> QED
      BY <1>2, <2>3, <3>1, <3>2, <3>3, DaemonKindsOfAll
      DEF SpawnWorker, ReapWorker, TerminateWorker, files
  <2> QED BY <2>1, <2>2, <2>3 DEF Next
<1> QED BY <1>3, <1>4

LEMMA RecordStep ==
    ASSUME TreeCovers, Cancellable = {}, TypeInv, SuccessionInv, WorkersSeen, RecordInv, Next
    PROVE  RecordInv'
<1>1. ASSUME NEW w \in Workers, workerPc'[w] \in {"read", "exec", "orphan"}
      PROVE  /\ workerPc'[w] = "read" => status'[w[2]] = "queued"
             /\ workerPc'[w] # "read" => status'[w[2]] = "running" /\ w \in ran'
  <2>1. Engaged(w)' /\ ~SpawnedNow(w)
    BY <1>1 DEF Engaged, SpawnedNow
  <2>2. Engaged(w) /\ w[2] \in Jobs
    BY <2>1, EngagedBefore DEF Workers
  <2>3. w \in ran => w \in ran'
    BY RecordSteps, OwnSteps
  <2>4. CASE WorkerStep(w)
    BY <1>1, <2>3, <2>4, OwnSteps DEF RecordInv, Executing
  <2>5. CASE ~WorkerStep(w)
    <3>1. workerPc'[w] = workerPc[w] /\ status'[w[2]] = status[w[2]]
      BY <2>1, <2>2, <2>5, EngagedKept, RecordSteps
    <3> QED BY <1>1, <2>3, <3>1 DEF RecordInv, Executing
  <2> QED BY <2>4, <2>5
<1> QED BY <1>1, NothingAppears, RecordSteps DEF RecordInv, Executing

LEMMA RecordHolds ==
    ASSUME ~Concurrent, GraceCovers, TreeCovers, Cancellable = {}
    PROVE  Spec /\ []WorkersSeen => [](TypeInv /\ SuccessionInv /\ RecordInv)
<1>1. Init => RecordInv
  BY DEF Init, InitQueueState, InitDaemon, InitWorker, InitControl, RecordInv, Executing
<1>2. TypeInv /\ SuccessionInv /\ WorkersSeen /\ RecordInv /\ [Next]_vars => RecordInv'
  <2> SUFFICES ASSUME TreeCovers, TypeInv, SuccessionInv, WorkersSeen, RecordInv, [Next]_vars
               PROVE  RecordInv'
    OBVIOUS
  <2>1. CASE UNCHANGED vars
    BY <2>1 DEF vars, files, daemonVars, RecordInv, Executing
  <2>2. CASE Next
    BY <2>2, RecordStep
  <2> QED BY <2>1, <2>2
<1> QED BY <1>1, <1>2, SuccessionHolds, PTL DEF Spec

\* A job somebody works on, one that somebody has worked on, and what a
\* submitter can tell of a job by them.
Works(j) == \E w \in Workers : w[2] = j /\ Executing(w)

Begun(j) == \E w \in ran : w[2] = j

Stage(j) ==
    IF Works(j) THEN "working"
    ELSE IF status[j] = "absent" THEN "absent"
    ELSE IF status[j] \in Terminal \/ Begun(j) THEN "over"
    ELSE "waiting"

LEMMA StageOfJob ==
    ASSUME RecordInv, NEW j \in Jobs
    PROVE  JobPhase[j] = Stage(j)
<1>1. Works(j) => status[j] # "absent"
  BY DEF Works, RecordInv
<1> QED BY <1>1 DEF JobPhase, Stage, Works, Begun

LEMMA StageOfJobAfter ==
    ASSUME RecordInv', NEW j \in Jobs
    PROVE  JobPhase'[j] = Stage(j)'
<1>1. Works(j)' => status'[j] # "absent"
  BY DEF Works, RecordInv
<1> QED BY <1>1 DEF JobPhase, Stage, Works, Begun

\* A step that takes one job on from one stage to the next is one of the
\* service; so is one that closes jobs nobody has worked on.
LEMMA OneStage ==
    ASSUME RecordInv, RecordInv', NEW j \in Jobs,
           \A k \in Jobs \ {j} : Stage(k)' = Stage(k),
           \/ Stage(j)' = Stage(j)
           \/ Stage(j) = "absent" /\ Stage(j)' = "waiting"
           \/ /\ Stage(j) = "waiting" /\ Stage(j)' = "working"
              /\ \A k \in Jobs : Stage(k) = "working" => WorkspaceOf[k] # WorkspaceOf[j]
           \/ Stage(j) \in {"working", "waiting"} /\ Stage(j)' = "over"
    PROVE  Service!Next \/ UNCHANGED JobPhase
<1>1. \A k \in Jobs : JobPhase[k] = Stage(k) /\ JobPhase'[k] = Stage(k)'
  BY StageOfJob, StageOfJobAfter
<1>2. /\ JobPhase' = [k \in Jobs |-> JobPhase'[k]]
      /\ JobPhase = [k \in Jobs |-> JobPhase[k]]
  BY DEF JobPhase
<1>3. JobPhase' = [JobPhase EXCEPT ![j] = Stage(j)']
  <2>1. \A k \in Jobs : JobPhase'[k] = IF k = j THEN Stage(j)' ELSE JobPhase[k]
    BY <1>1
  <2>2. [JobPhase EXCEPT ![j] = Stage(j)'] =
        [k \in Jobs |-> IF k = j THEN Stage(j)' ELSE JobPhase[k]]
    BY <1>2
  <2> QED BY <1>2, <2>1, <2>2
<1>4. CASE Stage(j)' = Stage(j)
  <2>1. \A k \in Jobs : JobPhase'[k] = JobPhase[k]
    BY <1>1, <1>4
  <2> QED BY <1>2, <2>1
<1>5. CASE Stage(j) = "absent" /\ Stage(j)' = "waiting"
  BY <1>1, <1>3, <1>5 DEF Service!Next, Service!Submit
<1>6. CASE /\ Stage(j) = "waiting" /\ Stage(j)' = "working"
           /\ \A k \in Jobs : Stage(k) = "working" => WorkspaceOf[k] # WorkspaceOf[j]
  BY <1>1, <1>3, <1>6 DEF Service!Next, Service!Begin
<1>7. CASE Stage(j) = "working" /\ Stage(j)' = "over"
  BY <1>1, <1>3, <1>7 DEF Service!Next, Service!End
<1>8. CASE Stage(j) = "waiting" /\ Stage(j)' = "over"
  <2> DEFINE S == {j}
  <2>1. S \in SUBSET Jobs
    OBVIOUS
  <2>2. \A k \in Jobs : JobPhase'[k] = IF k \in S THEN "over" ELSE JobPhase[k]
    BY <1>1, <1>8
  <2>3. JobPhase' = [k \in Jobs |-> IF k \in S THEN "over" ELSE JobPhase[k]]
    BY <1>2, <2>2
  <2>4. Service!Drop(S)
    BY <1>1, <1>8, <2>3 DEF Service!Drop
  <2> QED BY <2>1, <2>4 DEF Service!Next
<1> QED BY <1>4, <1>5, <1>6, <1>7, <1>8

LEMMA StagesDropped ==
    ASSUME RecordInv, RecordInv', NEW S \in SUBSET Jobs,
           \A k \in Jobs \ S : Stage(k)' = Stage(k),
           \A k \in S : Stage(k) \in {"waiting", "over"} /\ Stage(k)' = "over"
    PROVE  Service!Next
<1> DEFINE T == {k \in S : Stage(k) = "waiting"}
<1>1. \A k \in Jobs : JobPhase[k] = Stage(k) /\ JobPhase'[k] = Stage(k)'
  BY StageOfJob, StageOfJobAfter
<1>2. \A k \in Jobs : JobPhase'[k] = IF k \in T THEN "over" ELSE JobPhase[k]
  BY <1>1
<1>3. T \in SUBSET Jobs /\ \A k \in T : JobPhase[k] = "waiting"
  BY <1>1
<1> HIDE DEF T
<1>4. JobPhase' = [k \in Jobs |-> IF k \in T THEN "over" ELSE JobPhase[k]]
  <2>1. JobPhase' = [k \in Jobs |-> JobPhase'[k]]
    BY DEF JobPhase
  <2> QED BY <1>2, <2>1
<1>5. Service!Drop(T)
  BY <1>3, <1>4 DEF Service!Drop
<1> QED BY <1>3, <1>5 DEF Service!Next

\* A job whose record, workers at work and history stay as they are.
LEMMA SameStage ==
    ASSUME NEW j, status'[j] = status[j],
           \A w \in Workers : w[2] = j => (Executing(w)' <=> Executing(w)),
           Begun(j)' <=> Begun(j)
    PROVE  Stage(j)' = Stage(j)
BY DEF Stage, Works

\* A job with nobody at work whose record is closed.
LEMMA ClosedStage ==
    ASSUME TypeInv, NEW j \in Jobs, status[j] # "absent", ~Works(j), ~Works(j)',
           status'[j] \in Terminal
    PROVE  Stage(j) \in {"waiting", "over"} /\ Stage(j)' = "over"
BY DEF Stage, Terminal

\* The prompt of the only worker at work on a job ends.
LEMMA EndedStage ==
    ASSUME SuccessionInv, NEW w \in Workers, Executing(w), w \in ran', ~Executing(w)',
           \A v \in Workers \ {w} : workerPc'[v] = workerPc[v],
           status'[w[2]] # "absent"
    PROVE  Stage(w[2]) = "working" /\ Stage(w[2])' = "over"
<1>1. Works(w[2])
  BY DEF Works
<1>2. \A v \in Workers : v[2] = w[2] /\ v # w => ~Executing(v)'
  BY DEF SuccessionInv, SoleInv, Engaged, Executing
<1>3. ~Works(w[2])' /\ Begun(w[2])'
  BY <1>2 DEF Works, Begun
<1> QED BY <1>1, <1>3 DEF Stage

\* A worker of the service: it begins its job, ends it, or closes it before.
LEMMA WorkerServes ==
    ASSUME TreeCovers, TypeInv, SuccessionInv,
           RecordInv, RecordInv', NEW w \in Workers, WorkerStep(w)
    PROVE  Service!Next \/ UNCHANGED JobPhase
<1> DEFINE j == w[2]
<1>1. j \in Jobs /\ w = <<w[1], j>> /\ w[1] \in Daemons
  BY DEF Workers
<1>2. /\ \A v \in Workers \ {w} : workerPc'[v] = workerPc[v]
      /\ \A k \in Jobs \ {j} : status'[k] = status[k]
  BY WorkerSteps
<1>3. ran' = ran \/ ran' = ran \cup {w}
  BY OwnSteps
<1>4. ASSUME NEW k \in Jobs \ {j} PROVE Stage(k)' = Stage(k)
  <2>1. \A v \in Workers : v[2] = k => (Executing(v)' <=> Executing(v))
    BY <1>2 DEF Executing
  <2>2. Begun(k)' <=> Begun(k)
    BY <1>3 DEF Begun
  <2> QED BY <1>2, <2>1, <2>2, SameStage
<1>5. workerPc[w] \notin {"none", "gone"} /\ status[j] # "absent"
  <2>1. workerPc[w] \notin {"none", "gone"}
    BY OwnSteps
  <2> QED BY <1>1, <2>1 DEF SuccessionInv, SubmittedInv
<1>6. \A v \in Workers \ {w} : v[2] = j => ~Executing(v) /\ ~Executing(v)'
  <2>1. \A v \in Workers \ {w} : v[2] = j => ~Executing(v)
    BY <1>5 DEF SuccessionInv, SoleInv, Engaged, Executing
  <2> QED BY <1>2, <2>1 DEF Executing
<1>7. CASE workerPc[w] = "read" /\ workerPc'[w] = "exec"
  <2>1. ~Works(j) /\ Works(j)'
    BY <1>6, <1>7 DEF Works, Executing
  <2>2. status[j] = "queued" /\ ~Begun(j)
    BY <1>7 DEF RecordInv, Begun, SuccessionInv, BegunInv, TypeInv, TypeOK
  <2>3. Stage(j) = "waiting" /\ Stage(j)' = "working"
    BY <2>1, <2>2 DEF Stage, Terminal
  <2>4. ASSUME NEW k \in Jobs, Stage(k) = "working" PROVE WorkspaceOf[k] # WorkspaceOf[j]
    <3>1. PICK v \in Workers : v[2] = k /\ Executing(v)
      BY <2>4 DEF Stage, Works
    <3>2. HasLease(k) /\ HasLease(j) /\ k # j
      BY <1>7, <2>1, <3>1
      DEF SuccessionInv, EngagedLeaseInv, Engaged, Barred, Executing, Works
    <3> QED BY <3>2 DEF HasLease
  <2> QED BY <1>1, <1>4, <2>3, <2>4, OneStage
<1>8. CASE Executing(w) /\ Executing(w)'
  <2>1. Works(j) /\ Works(j)'
    BY <1>8 DEF Works
  <2> QED BY <1>1, <1>4, <2>1, OneStage DEF Stage
<1>9. CASE Executing(w) /\ ~Executing(w)'
  <2>1. w \in ran' /\ status'[j] # "absent"
    BY <1>3, <1>5, <1>9, OwnSteps DEF RecordInv, Executing
  <2>2. Stage(j) = "working" /\ Stage(j)' = "over"
    BY <1>2, <1>9, <2>1, EndedStage
  <2> QED BY <1>1, <1>4, <2>2, OneStage
<1>10. CASE ~Executing(w) /\ ~Executing(w)'
  <2>1. ~Works(j) /\ ~Works(j)'
    BY <1>6, <1>10 DEF Works
  <2>2. CASE UNCHANGED <<status, ran>>
    <3>1. Stage(j)' = Stage(j)
      BY <2>1, <2>2 DEF Stage, Begun
    <3> QED BY <1>1, <1>4, <3>1, OneStage
  <2>3. CASE status'[j] = "failed"
    <3>1. Stage(j) \in {"waiting", "over"} /\ Stage(j)' = "over"
      BY <1>1, <1>5, <2>1, <2>3, ClosedStage DEF Terminal
    <3> QED BY <1>1, <1>4, <3>1, OneStage
  <2> QED BY <1>10, <2>2, <2>3, OwnSteps DEF Executing
<1> QED BY <1>7, <1>8, <1>9, <1>10, OwnSteps DEF Executing

\* A child that is terminated, engaged or not.
LEMMA TerminationServes ==
    ASSUME TreeCovers, TypeInv, SuccessionInv, RecordInv, RecordInv', UNCHANGED ran,
           NEW d \in Daemons, NEW j \in Jobs, TerminateTree(d, j),
           \A v \in Workers : v[2] = j /\ Engaged(v) => v = <<d, j>>
    PROVE  Service!Next \/ UNCHANGED JobPhase
<1> DEFINE w == <<d, j>>
<1>1. w \in Workers /\ w[2] = j
  BY DEF Workers
<1>2. /\ workerPc'[w] = "gone"
      /\ \A v \in Workers \ {w} : workerPc'[v] = workerPc[v]
      /\ status'[j] \in {status[j], "failed"}
      /\ \A k \in Jobs \ {j} : status'[k] = status[k]
  BY Terminated
<1>3. ASSUME NEW k \in Jobs \ {j} PROVE Stage(k)' = Stage(k)
  <2>1. \A v \in Workers : v[2] = k => (Executing(v)' <=> Executing(v))
    BY <1>1, <1>2 DEF Executing
  <2>2. Begun(k)' <=> Begun(k)
    BY DEF Begun
  <2> QED BY <1>2, <2>1, <2>2, SameStage
<1>4. \A v \in Workers \ {w} : v[2] = j => ~Executing(v) /\ ~Executing(v)'
  <2>1. \A v \in Workers \ {w} : v[2] = j => ~Executing(v)
    BY DEF Engaged, Executing
  <2> QED BY <1>2, <2>1 DEF Executing
<1>5. status'[j] # status[j] => status[j] # "absent" /\ status'[j] = "failed"
  BY <1>2 DEF TerminateTree, SuccessionInv, SubmittedInv
<1>6. CASE Executing(w)
  <2>1. w \in ran' /\ status'[j] # "absent" /\ ~Executing(w)'
    BY <1>1, <1>2, <1>6 DEF RecordInv, Executing
  <2>2. Stage(j) = "working" /\ Stage(j)' = "over"
    BY <1>1, <1>2, <1>6, <2>1, EndedStage
  <2> QED BY <1>3, <2>2, OneStage
<1>7. CASE ~Executing(w)
  <2>1. ~Works(j) /\ ~Works(j)'
    BY <1>1, <1>2, <1>4, <1>7 DEF Works, Executing
  <2>2. CASE status'[j] = status[j]
    <3>1. Stage(j)' = Stage(j)
      BY <2>1, <2>2 DEF Stage, Begun
    <3> QED BY <1>3, <3>1, OneStage
  <2>3. CASE status'[j] # status[j]
    <3>1. Stage(j) \in {"waiting", "over"} /\ Stage(j)' = "over"
      BY <1>5, <2>1, <2>3, ClosedStage DEF Terminal
    <3> QED BY <1>3, <3>1, OneStage
  <2> QED BY <2>2, <2>3
<1> QED BY <1>6, <1>7

\* The steps of a daemon: it drops jobs, or ends one with its worker.
LEMMA DaemonServes ==
    ASSUME TreeCovers, TypeInv, SuccessionInv,
           WorkersSeen, RecordInv, RecordInv', UNCHANGED ran,
           NEW d \in Daemons, DaemonStep(d)
    PROVE  Service!Next \/ UNCHANGED JobPhase
<1>1. ASSUME UNCHANGED status, \A w \in Workers : Executing(w)' <=> Executing(w)
      PROVE  UNCHANGED JobPhase
  BY <1>1 DEF JobPhase
<1>2. CASE UNCHANGED <<status, recordedPid, workerLock, pidWritten, workerPc>>
  BY <1>1, <1>2 DEF Executing
<1>3. CASE SpawnWorker(d)
  <2> DEFINE w == <<d, Oldest(chosen[d])>>
  <2>1. /\ Oldest(chosen[d]) \in chosen[d] /\ w \in Workers
        /\ daemonPc[d] = "spawn" /\ UNCHANGED status
        /\ workerPc' = [workerPc EXCEPT ![w] = "boot"]
    BY <1>3, OldestOfChosen DEF SpawnWorker, files
  <2>2. ~Engaged(w)
    BY <2>1 DEF SuccessionInv, ReservedInv, IsNewChild
  <2>3. ~Executing(w)
    BY <2>2 DEF Engaged, Executing
  <2> HIDE DEF w
  <2>4. \A v \in Workers : Executing(v)' <=> Executing(v)
    BY <2>1, <2>3 DEF Executing, TypeInv, TypeOK
  <2> QED BY <1>1, <2>1, <2>4
<1>4. CASE IdentityNotWritten(d)
  <2>1. /\ Oldest(chosen[d]) \in chosen[d] \cap Jobs
        /\ TerminateTree(d, Oldest(chosen[d]))
    BY <1>4, OldestOfChosen DEF IdentityNotWritten
  <2>2. \A v \in Workers : v[2] = Oldest(chosen[d]) /\ Engaged(v) =>
            v = <<d, Oldest(chosen[d])>>
    BY <2>1 DEF SuccessionInv, ReservedInv, IsNewChild
  <2> QED BY <2>1, <2>2, TerminationServes
<1>5. ASSUME NEW j \in Jobs, TerminateWorker(d, j) PROVE Service!Next \/ UNCHANGED JobPhase
  <2>1. j \in active[d] /\ TerminateTree(d, j)
    BY <1>5 DEF TerminateWorker
  <2>2. \A v \in Workers : v[2] = j /\ Engaged(v) => v = <<d, j>>
    BY <2>1 DEF SuccessionInv, ChildInv, Workers
  <2> QED BY <2>1, <2>2, TerminationServes
<1>6. ASSUME NEW j \in Jobs, ReapWorker(d, j) PROVE Service!Next \/ UNCHANGED JobPhase
  <2>1. /\ j \in active[d] /\ ~TreeAlive(<<d, j>>) /\ UNCHANGED workerPc
        /\ status' = [status EXCEPT ![j] = IF @ \in Terminal THEN @ ELSE "failed"]
    BY <1>6 DEF ReapWorker
  <2>2. ~Works(j) /\ ~Works(j)'
    <3>1. \A v \in Workers : v[2] = j /\ Engaged(v) => v = <<d, j>>
      BY <2>1 DEF SuccessionInv, ChildInv, Workers
    <3>2. \A v \in Workers : v[2] = j => ~Executing(v)
      BY <2>1, <3>1 DEF Engaged, Executing, TreeAlive, WorkerAlive
    <3> QED BY <2>1, <3>2 DEF Works, Executing
  <2>3. status[j] # "absent" /\ status'[j] \in Terminal
    BY <2>1 DEF RecordInv, TypeInv, TypeOK, Terminal
  <2>4. Stage(j) \in {"waiting", "over"} /\ Stage(j)' = "over"
    BY <2>2, <2>3, ClosedStage
  <2>5. ASSUME NEW k \in Jobs \ {j} PROVE Stage(k)' = Stage(k)
    <3>1. status'[k] = status[k]
      BY <2>1 DEF TypeInv, TypeOK
    <3> QED BY <2>1, <3>1, SameStage DEF Executing, Begun
  <2> QED BY <2>4, <2>5, OneStage
<1>7. ASSUME NEW aged \in SUBSET Jobs, RecoverAbandonedJobs(d, aged)
      PROVE  Service!Next \/ UNCHANGED JobPhase
  <2> DEFINE dead == Abandoned(HarnessAt(d)) \cap aged
  <2>1. /\ daemonPc[d] = "recover" /\ UNCHANGED workerPc
        /\ \A k \in Jobs \ dead : status'[k] = status[k]
        /\ \A k \in dead : status'[k] \in Terminal
    BY <1>7, Recovered
  <2>2. ASSUME NEW j \in dead
        PROVE  Stage(j) \in {"waiting", "over"} /\ Stage(j)' = "over"
    <3>1. \A w \in Workers : w[2] = j => ~Executing(w)
      <4> SUFFICES ASSUME NEW w \in Workers, w[2] = j, Executing(w) PROVE FALSE
        OBVIOUS
      <4>1. Engaged(w)
        BY DEF Engaged, Executing
      <4> QED BY <2>1, <4>1, RecoverySpares DEF Executing
    <3>2. ~Works(j) /\ ~Works(j)'
      BY <2>1, <3>1 DEF Works, Executing
    <3>3. status[j] # "absent" /\ j \in Jobs
      BY DEF Abandoned, RecordInv
    <3> QED BY <2>1, <3>2, <3>3, ClosedStage
  <2>3. ASSUME NEW k \in Jobs \ dead PROVE Stage(k)' = Stage(k)
    BY <2>1, SameStage DEF Executing, Begun
  <2>4. dead \in SUBSET Jobs
    OBVIOUS
  <2> HIDE DEF dead
  <2> QED BY <2>2, <2>3, <2>4, StagesDropped
<1> QED BY <1>2, <1>3, <1>4, <1>5, <1>6, <1>7, DaemonKindsOfAll

\* The submission of a job.
LEMMA ControlServes ==
    ASSUME TreeCovers, TypeInv, SuccessionInv,
           RecordInv, RecordInv', UNCHANGED ran, Cancellable = {},
           NEW j \in Jobs, ControlStep(j)
    PROVE  Service!Next \/ UNCHANGED JobPhase
<1>1. StartTask(j)
  BY DEF ControlStep, CheckCancel, WriteCancelled, RecordInv
<1>2. /\ status[j] = "absent" /\ status'[j] = "queued" /\ UNCHANGED workerPc
      /\ \A k \in Jobs \ {j} : status'[k] = status[k]
  BY <1>1 DEF StartTask, TypeInv, TypeOK
<1>3. ~Works(j) /\ ~Works(j)' /\ ~Begun(j)'
  BY <1>2 DEF Works, Begun, Executing, RecordInv, SuccessionInv, BegunInv, TypeInv, TypeOK
<1>4. Stage(j) = "absent" /\ Stage(j)' = "waiting"
  BY <1>2, <1>3 DEF Stage, Terminal
<1>5. \A k \in Jobs \ {j} : Stage(k)' = Stage(k)
  BY <1>2, SameStage DEF Executing, Begun
<1> QED BY <1>4, <1>5, OneStage

\* Daemons one after the other, however many, that keep the workers in sight:
\* the queue implements HarborService, as with one daemon.
LEMMA SuccessionServes ==
    ASSUME ~Concurrent, GraceCovers, TreeCovers, Cancellable = {}
    PROVE  Spec /\ []WorkersSeen => ImplementsService /\ []RunningWhileExecuting
<1> DEFINE IInv == TypeInv /\ SuccessionInv /\ RecordInv
<1>1. Init => Service!Init
  BY DEF Init, InitQueueState, Service!Init, JobPhase, Executing
<1>2. IInv /\ IInv' /\ WorkersSeen /\ [Next]_vars => [Service!Next]_JobPhase
  <2> SUFFICES ASSUME IInv, IInv', WorkersSeen, [Next]_vars
               PROVE  Service!Next \/ UNCHANGED JobPhase
    OBVIOUS
  <2>1. CASE UNCHANGED vars
    BY <2>1 DEF vars, files, JobPhase, Executing
  <2>2. CASE Next
    BY <2>2, WorkerServes, DaemonServes, ControlServes DEF Next
  <2> QED BY <2>1, <2>2
<1>3. Spec /\ []WorkersSeen => []IInv
  BY RecordHolds
<1>4. IInv => RunningWhileExecuting
  BY DEF RecordInv, RunningWhileExecuting
<1> QED
  <2> HIDE DEF IInv
  <2> QED BY <1>1, <1>2, <1>3, <1>4, PTL DEF Spec, ImplementsService, Service!Spec

\* A harness run goes on without its worker only if that one is killed.
LEMMA LeftBehind ==
    ASSUME TypeInv, NEW w \in Workers, WorkerStep(w), workerPc'[w] = "orphan"
    PROVE  workerPc[w] = "orphan" \/ Fault("worker")
BY DEF TypeInv, TypeOK, WorkerGoto, WorkerStep, Work, CreateWorkerLock, WriteWorkerPid,
       ReadStatus, WriteRunning, WriteProgress, WriteResult, WrapperError, ReleaseJobLock,
       CrashWorker, OrphanEnds, files

\* No harness run is left behind by a worker that is never killed, and none is at
\* work on a job that is over where nobody cancels.
LEMMA NobodyKilledSees ==
    ASSUME ~Concurrent, GraceCovers, TreeCovers, Cancellable = {}, MaxFaults["worker"] = 0
    PROVE  Spec => []WorkersSeen
<1> DEFINE IInv == TypeInv /\ SuccessionInv /\ RecordInv
                   /\ \A w \in Workers : workerPc[w] # "orphan"
<1>1. Init => IInv
  BY TypeInit, SuccessionInit
  DEF Init, InitQueueState, InitDaemon, InitWorker, InitControl, RecordInv, Executing
<1>2. IInv => WorkersSeen
  BY DEF RecordInv, WorkersSeen, Executing, Terminal
<1>3. IInv /\ [Next]_vars => IInv'
  <2> SUFFICES ASSUME IInv, [Next]_vars PROVE IInv'
    OBVIOUS
  <2>1. TypeInv' /\ SuccessionInv'
    BY <1>2, TypeNext, SuccessionStep
  <2>2. CASE UNCHANGED vars
    <3>1. RecordInv'
      BY <2>2 DEF vars, files, daemonVars, RecordInv, Executing
    <3> QED BY <2>1, <2>2, <3>1 DEF vars
  <2>3. CASE Next
    <3>1. RecordInv'
      BY <1>2, <2>3, RecordStep
    <3>2. ASSUME NEW w \in Workers PROVE workerPc'[w] # "orphan"
      <4>1. ~Fault("worker")
        BY DEF Fault, TypeInv, TypeOK, FaultKinds
      <4>2. CASE WorkerStep(w)
        BY <4>1, <4>2, LeftBehind
      <4>3. ASSUME NEW v \in Workers \ {w}, WorkerStep(v) PROVE workerPc'[w] # "orphan"
        BY <4>3, WorkerSteps
      <4>4. ASSUME NEW k \in Jobs, ControlStep(k) PROVE workerPc'[w] # "orphan"
        BY <4>4 DEF ControlStep, StartTask, CheckCancel, WriteCancelled
      <4>5. ASSUME NEW d \in Daemons, DaemonStep(d) PROVE workerPc'[w] # "orphan"
        BY <4>5, StartsOrEnds
      <4> QED BY <2>3, <4>2, <4>3, <4>4, <4>5 DEF Next
    <3> QED BY <2>1, <3>1, <3>2
  <2> QED BY <2>2, <2>3
<1> QED
  <2> HIDE DEF IInv
  <2> QED BY <1>1, <1>2, <1>3, PTL DEF Spec

(***************************************************************************)
(* Theorems                                                                *)
(***************************************************************************)
\* One daemon after the other, as the runtime restarts the queue, each
\* recovering what those before left: for any number of daemons, any faults and
\* any cancellations, a prompt at work keeps the lease of its workspace, no two
\* are at work in one workspace and none is handed over twice, provided the
\* identity file of a job does not name an earlier worker than the one that
\* left its harness at work when a lease is judged or jobs are recovered
\* (_job_tree_alive), no harness outlives its worker unseen, and workers create
\* worker.lock within the grace of a dead daemon's lease.
THEOREM RestartsExclusive ==
    ASSUME ~Concurrent, GraceCovers, TreeCovers
    PROVE  Spec /\ []WorkersSeen =>
              [](LeaseProtectsExecution /\ WorkspaceExclusive /\ RunsAtMostOnce)
<1>1. TypeInv /\ SuccessionInv => LeaseProtectsExecution /\ WorkspaceExclusive /\ RunsAtMostOnce
  BY SuccessionSafe
<1> QED BY <1>1, SuccessionHolds, PTL

\* A daemon that is restarted once, where the identity of every child is
\* written and the same two conditions hold: no two prompts are ever at work in
\* one workspace, and the lease there names the job, whatever crashes, is
\* stopped or cancelled.
THEOREM RestartExclusive ==
    ASSUME NEW c, NEW d, Daemons = {c, d}, ~Concurrent, GraceCovers, TreeCovers,
           MaxFaults["identity"] = 0
    PROVE  Spec => [](WorkspaceExclusive /\ LeaseProtectsExecution)
<1>1. Spec => []WorkersSeen
  BY TwoDaemonsSee
<1> QED BY <1>1, RestartsExclusive, PTL

\* In the same setting no prompt is handed to a harness twice.
THEOREM RestartRunsOnce ==
    ASSUME NEW c, NEW d, Daemons = {c, d}, ~Concurrent, GraceCovers, TreeCovers,
           MaxFaults["identity"] = 0
    PROVE  Spec => []RunsAtMostOnce
<1>1. Spec => []WorkersSeen
  BY TwoDaemonsSee
<1> QED BY <1>1, RestartsExclusive, PTL

\* And where nobody cancels the queue implements HarborService across the
\* restart: a job recovered, reaped or dispatched again never comes back to
\* life, and one that is being worked on is recorded as running.
THEOREM RestartService ==
    ASSUME NEW c, NEW d, Daemons = {c, d}, ~Concurrent, GraceCovers, TreeCovers,
           MaxFaults["identity"] = 0, Cancellable = {}
    PROVE  Spec => ImplementsService /\ []RunningWhileExecuting
<1>1. Spec => []WorkersSeen
  BY TwoDaemonsSee
<1> QED BY <1>1, SuccessionServes, PTL

\* However often the daemon is restarted, the same holds where no worker is
\* killed from outside, whether or not identities are written.
THEOREM RestartsService ==
    ASSUME ~Concurrent, GraceCovers, TreeCovers, MaxFaults["worker"] = 0, Cancellable = {}
    PROVE  Spec => /\ ImplementsService
                   /\ [](/\ WorkspaceExclusive /\ LeaseProtectsExecution
                         /\ RunsAtMostOnce /\ RunningWhileExecuting)
<1>1. Spec => []WorkersSeen
  BY NobodyKilledSees
<1> QED BY <1>1, RestartsExclusive, SuccessionServes, PTL
=============================================================================
