--------------------------- MODULE JobPollProofs ----------------------------
(***************************************************************************)
(* Theorems about JobPoll for every set of processes and threads, every    *)
(* interval and every bound on the clock.                                  *)
(***************************************************************************)
EXTENDS JobPoll, TLAPS

-----------------------------------------------------------------------------
(***************************************************************************)
(* Type correctness                                                        *)
(***************************************************************************)

LEMMA RankType == \A s \in States : Rank(s) \in 0..2
  BY DEF States, Rank

\* What an answer records keeps its kind.
LEMMA AnswerType ==
  ASSUME TypeOK, NEW p \in Pollers, NEW s \in States \union {None}, Answer(p, s)
  PROVE  /\ snap' \in [Pollers -> States \union {None}]
         /\ best' \in 0..2
  BY RankType, NoneAssumption DEF TypeOK, Answer

\* The metadata a poll would use is a snapshot if there is any.
LEMMA MetaType ==
  ASSUME TypeOK, NEW q \in Procs
  PROVE  /\ disk # Corrupt => Effective(q) \in Metas \union {None}
         /\ Remembered(q) \in Metas \union {None}
  BY DEF TypeOK, Effective, Remembered

\* In memory goes what RereadStatus found not to be over.
ReadOK == \A p \in Pollers :
    pc[p] \in {"reread", "noted"} =>
        /\ snap[p] \in {"queued", "running"}
        /\ pc[p] = "noted" => memory[ProcOf[p]] \in Metas

TypeInv == TypeOK /\ ReadOK

LEMMA TypeInit == Init => TypeInv
  BY MaxTimeAssumption DEF Init, TypeInv, TypeOK, ReadOK, Times, States, PollPcs

LEMMA WaitType ==
  ASSUME TypeInv, NEW p \in Pollers,
         \/ BeginPoll(p) \/ TakeThreadLock(p) \/ ThreadLockTimeout(p)
         \/ CreatePollLock(p) \/ FindAbandonedPollLock(p) \/ UnlinkPollLock(p)
         \/ PollLockTimeout(p)
  PROVE  TypeInv'
<1> USE ProcOfAssumption DEF TypeInv, TypeOK, ReadOK, Goto, history,
      environment, locks, metadata, PollPcs
<1>1. CASE BeginPoll(p)
  <2>1. Rank("over") \in 0..2
    BY RankType DEF States
  <2>2. CASE status = "over"
    BY <1>1, <2>1, <2>2 DEF BeginPoll
  <2>3. CASE status # "over"
    <3>1. PICK imm \in BOOLEAN : immediate' = [immediate EXCEPT ![p] = imm]
      BY <1>1, <2>3 DEF BeginPoll
    <3> QED BY <1>1, <2>3, <3>1 DEF BeginPoll
  <2> QED BY <2>2, <2>3
<1>2. CASE TakeThreadLock(p) \/ ThreadLockTimeout(p) \/ PollLockTimeout(p)
  BY <1>2 DEF TakeThreadLock, ThreadLockTimeout, PollLockTimeout
<1>3. CASE CreatePollLock(p)
  BY <1>3 DEF CreatePollLock, Locks
<1>4. CASE FindAbandonedPollLock(p) \/ UnlinkPollLock(p)
  BY <1>4 DEF FindAbandonedPollLock, UnlinkPollLock
<1> QED BY <1>1, <1>2, <1>3, <1>4

LEMMA LockedType ==
  ASSUME TypeInv, NEW p \in Pollers,
         \/ RereadStatus(p) \/ RefuseCorrupt(p) \/ AnswerFromCache(p)
         \/ NoteSnapshot(p) \/ WriteMetadata(p)
  PROVE  TypeInv'
<1> USE ProcOfAssumption DEF TypeInv, ReadOK, Goto, history, environment,
      locks, metadata
<1>s. States \union {None} = {"queued", "running", "over", None}
  BY DEF States
<1>m. \A m \in Metas : m.snap \in {"queued", "running"} /\ m.at \in Times
  BY DEF Metas
<1>q. ProcOf[p] \in Procs
  OBVIOUS
<1>1. CASE RereadStatus(p)
  <2>1. CASE status = "over"
    <3>1. Answer(p, "over")
      BY <1>1, <2>1 DEF RereadStatus
    <3>2. snap' \in [Pollers -> States \union {None}] /\ best' \in 0..2
      BY <3>1, <1>s, AnswerType
    <3> QED BY <1>1, <2>1, <3>1, <3>2 DEF RereadStatus, TypeOK, PollPcs, Answer
  <2>2. CASE status # "over"
    BY <1>1, <2>2 DEF RereadStatus, TypeOK, PollPcs, States
  <2> QED BY <2>1, <2>2
<1>2. CASE RefuseCorrupt(p)
  <2> DEFINE s == IF memory[ProcOf[p]] # None THEN memory[ProcOf[p]].snap ELSE None
  <2>1. s \in States \union {None}
    BY <1>m, <1>q, <1>s DEF TypeOK
  <2>2. Answer(p, s)
    BY <1>2 DEF RefuseCorrupt
  <2>3. snap' \in [Pollers -> States \union {None}] /\ best' \in 0..2
    BY <2>1, <2>2, AnswerType
  <2> QED BY <1>2, <2>2, <2>3 DEF RefuseCorrupt, TypeOK, PollPcs, Answer
<1>3. CASE AnswerFromCache(p)
  <2> DEFINE s == Effective(ProcOf[p]).snap
  <2>1. s \in States \union {None}
    BY <1>3, <1>m, <1>q, <1>s, MetaType DEF AnswerFromCache, Throttled
  <2>2. Answer(p, s)
    BY <1>3 DEF AnswerFromCache
  <2>3. snap' \in [Pollers -> States \union {None}] /\ best' \in 0..2
    BY <2>1, <2>2, AnswerType
  <2> QED BY <1>3, <2>2, <2>3 DEF AnswerFromCache, TypeOK, PollPcs, Answer
<1>4. CASE NoteSnapshot(p)
  <2>1. [snap |-> snap[p], at |-> now] \in Metas
    BY <1>4 DEF NoteSnapshot, TypeOK, Metas
  <2> QED BY <1>4, <1>q, <2>1 DEF NoteSnapshot, TypeOK, PollPcs
<1>5. CASE WriteMetadata(p)
  <2>1. memory[ProcOf[p]] \in Metas /\ snap[p] \in States \union {None}
    BY <1>5 DEF WriteMetadata, TypeOK
  <2>2. Answer(p, snap[p])
    BY <1>5 DEF WriteMetadata
  <2>3. snap' \in [Pollers -> States \union {None}] /\ best' \in 0..2
    BY <2>1, <2>2, AnswerType
  <2>4. disk' \in Metas \union {None, Corrupt} /\ faults' \subseteq FaultKinds
    BY <1>5, <2>1 DEF WriteMetadata, TypeOK
  <2>5. lastFresh' \in Times
    BY <1>5, <1>m, <2>1 DEF WriteMetadata
  <2> QED BY <1>5, <2>2, <2>3, <2>4, <2>5 DEF WriteMetadata, TypeOK, PollPcs, Answer
<1> QED BY <1>1, <1>2, <1>3, <1>4, <1>5

LEMMA ReturnType ==
  ASSUME TypeInv, NEW p \in Pollers,
         ReleasePollLock(p) \/ AnswerBusy(p) \/ ReturnBusy(p)
  PROVE  TypeInv'
<1> USE ProcOfAssumption DEF TypeInv, ReadOK, Goto, history, environment,
      locks, metadata
<1>1. CASE ReleasePollLock(p) \/ ReturnBusy(p)
  <2>1. Return(p)
    BY <1>1 DEF ReleasePollLock, ReturnBusy
  <2>2. /\ threadLock' \in [Procs -> Pollers \union {None}]
        /\ pollLock' \in Locks \union {None}
    BY <1>1 DEF ReleasePollLock, ReturnBusy, TypeOK
  <2>3. ReadOK'
    BY <2>1 DEF Return, TypeOK
  <2> QED BY <2>1, <2>2, <2>3 DEF Return, TypeOK, PollPcs
<1>2. CASE AnswerBusy(p)
  <2> DEFINE meta == Remembered(ProcOf[p])
             s == IF status = "over" THEN status
                  ELSE IF meta # None THEN meta.snap ELSE None
  <2>1. meta \in Metas \union {None}
    BY MetaType
  <2>2. s \in States \union {None}
    BY <2>1 DEF Metas, States
  <2>3. Answer(p, s)
    BY <1>2 DEF AnswerBusy
  <2>4. snap' \in [Pollers -> States \union {None}] /\ best' \in 0..2
    BY <2>2, <2>3, AnswerType
  <2> QED BY <1>2, <2>3, <2>4 DEF AnswerBusy, TypeOK, PollPcs, Answer
<1> QED BY <1>1, <1>2

LEMMA AroundType ==
  ASSUME TypeInv,
         \/ AdvanceJob \/ ClockTick \/ DamageMetadata
         \/ \E q \in Procs : CrashProcess(q)
  PROVE  TypeInv'
<1> USE ProcOfAssumption DEF TypeInv, TypeOK, ReadOK, history, environment,
      locks, metadata, PollPcs
<1>1. CASE AdvanceJob
  BY <1>1 DEF AdvanceJob
<1>2. CASE ClockTick
  BY <1>2, MaxTimeAssumption DEF ClockTick, Times
<1>3. CASE DamageMetadata
  BY <1>3 DEF DamageMetadata
<1>4. CASE \E q \in Procs : CrashProcess(q)
  BY <1>4 DEF CrashProcess, Locks
<1> QED BY <1>1, <1>2, <1>3, <1>4

LEMMA TypeStep ==
  ASSUME TypeInv, [Next]_vars
  PROVE  TypeInv'
<1>1. ASSUME NEW p \in Pollers, BeginPoll(p) \/ PollStep(p) PROVE TypeInv'
  BY <1>1, WaitType, LockedType, ReturnType DEF PollStep
<1>2. CASE UNCHANGED vars
  BY <1>2 DEF vars, TypeInv, TypeOK, ReadOK
<1> QED BY <1>1, <1>2, AroundType DEF Next

\* Whatever fails and whoever dies, every file and variable keeps its kind,
\* and no terminal state is kept as metadata.
THEOREM PollTypeCorrect == Spec => []TypeOK
<1>1. TypeInv /\ [Next]_vars => TypeInv'
  BY TypeStep
<1> QED BY <1>1, TypeInit, PTL DEF Spec, TypeInv

-----------------------------------------------------------------------------
(***************************************************************************)
(* Mutual exclusion                                                        *)
(*                                                                         *)
(* While every process lives, poll.lock is held by whoever is under it and *)
(* nobody is about to unlink it.                                           *)
(***************************************************************************)

NobodyDied == alive = Procs

PollLockInv ==
    NobodyDied =>
        /\ PollLockExclusive
        /\ pollLock = None => UnderLock = {}
        /\ pollLock # None => pollLock.pid \in Procs
        /\ \A p \in Pollers : pc[p] # "steal"

LEMMA PollLockInit == Init => PollLockInv
  BY DEF Init, PollLockInv, PollLockExclusive, UnderLock

LEMMA PollLockWait ==
  ASSUME TypeInv, PollLockInv, NEW p \in Pollers,
         \/ BeginPoll(p) \/ TakeThreadLock(p) \/ ThreadLockTimeout(p)
         \/ CreatePollLock(p) \/ FindAbandonedPollLock(p) \/ UnlinkPollLock(p)
         \/ PollLockTimeout(p)
  PROVE  PollLockInv'
<1> USE ProcOfAssumption DEF TypeInv, TypeOK, PollLockInv, PollLockExclusive,
      UnderLock, NobodyDied, Goto, locks, environment
<1>1. CASE BeginPoll(p)
  BY <1>1 DEF BeginPoll
<1>2. CASE TakeThreadLock(p) \/ ThreadLockTimeout(p) \/ PollLockTimeout(p)
  BY <1>2 DEF TakeThreadLock, ThreadLockTimeout, PollLockTimeout
<1>3. CASE CreatePollLock(p)
  BY <1>3, NoneAssumption DEF CreatePollLock, Locks
\* A lock whose owner lives is not abandoned.
<1>4. CASE FindAbandonedPollLock(p)
  BY <1>4 DEF FindAbandonedPollLock, PollLockAbandoned
<1>5. CASE UnlinkPollLock(p)
  BY <1>5 DEF UnlinkPollLock
<1> QED BY <1>1, <1>2, <1>3, <1>4, <1>5

LEMMA PollLockOther ==
  ASSUME TypeInv, PollLockInv, NEW p \in Pollers,
         \/ RereadStatus(p) \/ RefuseCorrupt(p) \/ AnswerFromCache(p)
         \/ NoteSnapshot(p) \/ WriteMetadata(p) \/ ReleasePollLock(p)
         \/ AnswerBusy(p) \/ ReturnBusy(p)
  PROVE  PollLockInv'
<1> USE DEF TypeInv, TypeOK, PollLockInv, PollLockExclusive, UnderLock,
      NobodyDied, Goto, locks, environment
<1>1. CASE RereadStatus(p)
  BY <1>1 DEF RereadStatus
<1>2. CASE RefuseCorrupt(p) \/ AnswerFromCache(p)
  BY <1>2 DEF RefuseCorrupt, AnswerFromCache
<1>3. CASE NoteSnapshot(p) \/ WriteMetadata(p)
  BY <1>3 DEF NoteSnapshot, WriteMetadata
<1>4. CASE ReleasePollLock(p)
  BY <1>4 DEF ReleasePollLock, Return
<1>5. CASE AnswerBusy(p) \/ ReturnBusy(p)
  BY <1>5 DEF AnswerBusy, ReturnBusy, Return
<1> QED BY <1>1, <1>2, <1>3, <1>4, <1>5

LEMMA PollLockStep ==
  ASSUME TypeInv, PollLockInv, [Next]_vars
  PROVE  PollLockInv'
<1>1. ASSUME NEW p \in Pollers, BeginPoll(p) \/ PollStep(p) PROVE PollLockInv'
  BY <1>1, PollLockWait, PollLockOther DEF PollStep
<1>2. CASE AdvanceJob \/ ClockTick \/ DamageMetadata \/ UNCHANGED vars
  BY <1>2 DEF AdvanceJob, ClockTick, DamageMetadata, vars, PollLockInv,
        PollLockExclusive, UnderLock, NobodyDied, locks
<1>3. ASSUME NEW q \in Procs, CrashProcess(q) PROVE PollLockInv'
  BY <1>3 DEF CrashProcess, PollLockInv, NobodyDied
<1> QED BY <1>1, <1>2, <1>3 DEF Next

\* As long as no process has died, at most one poll is under poll.lock,
\* whatever times out and whatever happens to poll_meta.json.
THEOREM PollLockCorrect == Spec => [](NobodyDied => PollLockExclusive)
<1>1. TypeInv /\ PollLockInv /\ [Next]_vars => TypeInv' /\ PollLockInv'
  BY TypeStep, PollLockStep
<1>2. PollLockInv => (NobodyDied => PollLockExclusive)
  BY DEF PollLockInv
<1> QED BY <1>1, <1>2, TypeInit, PollLockInit, PTL DEF Spec

-----------------------------------------------------------------------------
(***************************************************************************)
(* No lock is left behind                                                  *)
(***************************************************************************)

LEMMA PollStepKinds ==
  ASSUME TypeInv, NEW p \in Pollers, BeginPoll(p) \/ PollStep(p)
  PROVE  /\ \A r \in Pollers : r # p => pc'[r] = pc[r]
         /\ alive' = alive /\ faults \subseteq faults'
BY DEF TypeInv, TypeOK, BeginPoll, PollStep, TakeThreadLock, ThreadLockTimeout,
       CreatePollLock, FindAbandonedPollLock, UnlinkPollLock, PollLockTimeout,
       RereadStatus, RefuseCorrupt, AnswerFromCache, NoteSnapshot, WriteMetadata,
       ReleasePollLock, AnswerBusy, ReturnBusy, Return, Goto, environment

\* Who is under the lock stays there until it releases it; who gets there has
\* created it.
LEMMA LiveLockPoll ==
  ASSUME TypeInv, LiveLockInUse, NEW p \in Pollers, BeginPoll(p) \/ PollStep(p)
  PROVE  LiveLockInUse'
<1>1. CASE UnlinkPollLock(p) \/ ReleasePollLock(p)
  BY <1>1 DEF UnlinkPollLock, ReleasePollLock, LiveLockInUse
<1>2. CASE CreatePollLock(p)
  <2>1. pollLock'.pid = ProcOf[p] /\ p \in UnderLock'
    BY <1>2 DEF CreatePollLock, Goto, UnderLock, TypeInv, TypeOK
  <2> QED BY <2>1 DEF LiveLockInUse
<1>3. CASE \/ BeginPoll(p) \/ TakeThreadLock(p) \/ ThreadLockTimeout(p)
           \/ FindAbandonedPollLock(p) \/ PollLockTimeout(p)
           \/ AnswerBusy(p) \/ ReturnBusy(p)
  <2>1. pollLock' = pollLock /\ p \notin UnderLock
    BY <1>3 DEF BeginPoll, TakeThreadLock, ThreadLockTimeout, FindAbandonedPollLock,
                PollLockTimeout, AnswerBusy, ReturnBusy, locks, UnderLock
  <2>2. UnderLock \subseteq UnderLock'
    BY <2>1, PollStepKinds DEF UnderLock
  <2> QED BY <2>1, <2>2, PollStepKinds DEF LiveLockInUse
<1>4. CASE \/ RereadStatus(p) \/ RefuseCorrupt(p) \/ AnswerFromCache(p)
           \/ NoteSnapshot(p) \/ WriteMetadata(p)
  <2>1. pollLock' = pollLock /\ p \in UnderLock'
    BY <1>4 DEF RereadStatus, RefuseCorrupt, AnswerFromCache, NoteSnapshot,
                WriteMetadata, locks, UnderLock, Goto, TypeInv, TypeOK
  <2>2. UnderLock \subseteq UnderLock'
    BY <2>1, PollStepKinds DEF UnderLock
  <2> QED BY <2>1, <2>2, PollStepKinds DEF LiveLockInUse
<1> QED BY <1>1, <1>2, <1>3, <1>4 DEF PollStep

\* Whoever dies and whatever times out or fails, a poll.lock that names a live
\* process is held by a poll of that process: no path out of poll_task leaves
\* one behind that nobody could take over.
THEOREM NoLockLeftBehind == Spec => []LiveLockInUse
<1>1. Init => LiveLockInUse
  BY DEF Init, LiveLockInUse
<1>2. TypeInv /\ LiveLockInUse /\ [Next]_vars => LiveLockInUse'
  <2> SUFFICES ASSUME TypeInv, LiveLockInUse, [Next]_vars PROVE LiveLockInUse'
    OBVIOUS
  <2>1. ASSUME NEW p \in Pollers, BeginPoll(p) \/ PollStep(p) PROVE LiveLockInUse'
    BY <2>1, LiveLockPoll
  <2>2. CASE AdvanceJob \/ ClockTick \/ DamageMetadata \/ UNCHANGED vars
    BY <2>2 DEF AdvanceJob, ClockTick, DamageMetadata, vars, LiveLockInUse,
          UnderLock, locks
  <2>3. ASSUME NEW q \in Procs, CrashProcess(q) PROVE LiveLockInUse'
    <3> SUFFICES ASSUME pollLock' # None, pollLock'.pid \in alive'
                 PROVE  \E p \in UnderLock' : ProcOf[p] = pollLock'.pid
      BY DEF LiveLockInUse
    <3>1. alive' = alive \ {q} /\ alive \subseteq Procs
      BY <2>3 DEF CrashProcess, TypeInv, TypeOK
    <3>2. pollLock' = pollLock
      BY <2>3, <3>1, NoneAssumption DEF CrashProcess
    <3>3. PICK p \in UnderLock : ProcOf[p] = pollLock.pid
      BY <3>1, <3>2 DEF LiveLockInUse
    <3>4. p \in UnderLock'
      BY <2>3, <3>1, <3>2, <3>3 DEF CrashProcess, UnderLock
    <3> QED BY <3>2, <3>3, <3>4
  <2> QED BY <2>1, <2>2, <2>3 DEF Next
<1>3. TypeInv /\ [Next]_vars => TypeInv'
  BY TypeStep
<1> QED BY <1>1, <1>2, <1>3, TypeInit, PTL DEF Spec

-----------------------------------------------------------------------------
(***************************************************************************)
(* Mutual exclusion over a death                                           *)
(*                                                                         *)
(* A lock left behind by a dead process is taken over in two steps.  Of    *)
(* two processes one is left to take them, and of its threads the one that *)
(* owns the lock of the process.                                           *)
(***************************************************************************)
FewProcesses == Crashable = {} \/ \A q, r, s \in Procs : q = r \/ r = s \/ q = s

\* The lock of a process is held from the wait for poll.lock to the answer,
\* and only a process that runs has a thread anywhere.
ThreadInv ==
    \A p \in Pollers :
        /\ pc[p] \in {"file", "steal"} \/ p \in UnderLock
              => threadLock[ProcOf[p]] = p
        /\ pc[p] # "dead" => ProcOf[p] \in alive

LEMMA ThreadPoll ==
  ASSUME TypeInv, ThreadInv, NEW p \in Pollers, BeginPoll(p) \/ PollStep(p)
  PROVE  ThreadInv'
<1> USE ProcOfAssumption DEF TypeInv, TypeOK, ThreadInv, UnderLock, Goto, locks,
      environment
<1>1. CASE BeginPoll(p)
  BY <1>1 DEF BeginPoll
<1>2. CASE TakeThreadLock(p)
  BY <1>2, NoneAssumption DEF TakeThreadLock
<1>3. CASE ThreadLockTimeout(p)
  BY <1>3 DEF ThreadLockTimeout
<1>4. CASE CreatePollLock(p)
  BY <1>4 DEF CreatePollLock
<1>5. CASE FindAbandonedPollLock(p) \/ UnlinkPollLock(p)
  BY <1>5 DEF FindAbandonedPollLock, UnlinkPollLock
<1>6. CASE PollLockTimeout(p)
  BY <1>6 DEF PollLockTimeout
<1>7. CASE RereadStatus(p) \/ RefuseCorrupt(p)
  BY <1>7 DEF RereadStatus, RefuseCorrupt
<1>8. CASE AnswerFromCache(p) \/ NoteSnapshot(p) \/ WriteMetadata(p)
  BY <1>8 DEF AnswerFromCache, NoteSnapshot, WriteMetadata
<1>9. CASE ReleasePollLock(p)
  BY <1>9 DEF ReleasePollLock, Return
<1>10. CASE AnswerBusy(p) \/ ReturnBusy(p)
  BY <1>10 DEF AnswerBusy, ReturnBusy, Return
<1> QED BY <1>1, <1>2, <1>3, <1>4, <1>5, <1>6, <1>7, <1>8, <1>9, <1>10 DEF PollStep

LEMMA ThreadStep ==
  ASSUME TypeInv, ThreadInv, [Next]_vars
  PROVE  ThreadInv'
<1>1. ASSUME NEW p \in Pollers, BeginPoll(p) \/ PollStep(p) PROVE ThreadInv'
  BY <1>1, ThreadPoll
<1>2. CASE AdvanceJob \/ ClockTick \/ DamageMetadata \/ UNCHANGED vars
  BY <1>2 DEF AdvanceJob, ClockTick, DamageMetadata, vars, ThreadInv, UnderLock, locks
<1>3. ASSUME NEW q \in Procs, CrashProcess(q) PROVE ThreadInv'
  <2>1. /\ alive' = alive \ {q}
        /\ \A p \in Pollers : pc'[p] = IF ProcOf[p] = q THEN "dead" ELSE pc[p]
        /\ \A r \in Procs : r # q => threadLock'[r] = threadLock[r]
    BY <1>3 DEF CrashProcess, TypeInv, TypeOK
  <2> QED BY <2>1, ProcOfAssumption DEF ThreadInv, UnderLock
<1> QED BY <1>1, <1>2, <1>3 DEF Next

LEMMA NoCrashStep ==
  ASSUME TypeInv, Crashable = {} => NobodyDied, [Next]_vars
  PROVE  (Crashable = {} => NobodyDied)'
<1>1. ASSUME NEW p \in Pollers, BeginPoll(p) \/ PollStep(p)
      PROVE  Crashable = {} => NobodyDied'
  BY <1>1, PollStepKinds DEF NobodyDied
<1>2. CASE AdvanceJob \/ ClockTick \/ DamageMetadata \/ UNCHANGED vars
  BY <1>2 DEF AdvanceJob, ClockTick, DamageMetadata, vars, NobodyDied
<1>3. ASSUME NEW q \in Procs, CrashProcess(q) PROVE Crashable # {}
  BY <1>3 DEF CrashProcess
<1> QED BY <1>1, <1>2, <1>3 DEF Next

LEMMA FewExclude ==
  ASSUME FewProcesses, TypeInv, PollLockInv, ThreadInv, Crashable = {} => NobodyDied
  PROVE  PollLockExclusive
<1>1. CASE NobodyDied
  BY <1>1 DEF PollLockInv
<1>2. CASE ~NobodyDied
  <2>1. PICK d \in Procs : d \notin alive
    BY <1>2 DEF NobodyDied, TypeInv, TypeOK
  <2> SUFFICES ASSUME NEW p \in UnderLock, NEW r \in UnderLock PROVE p = r
    BY DEF PollLockExclusive
  <2>2. /\ ProcOf[p] \in alive /\ threadLock[ProcOf[p]] = p
        /\ ProcOf[r] \in alive /\ threadLock[ProcOf[r]] = r
    BY DEF ThreadInv, UnderLock
  <2>3. ProcOf[p] = ProcOf[r]
    BY <1>2, <2>1, <2>2, ProcOfAssumption DEF FewProcesses, UnderLock
  <2> QED BY <2>2, <2>3
<1> QED BY <1>1, <1>2

PollInv == /\ TypeInv /\ PollLockInv /\ ThreadInv
           /\ Crashable = {} => NobodyDied

LEMMA PollInvInit == Init => PollInv
BY TypeInit, PollLockInit, ProcOfAssumption
   DEF Init, PollInv, ThreadInv, UnderLock, NobodyDied

LEMMA PollInvStep ==
  ASSUME PollInv, [Next]_vars
  PROVE  PollInv'
BY TypeStep, PollLockStep, ThreadStep, NoCrashStep DEF PollInv

\* With at most two processes polling a job, or any number of them if none
\* dies, at most one poll is under poll.lock: the lock of a dead process is
\* taken over by one thread of the other one.
THEOREM PollLockOfTwo ==
  ASSUME FewProcesses
  PROVE  Spec => []PollLockExclusive
<1>1. PollInv /\ [Next]_vars => PollInv'
  BY PollInvStep
<1>2. PollInv => PollLockExclusive
  BY FewExclude DEF PollInv
<1> QED BY <1>1, <1>2, PollInvInit, PTL DEF Spec

-----------------------------------------------------------------------------
(***************************************************************************)
(* The cooldown                                                            *)
(***************************************************************************)

\* As long as writes of the metadata succeed, what is on disk is the last fresh
\* answer; a poll that is about to give the next one is late enough.
CooldownInv ==
    "write" \notin faults =>
        /\ disk = None => lastFresh = None
        /\ disk \in Metas => disk.at = lastFresh
        /\ \A p \in Pollers :
              pc[p] = "noted" /\ ~immediate[p] /\ lastFresh # None
                 => memory[ProcOf[p]].at - lastFresh >= Interval

LEMMA CooldownPoll ==
  ASSUME TypeInv, PollLockExclusive, CooldownInv,
         NEW p \in Pollers, BeginPoll(p) \/ PollStep(p)
  PROVE  CooldownInv'
<1> SUFFICES ASSUME "write" \notin faults' PROVE CooldownInv'
  BY DEF CooldownInv
<1>0. "write" \notin faults /\ \A r \in Pollers : r # p => pc'[r] = pc[r]
  BY PollStepKinds
<1>1. ASSUME pc'[p] # "noted", UNCHANGED <<lastFresh, disk, memory>>,
             \A r \in Pollers : r # p => immediate'[r] = immediate[r]
      PROVE  CooldownInv'
  BY <1>0, <1>1 DEF CooldownInv
<1>2. CASE \/ TakeThreadLock(p) \/ ThreadLockTimeout(p)
           \/ CreatePollLock(p) \/ FindAbandonedPollLock(p) \/ UnlinkPollLock(p)
           \/ PollLockTimeout(p) \/ RereadStatus(p) \/ RefuseCorrupt(p)
           \/ AnswerFromCache(p) \/ AnswerBusy(p)
  BY <1>1, <1>2 DEF TakeThreadLock, ThreadLockTimeout, CreatePollLock,
       FindAbandonedPollLock, UnlinkPollLock, PollLockTimeout, RereadStatus,
       RefuseCorrupt, AnswerFromCache, AnswerBusy, Goto, history, metadata,
       TypeInv, TypeOK
<1>3. CASE BeginPoll(p) \/ ReleasePollLock(p) \/ ReturnBusy(p)
  <2>1. /\ pc'[p] # "noted" /\ UNCHANGED <<lastFresh, disk, memory>>
        /\ \A r \in Pollers : r # p => immediate'[r] = immediate[r]
    BY <1>3 DEF BeginPoll, ReleasePollLock, ReturnBusy, Return, Goto, metadata,
                TypeInv, TypeOK
  <2> QED BY <1>1, <2>1
<1>4. CASE NoteSnapshot(p)
  <2>1. /\ memory'[ProcOf[p]].at = now /\ pc'[p] = "noted"
        /\ UNCHANGED <<lastFresh, disk, immediate>>
    BY <1>4, ProcOfAssumption DEF NoteSnapshot, Goto, history, TypeInv, TypeOK
  <2>2. \A r \in Pollers : pc[r] # "noted"
    BY <1>4 DEF NoteSnapshot, PollLockExclusive, UnderLock
  <2>3. ~immediate[p] /\ lastFresh # None => now - lastFresh >= Interval
    <3> SUFFICES ASSUME ~immediate[p], lastFresh # None
                 PROVE  now - lastFresh >= Interval
      OBVIOUS
    <3>1. disk # Corrupt /\ ~Throttled(p, Effective(ProcOf[p]))
      BY <1>4 DEF NoteSnapshot
    <3>2. disk \in Metas /\ disk.at = lastFresh
      BY <1>0, <3>1 DEF CooldownInv, TypeInv, TypeOK
    <3>3. ~(now - lastFresh < Interval)
      BY <3>1, <3>2, NoneAssumption DEF Throttled, Effective
    <3>4. now \in Int /\ lastFresh \in Int /\ Interval \in Int
      BY <3>2, MaxTimeAssumption, IntervalAssumption
         DEF Metas, Times, TypeInv, TypeOK
    <3> QED BY <3>3, <3>4
  <2>4. \A r \in Pollers : pc'[r] = "noted" => r = p
    BY <1>0, <2>2
  <2> QED BY <1>0, <2>1, <2>3, <2>4 DEF CooldownInv
<1>5. CASE WriteMetadata(p)
  <2>1. disk' = memory[ProcOf[p]] /\ lastFresh' = memory[ProcOf[p]].at
    BY <1>5 DEF WriteMetadata
  <2>2. memory[ProcOf[p]] \in Metas
    BY <1>5 DEF WriteMetadata, TypeInv, ReadOK
  <2>3. disk' # None
    BY <2>1, <2>2, NoneAssumption
  <2>4. \A r \in Pollers : pc'[r] # "noted"
    BY <1>0, <1>5 DEF WriteMetadata, Goto, PollLockExclusive, UnderLock, TypeInv,
                      TypeOK
  <2> QED BY <2>1, <2>3, <2>4 DEF CooldownInv
<1> QED BY <1>2, <1>3, <1>4, <1>5 DEF PollStep

LEMMA CooldownStep ==
  ASSUME TypeInv, PollLockExclusive, CooldownInv, [Next]_vars
  PROVE  CooldownInv'
<1>1. ASSUME NEW p \in Pollers, BeginPoll(p) \/ PollStep(p) PROVE CooldownInv'
  BY <1>1, CooldownPoll
<1>2. CASE AdvanceJob \/ ClockTick \/ UNCHANGED vars
  BY <1>2 DEF AdvanceJob, ClockTick, vars, CooldownInv, metadata, history
<1>3. CASE DamageMetadata
  BY <1>3, NoneAssumption DEF DamageMetadata, CooldownInv, history
<1>4. ASSUME NEW q \in Procs, CrashProcess(q) PROVE CooldownInv'
  <2>1. /\ UNCHANGED <<faults, disk, immediate, lastFresh>>
        /\ \A p \in Pollers : pc'[p] = "noted" =>
              pc[p] = "noted" /\ memory'[ProcOf[p]] = memory[ProcOf[p]]
    BY <1>4, ProcOfAssumption DEF CrashProcess, history, TypeInv, TypeOK
  <2> QED BY <2>1 DEF CooldownInv
<1> QED BY <1>1, <1>2, <1>3, <1>4 DEF Next

\* The cooldown in one step: the answer is given by WriteMetadata.
LEMMA CooldownActs ==
  ASSUME TypeInv, CooldownInv, [Next]_vars, FreshAgain, "write" \notin faults
  PROVE  lastFresh' - lastFresh >= Interval
<1>1. PICK p \in Pollers : pc[p] = "noted" /\ pc'[p] = "answered" /\ ~immediate[p]
  BY DEF FreshAgain
<1>2. lastFresh # None
  BY DEF FreshAgain
<1>3. memory[ProcOf[p]].at - lastFresh >= Interval
  BY <1>1, <1>2 DEF CooldownInv
<1>4. ASSUME NEW r \in Pollers, BeginPoll(r) \/ PollStep(r)
      PROVE  WriteMetadata(p)
  <2>1. r = p
    BY <1>1, <1>4, PollStepKinds
  <2> QED BY <1>1, <1>4, <2>1 DEF BeginPoll, PollStep, TakeThreadLock, ThreadLockTimeout,
       CreatePollLock, FindAbandonedPollLock, UnlinkPollLock, PollLockTimeout,
       RereadStatus, RefuseCorrupt, AnswerFromCache, NoteSnapshot,
       ReleasePollLock, AnswerBusy, ReturnBusy
<1>5. ~(AdvanceJob \/ ClockTick \/ DamageMetadata \/ UNCHANGED vars)
  BY <1>1 DEF AdvanceJob, ClockTick, DamageMetadata, vars
<1>6. \A q \in Procs : ~CrashProcess(q)
  BY <1>1 DEF CrashProcess
<1>7. WriteMetadata(p)
  BY <1>4, <1>5, <1>6 DEF Next
<1> QED BY <1>3, <1>7 DEF WriteMetadata

\* Two fresh answers are Interval apart unless the second was asked for at
\* once, whichever of the processes gave them, timed out, died or damaged the
\* file in between, up to the first write of the metadata that fails.
THEOREM CooldownIsKept ==
  ASSUME FewProcesses
  PROVE  Spec => CooldownKept
<1>1. Init => CooldownInv
  BY NoneAssumption DEF Init, CooldownInv
<1>2. PollInv /\ CooldownInv /\ [Next]_vars => PollInv' /\ CooldownInv'
  BY PollInvStep, FewExclude, CooldownStep DEF PollInv
<1>3. PollInv /\ CooldownInv /\ [Next]_vars
         => [FreshAgain /\ "write" \notin faults
               => lastFresh' - lastFresh >= Interval]_vars
  BY CooldownActs DEF PollInv
<1> QED BY <1>1, <1>2, <1>3, PollInvInit, PTL DEF Spec, CooldownKept

-----------------------------------------------------------------------------
(***************************************************************************)
(* No answer is older than one given before                                *)
(***************************************************************************)

Reading == {p \in Pollers : pc[p] \in {"reread", "noted"}}

\* Nothing answered so far is ahead of the job.
AnswersAge ==
    /\ best <= Rank(status)
    /\ \A p \in Pollers : began[p] <= 1 /\ began[p] <= Rank(status)

\* What is on disk is as new as every answer, unless one said the job is over.
DiskAge ==
    disk # None =>
        /\ Rank(disk.snap) <= Rank(status)
        /\ best = 2 \/ best <= Rank(disk.snap)
        /\ \A p \in Pollers : began[p] <= Rank(disk.snap)

\* What a poll under the lock has read is as new as that and as the disk.
ReadAge ==
    \A p \in Reading :
        /\ Rank(snap[p]) <= Rank(status)
        /\ disk # None => Rank(disk.snap) <= Rank(snap[p])
        /\ best = 2 \/ best <= Rank(snap[p])
        /\ \A r \in Pollers : began[r] <= Rank(snap[p])
        /\ pc[p] = "noted" => memory[ProcOf[p]].snap = snap[p]

\* What is only in memory is what a poll under the lock has read.
MemoryAge ==
    disk = None => \A q \in Procs : memory[q] # None =>
        \E p \in Pollers : ProcOf[p] = q /\ pc[p] = "noted"

\* All of it as long as the metadata can be written and read.
AgeInv ==
    faults = {} => /\ disk # Corrupt /\ AnswersAge /\ DiskAge /\ ReadAge
                   /\ MemoryAge

AgeTypeInv == TypeInv /\ PollLockExclusive /\ AgeInv

LEMMA Ranks ==
  /\ \A s \in States : Rank(s) \in 0..2 /\ (Rank(s) = 2 <=> s = "over")
  /\ \A m \in Metas : m.snap \in States /\ Rank(m.snap) \in 0..1
BY DEF States, Metas, Rank

\* What an answer adds to what was answered so far.
LEMMA BestAnswer ==
  ASSUME TypeInv, NEW p \in Pollers, NEW s \in States \union {None}, Answer(p, s)
  PROVE  /\ snap'[p] = s
         /\ \A r \in Pollers : r # p => snap'[r] = snap[r]
         /\ best' \in 0..2
         /\ \/ best' = best
            \/ s # None /\ s \in States /\ best' = Rank(s)
BY Ranks DEF TypeInv, TypeOK, Answer

\* An answer from status.json or from what is remembered is no newer than what
\* a poll under the lock has read, unless it says that the job is over.
LEMMA AnswerStep ==
  ASSUME AgeTypeInv, NEW p \in Pollers, NEW s \in States \union {None},
         Answer(p, s), p \notin Reading', pc[p] # "noted",
         \A r \in Pollers : r # p => pc'[r] = pc[r],
         UNCHANGED <<status, disk, memory, began, faults>>,
         faults = {} /\ s # None =>
            /\ Rank(s) <= Rank(status)
            /\ s = "over" \/ /\ disk # None => Rank(s) <= Rank(disk.snap)
                             /\ \A r \in Reading \ {p} : Rank(s) <= Rank(snap[r])
  PROVE  AgeInv'
<1> SUFFICES ASSUME faults = {} PROVE AgeInv'
  BY DEF AgeInv
<1>1. /\ \A r \in Pollers : r # p => snap'[r] = snap[r]
      /\ \/ best' = best
         \/ s # None /\ s \in States /\ best' = Rank(s)
  BY BestAnswer DEF AgeTypeInv
<1>2. \A r \in Reading' : r \in Reading \ {p} /\ snap'[r] = snap[r] /\ pc'[r] = pc[r]
  BY <1>1 DEF Reading
<1>3. best' = best \/ best' = 2
      \/ /\ disk # None => best' <= Rank(disk.snap)
         /\ \A r \in Reading \ {p} : best' <= Rank(snap[r])
  BY <1>1, Ranks
<1>4. AnswersAge'
  BY <1>1 DEF AgeTypeInv, AgeInv, AnswersAge
<1>5. DiskAge'
  BY <1>3 DEF AgeTypeInv, AgeInv, DiskAge
<1>6. ReadAge'
  BY <1>2, <1>3 DEF AgeTypeInv, AgeInv, ReadAge
<1>7. MemoryAge'
  BY DEF AgeTypeInv, AgeInv, MemoryAge
<1> QED BY <1>4, <1>5, <1>6, <1>7 DEF AgeTypeInv, AgeInv

\* A poll that is not among those that have read, and does not get there.
LEMMA AgeKept ==
  ASSUME AgeTypeInv, NEW p \in Pollers, p \notin Reading', pc[p] # "noted",
         \A r \in Pollers : r # p => pc'[r] = pc[r] /\ snap'[r] = snap[r],
         \A r \in Pollers : began'[r] = began[r] \/ began'[r] = 0,
         UNCHANGED <<status, disk, memory, best, faults>>
  PROVE  AgeInv'
<1> SUFFICES ASSUME faults = {} PROVE AgeInv'
  BY DEF AgeInv
<1>1. \A r \in Reading' : r \in Reading \ {p} /\ snap'[r] = snap[r] /\ pc'[r] = pc[r]
  BY DEF Reading
<1>2. /\ Rank(status) >= 0
      /\ disk # None => Rank(disk.snap) >= 0
      /\ \A r \in Reading : Rank(snap[r]) >= 0
  BY Ranks DEF AgeTypeInv, AgeInv, TypeInv, TypeOK, ReadOK, Reading, States
<1>3. AnswersAge' /\ DiskAge'
  BY <1>2 DEF AgeTypeInv, AgeInv, AnswersAge, DiskAge
<1>4. ReadAge'
  BY <1>1, <1>2 DEF AgeTypeInv, AgeInv, ReadAge
<1>5. MemoryAge'
  BY DEF AgeTypeInv, AgeInv, MemoryAge
<1> QED BY <1>3, <1>4, <1>5 DEF AgeTypeInv, AgeInv

LEMMA AgeWait ==
  ASSUME AgeTypeInv, NEW p \in Pollers,
         \/ TakeThreadLock(p) \/ ThreadLockTimeout(p)
         \/ CreatePollLock(p) \/ FindAbandonedPollLock(p) \/ UnlinkPollLock(p)
         \/ PollLockTimeout(p)
  PROVE  AgeInv'
<1>1. /\ pc[p] # "noted" /\ pc'[p] \in {"file", "timedout", "locked", "steal"}
      /\ UNCHANGED <<status, disk, memory, best, faults, snap, began>>
  BY DEF TakeThreadLock, ThreadLockTimeout, CreatePollLock, FindAbandonedPollLock,
         UnlinkPollLock, PollLockTimeout, Goto, environment, metadata, history,
         AgeTypeInv, TypeInv, TypeOK
<1>2. \A r \in Pollers : r # p => pc'[r] = pc[r]
  BY PollStepKinds DEF AgeTypeInv, PollStep
<1> QED BY <1>1, <1>2, AgeKept DEF Reading

LEMMA AgeReturn ==
  ASSUME AgeTypeInv, NEW p \in Pollers, ReleasePollLock(p) \/ ReturnBusy(p)
  PROVE  AgeInv'
<1>1. pc[p] # "noted" /\ Return(p)
  BY DEF ReleasePollLock, ReturnBusy
<1>2. /\ pc'[p] = "idle"
      /\ \A r \in Pollers : r # p => pc'[r] = pc[r] /\ snap'[r] = snap[r]
      /\ \A r \in Pollers : began'[r] = began[r] \/ began'[r] = 0
      /\ UNCHANGED <<status, disk, memory, best, faults>>
  BY <1>1 DEF Return, Goto, environment, metadata, AgeTypeInv, TypeInv, TypeOK
<1> QED BY <1>1, <1>2, AgeKept DEF Reading

LEMMA AgeBegin ==
  ASSUME AgeTypeInv, NEW p \in Pollers, BeginPoll(p)
  PROVE  AgeInv'
<1> SUFFICES ASSUME faults = {} PROVE AgeInv'
  BY DEF AgeInv, BeginPoll, environment
<1>1. /\ pc[p] = "idle" /\ pc'[p] \in {"idle", "thread"}
      /\ \A r \in Pollers : r # p => pc'[r] = pc[r]
      /\ UNCHANGED <<status, disk, memory, faults, snap>>
  BY DEF BeginPoll, Goto, environment, metadata, AgeTypeInv, TypeInv, TypeOK
<1>2. Reading' = Reading /\ \A r \in Reading : pc'[r] = pc[r]
  BY <1>1 DEF Reading
<1>3. MemoryAge'
  BY <1>1 DEF AgeTypeInv, AgeInv, MemoryAge
<1>4. CASE status = "over" /\ best' = Rank("over") /\ UNCHANGED began
  <2>1. Rank("over") = 2
    BY DEF Rank
  <2>2. AnswersAge' /\ DiskAge' /\ ReadAge'
    BY <1>1, <1>2, <1>4, <2>1
       DEF AgeTypeInv, AgeInv, AnswersAge, DiskAge, ReadAge
  <2> QED BY <1>1, <1>3, <2>2 DEF AgeTypeInv, AgeInv
<1>5. CASE status # "over" /\ began' = [began EXCEPT ![p] = best] /\ UNCHANGED best
  <2>1. Rank(status) \in 0..1 /\ best <= Rank(status) /\ best \in 0..2
    BY <1>5, Ranks DEF AgeTypeInv, AgeInv, AnswersAge, TypeInv, TypeOK
  <2>2. best \in 0..1
    BY <2>1
  <2>3. \A r \in Pollers : began'[r] = began[r] \/ began'[r] = best
    BY <1>5 DEF AgeTypeInv, TypeInv, TypeOK
  <2>4. AnswersAge' /\ DiskAge'
    BY <1>1, <1>5, <2>1, <2>2, <2>3
       DEF AgeTypeInv, AgeInv, AnswersAge, DiskAge
  <2>5. ReadAge'
    BY <1>1, <1>2, <1>5, <2>2, <2>3 DEF AgeTypeInv, AgeInv, ReadAge
  <2> QED BY <1>1, <1>3, <2>4, <2>5 DEF AgeTypeInv, AgeInv
<1> QED BY <1>4, <1>5 DEF BeginPoll

LEMMA AgeReread ==
  ASSUME AgeTypeInv, NEW p \in Pollers, RereadStatus(p)
  PROVE  AgeInv'
<1>0. \A r \in Pollers : r # p => pc'[r] = pc[r]
  BY PollStepKinds DEF AgeTypeInv, PollStep
<1>1. /\ pc[p] = "locked"
      /\ UNCHANGED <<status, disk, memory, faults, began>>
  BY DEF RereadStatus, environment, metadata
<1>2. CASE status = "over"
  <2>1. Answer(p, "over") /\ pc'[p] = "answered"
    BY <1>2 DEF RereadStatus, Goto, AgeTypeInv, TypeInv, TypeOK
  <2>2. "over" \in States \union {None} /\ Rank("over") <= Rank(status)
    BY <1>2 DEF States, Rank
  <2>3. p \notin Reading'
    BY <2>1 DEF Reading
  <2> QED BY <1>0, <1>1, <2>1, <2>2, <2>3, AnswerStep
<1>3. CASE status # "over"
  <2> SUFFICES ASSUME faults = {} PROVE AgeInv'
    BY <1>1 DEF AgeInv
  <2>1. /\ snap' = [snap EXCEPT ![p] = status] /\ pc'[p] = "reread"
        /\ best' = best
    BY <1>3 DEF RereadStatus, Goto, AgeTypeInv, TypeInv, TypeOK
  <2>2. /\ snap'[p] = status
        /\ \A r \in Reading' : r # p => r \in Reading /\ pc'[r] = pc[r]
                                        /\ snap'[r] = snap[r]
    BY <1>0, <2>1 DEF Reading, AgeTypeInv, TypeInv, TypeOK
  <2>3. Rank(status) \in 0..2
    BY Ranks DEF AgeTypeInv, TypeInv, TypeOK
  <2>4. AnswersAge' /\ DiskAge'
    BY <1>1, <2>1 DEF AgeTypeInv, AgeInv, AnswersAge, DiskAge
  <2>5. ReadAge'
    BY <1>1, <2>1, <2>2, <2>3
       DEF AgeTypeInv, AgeInv, AnswersAge, DiskAge, ReadAge
  <2>6. MemoryAge'
    BY <1>0, <1>1 DEF AgeTypeInv, AgeInv, MemoryAge
  <2> QED BY <1>1, <2>4, <2>5, <2>6 DEF AgeTypeInv, AgeInv
<1> QED BY <1>2, <1>3

\* Under the lock the cache is the disk: while nothing is there, only a poll
\* that is under the lock has something in memory.
LEMMA CachedAnswer ==
  ASSUME AgeTypeInv, NEW p \in Pollers, AnswerFromCache(p), faults = {}
  PROVE  /\ Effective(ProcOf[p]) = disk /\ disk \in Metas
         /\ Rank(disk.snap) <= Rank(status) /\ Rank(disk.snap) >= began[p]
<1>1. Effective(ProcOf[p]) # None /\ pc[p] = "reread" /\ ProcOf[p] \in Procs
  BY ProcOfAssumption DEF AnswerFromCache, Throttled
<1>2. disk # None
  <2> SUFFICES ASSUME disk = None PROVE FALSE
    OBVIOUS
  <2>1. PICK r \in Pollers : pc[r] = "noted"
    BY <1>1 DEF AgeTypeInv, AgeInv, MemoryAge, Effective
  <2> QED BY <1>1, <2>1 DEF AgeTypeInv, PollLockExclusive, UnderLock
<1>3. disk \in Metas /\ began[p] \in 0..2
  BY <1>2 DEF AgeTypeInv, AgeInv, TypeInv, TypeOK
<1> QED BY <1>2, <1>3, Ranks DEF AgeTypeInv, AgeInv, DiskAge, Effective

LEMMA AgeCache ==
  ASSUME AgeTypeInv, NEW p \in Pollers, AnswerFromCache(p)
  PROVE  AgeInv'
<1>0. \A r \in Pollers : r # p => pc'[r] = pc[r]
  BY PollStepKinds DEF AgeTypeInv, PollStep
<1>1. /\ pc[p] = "reread" /\ pc'[p] = "answered"
      /\ Answer(p, Effective(ProcOf[p]).snap)
      /\ UNCHANGED <<status, disk, memory, faults, began>>
  BY DEF AnswerFromCache, Goto, environment, metadata, AgeTypeInv, TypeInv, TypeOK
<1> SUFFICES ASSUME faults = {} PROVE AgeInv'
  BY <1>1 DEF AgeInv
<1>2. /\ Effective(ProcOf[p]).snap = disk.snap /\ disk.snap \in States
      /\ Rank(disk.snap) <= Rank(status)
  BY CachedAnswer, Ranks
<1>3. \A r \in Reading : Rank(disk.snap) <= Rank(snap[r])
  BY CachedAnswer, NoneAssumption DEF AgeTypeInv, AgeInv, ReadAge
<1>4. p \notin Reading'
  BY <1>1 DEF Reading
<1>5. Rank(disk.snap) <= Rank(disk.snap)
  BY <1>2, Ranks
<1> QED BY <1>0, <1>1, <1>2, <1>3, <1>4, <1>5, AnswerStep

LEMMA AgeNote ==
  ASSUME AgeTypeInv, NEW p \in Pollers, NoteSnapshot(p)
  PROVE  AgeInv'
<1> SUFFICES ASSUME faults = {} PROVE AgeInv'
  BY DEF AgeInv, NoteSnapshot, environment
<1>0. \A r \in Pollers : r # p => pc'[r] = pc[r]
  BY PollStepKinds DEF AgeTypeInv, PollStep
<1>1. /\ pc[p] = "reread" /\ pc'[p] = "noted" /\ ProcOf[p] \in Procs
      /\ memory' = [memory EXCEPT ![ProcOf[p]] = [snap |-> snap[p], at |-> now]]
      /\ UNCHANGED <<status, disk, faults, snap, best, began>>
  BY ProcOfAssumption DEF NoteSnapshot, Goto, environment, history, AgeTypeInv,
     TypeInv, TypeOK
<1>2. \A r \in Reading' : r = p
  BY <1>0, <1>1 DEF AgeTypeInv, PollLockExclusive, UnderLock, Reading
<1>3. memory'[ProcOf[p]].snap = snap[p] /\ p \in Reading
  BY <1>1 DEF AgeTypeInv, TypeInv, TypeOK, Reading
<1>4. AnswersAge' /\ DiskAge'
  BY <1>1 DEF AgeTypeInv, AgeInv, AnswersAge, DiskAge
<1>5. ReadAge'
  BY <1>1, <1>2, <1>3 DEF AgeTypeInv, AgeInv, ReadAge
<1>6. MemoryAge'
  <2> SUFFICES ASSUME disk = None, NEW q \in Procs, memory'[q] # None
               PROVE  \E r \in Pollers : ProcOf[r] = q /\ pc'[r] = "noted"
    BY <1>1 DEF MemoryAge
  <2>1. CASE q = ProcOf[p]
    BY <1>1, <2>1
  <2>2. CASE q # ProcOf[p]
    <3>1. memory[q] # None
      BY <1>1, <2>2 DEF AgeTypeInv, TypeInv, TypeOK
    <3>2. PICK r \in Pollers : ProcOf[r] = q /\ pc[r] = "noted"
      BY <3>1 DEF AgeTypeInv, AgeInv, MemoryAge
    <3> QED BY <1>0, <2>2, <3>2
  <2> QED BY <2>1, <2>2
<1> QED BY <1>1, <1>4, <1>5, <1>6 DEF AgeTypeInv, AgeInv

\* The fresh answer is on disk as soon as it is given.
LEMMA AgeWrite ==
  ASSUME AgeTypeInv, NEW p \in Pollers, WriteMetadata(p)
  PROVE  AgeInv'
<1> SUFFICES ASSUME faults' = {} PROVE AgeInv'
  BY DEF AgeInv
<1>0. \A r \in Pollers : r # p => pc'[r] = pc[r]
  BY PollStepKinds DEF AgeTypeInv, PollStep
<1>1. /\ pc[p] = "noted" /\ pc'[p] = "answered" /\ faults = {}
      /\ disk' = memory[ProcOf[p]] /\ Answer(p, snap[p])
      /\ UNCHANGED <<status, memory, began>>
  BY DEF WriteMetadata, Goto, AgeTypeInv, TypeInv, TypeOK
<1>2. /\ memory[ProcOf[p]] \in Metas /\ memory[ProcOf[p]].snap = snap[p]
      /\ p \in Reading
  BY <1>1 DEF AgeTypeInv, AgeInv, TypeInv, ReadOK, ReadAge, Reading
<1>3. Reading' = {}
  BY <1>0, <1>1 DEF AgeTypeInv, PollLockExclusive, UnderLock, Reading
<1>4. /\ snap[p] \in States \union {None}
      /\ Rank(snap[p]) \in 0..1
  BY <1>2, Ranks
<1>5. best' = best \/ best' = Rank(snap[p])
  BY <1>1, <1>4, BestAnswer DEF AgeTypeInv
<1>6. /\ Rank(snap[p]) <= Rank(status)
      /\ best = 2 \/ best <= Rank(snap[p])
      /\ \A r \in Pollers : began[r] <= Rank(snap[p])
  BY <1>1, <1>2 DEF AgeTypeInv, AgeInv, ReadAge
<1>7. AnswersAge'
  BY <1>1, <1>5, <1>6 DEF AgeTypeInv, AgeInv, AnswersAge
<1>8. DiskAge'
  <2>1. best' = 2 \/ best' <= Rank(snap[p])
    BY <1>4, <1>5, <1>6
  <2> QED BY <1>1, <1>2, <1>6, <2>1 DEF DiskAge
<1>9. disk' \notin {None, Corrupt}
  BY <1>1, <1>2, NoneAssumption
<1> QED BY <1>3, <1>7, <1>8, <1>9 DEF AgeInv, ReadAge, MemoryAge

\* What a poll that gave up remembers: the end of the job, what is on disk, or
\* what a poll of its process is about to write there.
LEMMA BusyAnswer ==
  ASSUME AgeTypeInv, NEW p \in Pollers, AnswerBusy(p)
  PROVE  \E s \in States \union {None} :
            /\ Answer(p, s)
            /\ faults = {} /\ s # None =>
                  /\ Rank(s) <= Rank(status) /\ Rank(s) >= began[p]
                  /\ s = "over" \/ /\ disk # None => Rank(s) <= Rank(disk.snap)
                                   /\ \A r \in Reading : Rank(s) <= Rank(snap[r])
<1> DEFINE meta == Remembered(ProcOf[p])
           s == IF status = "over" THEN status
                ELSE IF meta # None THEN meta.snap ELSE None
<1>1. ProcOf[p] \in Procs /\ began[p] \in 0..2
  BY ProcOfAssumption DEF AgeTypeInv, TypeInv, TypeOK
<1>2. meta \in Metas \union {None}
  BY <1>1, MetaType DEF AgeTypeInv, TypeInv
<1>3. s \in States \union {None} /\ Answer(p, s)
  BY <1>2, Ranks DEF AnswerBusy, States
<1>4. ASSUME faults = {}, s # None
      PROVE  /\ Rank(s) <= Rank(status) /\ Rank(s) >= began[p]
             /\ s = "over" \/ /\ disk # None => Rank(s) <= Rank(disk.snap)
                              /\ \A r \in Reading : Rank(s) <= Rank(snap[r])
  <2>1. CASE status = "over"
    <3>1. Rank(status) = 2
      BY <2>1 DEF Rank
    <3> QED BY <1>1, <2>1, <3>1
  <2>2. CASE status # "over" /\ disk # None
    <3>1. disk \in Metas
      BY <1>4, <2>2 DEF AgeTypeInv, AgeInv, TypeInv, TypeOK
    <3>2. s = disk.snap
      BY <1>4, <2>2 DEF Remembered, AgeTypeInv, AgeInv
    <3>3. Rank(disk.snap) \in 0..1
      BY <3>1, Ranks
    <3> HIDE DEF s, meta
    <3> QED BY <1>1, <1>4, <2>2, <3>2, <3>3
            DEF AgeTypeInv, AgeInv, DiskAge, ReadAge
  <2>3. CASE status # "over" /\ disk = None
    <3>1. memory[ProcOf[p]] # None /\ s = memory[ProcOf[p]].snap
      BY <1>4, <2>3 DEF Remembered
    <3>2. PICK r \in Pollers : ProcOf[r] = ProcOf[p] /\ pc[r] = "noted"
      BY <1>1, <1>4, <2>3, <3>1 DEF AgeTypeInv, AgeInv, MemoryAge
    <3>3. s = snap[r] /\ r \in Reading
      BY <1>4, <3>1, <3>2 DEF AgeTypeInv, AgeInv, ReadAge, Reading
    <3>4. \A t \in Reading : t = r
      BY <3>2 DEF AgeTypeInv, PollLockExclusive, UnderLock, Reading
    <3>5. Rank(snap[r]) \in 0..2
      BY <3>2, Ranks DEF AgeTypeInv, TypeInv, ReadOK, States
    <3> HIDE DEF s, meta
    <3> QED BY <1>1, <1>4, <2>3, <3>3, <3>4, <3>5
            DEF AgeTypeInv, AgeInv, ReadAge
  <2> QED BY <2>1, <2>2, <2>3
<1> HIDE DEF s, meta
<1> QED BY <1>3, <1>4

LEMMA AgeBusy ==
  ASSUME AgeTypeInv, NEW p \in Pollers, AnswerBusy(p)
  PROVE  AgeInv'
<1>0. \A r \in Pollers : r # p => pc'[r] = pc[r]
  BY PollStepKinds DEF AgeTypeInv, PollStep
<1>1. /\ pc[p] = "timedout" /\ pc'[p] = "replied"
      /\ UNCHANGED <<status, disk, memory, faults, began>>
  BY DEF AnswerBusy, Goto, environment, metadata, AgeTypeInv, TypeInv, TypeOK
<1>2. p \notin Reading'
  BY <1>1 DEF Reading
<1>3. PICK s \in States \union {None} :
        /\ Answer(p, s)
        /\ faults = {} /\ s # None =>
              /\ Rank(s) <= Rank(status)
              /\ s = "over" \/ /\ disk # None => Rank(s) <= Rank(disk.snap)
                               /\ \A r \in Reading : Rank(s) <= Rank(snap[r])
  BY BusyAnswer
<1> QED BY <1>0, <1>1, <1>2, <1>3, AnswerStep

LEMMA AgeAround ==
  ASSUME AgeTypeInv,
         \/ AdvanceJob \/ ClockTick \/ DamageMetadata \/ UNCHANGED vars
         \/ \E q \in Procs : CrashProcess(q)
  PROVE  AgeInv'
<1>1. CASE AdvanceJob
  <2> SUFFICES ASSUME faults = {} PROVE AgeInv'
    BY <1>1 DEF AgeInv, AdvanceJob
  <2>1. /\ Rank(status) \in 0..2 /\ Rank(status') \in 0..2
        /\ Rank(status') > Rank(status)
    BY <1>1, Ranks DEF AdvanceJob, AgeTypeInv, TypeInv, TypeOK
  <2>2. UNCHANGED <<disk, memory, pc, snap, best, began, faults>> /\ Reading' = Reading
    BY <1>1 DEF AdvanceJob, metadata, history, Reading
  <2>3. /\ best \in 0..2 /\ \A p \in Pollers : began[p] \in 0..2
        /\ disk # None => Rank(disk.snap) \in 0..1
        /\ \A p \in Reading : Rank(snap[p]) \in 0..2
    BY Ranks DEF AgeTypeInv, AgeInv, TypeInv, TypeOK, ReadOK, Reading, States
  <2>4. AnswersAge'
    BY <2>1, <2>2, <2>3 DEF AgeTypeInv, AgeInv, AnswersAge
  <2>5. DiskAge'
    BY <2>1, <2>2, <2>3 DEF AgeTypeInv, AgeInv, DiskAge
  <2>6. ReadAge'
    BY <2>1, <2>2, <2>3 DEF AgeTypeInv, AgeInv, ReadAge
  <2> QED BY <2>2, <2>4, <2>5, <2>6 DEF AgeTypeInv, AgeInv, MemoryAge
<1>2. CASE ClockTick \/ UNCHANGED vars
  BY <1>2 DEF ClockTick, vars, metadata, history, AgeTypeInv, AgeInv, AnswersAge,
     DiskAge, ReadAge, MemoryAge, Reading
<1>3. CASE DamageMetadata
  BY <1>3 DEF DamageMetadata, AgeInv
<1>4. ASSUME NEW q \in Procs, CrashProcess(q) PROVE AgeInv'
  <2> SUFFICES ASSUME faults = {} PROVE AgeInv'
    BY <1>4 DEF AgeInv, CrashProcess
  <2>1. /\ UNCHANGED <<status, disk, snap, best, began, faults>>
        /\ memory' = [memory EXCEPT ![q] = None]
        /\ \A p \in Pollers : pc'[p] = IF ProcOf[p] = q THEN "dead" ELSE pc[p]
    BY <1>4 DEF CrashProcess, history
  <2>2. \A p \in Reading' : /\ p \in Reading /\ pc'[p] = pc[p]
                            /\ memory'[ProcOf[p]] = memory[ProcOf[p]]
    BY <2>1, ProcOfAssumption DEF Reading, AgeTypeInv, TypeInv, TypeOK
  <2>3. AnswersAge' /\ DiskAge'
    BY <2>1 DEF AgeTypeInv, AgeInv, AnswersAge, DiskAge
  <2>4. ReadAge'
    BY <2>1, <2>2 DEF AgeTypeInv, AgeInv, ReadAge
  <2>5. MemoryAge'
    BY <2>1 DEF AgeTypeInv, AgeInv, MemoryAge, TypeInv, TypeOK
  <2> QED BY <2>1, <2>3, <2>4, <2>5 DEF AgeTypeInv, AgeInv
<1> QED BY <1>1, <1>2, <1>3, <1>4

LEMMA AgeStep ==
  ASSUME AgeTypeInv, [Next]_vars
  PROVE  AgeInv'
<1>1. ASSUME NEW p \in Pollers, RefuseCorrupt(p) PROVE AgeInv'
  BY <1>1 DEF RefuseCorrupt, environment, AgeTypeInv, AgeInv
<1>2. ASSUME NEW p \in Pollers, BeginPoll(p) \/ PollStep(p) PROVE AgeInv'
  BY <1>1, <1>2, AgeBegin, AgeWait, AgeReread, AgeCache, AgeNote, AgeWrite, AgeReturn,
     AgeBusy DEF PollStep
<1> QED BY <1>2, AgeAround DEF Next

\* An answer in one step.
LEMMA AgeActs ==
  ASSUME AgeTypeInv, [Next]_vars, NEW p \in Pollers, faults = {},
         pc[p] \notin {"answered", "replied"}, pc'[p] \in {"answered", "replied"},
         snap'[p] # None
  PROVE  Rank(snap'[p]) >= began[p]
<1>1. began[p] \in 0..1
  BY DEF AgeTypeInv, AgeInv, AnswersAge, TypeInv, TypeOK
<1>2. ASSUME NEW r \in Pollers, BeginPoll(r) \/ PollStep(r)
      PROVE  \/ RereadStatus(p) \/ RefuseCorrupt(p) \/ AnswerFromCache(p)
             \/ WriteMetadata(p) \/ AnswerBusy(p)
  <2>1. r = p
    BY <1>2, PollStepKinds DEF AgeTypeInv
  <2> QED BY <1>2, <2>1 DEF BeginPoll, PollStep, TakeThreadLock, ThreadLockTimeout,
       CreatePollLock, FindAbandonedPollLock, UnlinkPollLock, PollLockTimeout,
       NoteSnapshot, ReleasePollLock, ReturnBusy, Return, Goto, AgeTypeInv, TypeInv,
       TypeOK
<1>3. ~(AdvanceJob \/ ClockTick \/ DamageMetadata \/ UNCHANGED vars)
  BY DEF AdvanceJob, ClockTick, DamageMetadata, vars
<1>4. \A q \in Procs : ~CrashProcess(q)
  BY DEF CrashProcess
<1>5. CASE RereadStatus(p)
  <2>1. Answer(p, "over")
    BY <1>5 DEF RereadStatus, Goto, AgeTypeInv, TypeInv, TypeOK
  <2>2. snap'[p] = "over"
    BY <2>1 DEF Answer, AgeTypeInv, TypeInv, TypeOK
  <2> QED BY <1>1, <2>2 DEF Rank
<1>6. CASE RefuseCorrupt(p)
  BY <1>6 DEF RefuseCorrupt, AgeTypeInv, AgeInv
<1>7. CASE AnswerFromCache(p)
  <2>1. snap'[p] = disk.snap
    BY <1>7, CachedAnswer DEF AnswerFromCache, Answer, AgeTypeInv, TypeInv, TypeOK
  <2> QED BY <1>7, <2>1, CachedAnswer
<1>8. CASE WriteMetadata(p)
  <2>1. snap'[p] = snap[p] /\ p \in Reading
    BY <1>8 DEF WriteMetadata, Answer, Reading, AgeTypeInv, TypeInv, TypeOK
  <2>2. Rank(snap[p]) \in 0..2
    BY <1>8, Ranks DEF WriteMetadata, AgeTypeInv, TypeInv, ReadOK, States
  <2> QED BY <1>1, <2>1, <2>2 DEF AgeTypeInv, AgeInv, ReadAge
<1>9. CASE AnswerBusy(p)
  <2>1. PICK s \in States \union {None} :
          Answer(p, s) /\ (s # None => Rank(s) >= began[p])
    BY <1>9, BusyAnswer
  <2>2. snap'[p] = s
    BY <2>1, BestAnswer DEF AgeTypeInv
  <2> QED BY <2>1, <2>2
<1> QED BY <1>2, <1>3, <1>4, <1>5, <1>6, <1>7, <1>8, <1>9 DEF Next

\* A poll never answers an older state of the job than one answered before it
\* began, from the cache, after a timeout or afresh, whichever processes gave
\* the answers or died, up to the first time the metadata cannot be written or
\* is damaged.
THEOREM AnswersOnlyAdvance ==
  ASSUME FewProcesses
  PROVE  Spec => NeverAnswersOlder
<1>1. Init => AgeInv
  <2> SUFFICES ASSUME Init PROVE AgeInv
    OBVIOUS
  <2>1. Rank(status) = 0 /\ disk # Corrupt
    BY NoneAssumption DEF Init, Rank
  <2>2. Reading = {}
    BY DEF Init, Reading
  <2> QED BY <2>1, <2>2 DEF Init, AgeInv, AnswersAge, DiskAge, ReadAge, MemoryAge
<1>2. PollInv /\ AgeInv /\ [Next]_vars => PollInv' /\ AgeInv'
  BY PollInvStep, FewExclude, AgeStep DEF PollInv, AgeTypeInv
<1>3. PollInv /\ AgeInv /\ [Next]_vars
        => [\A p \in Pollers :
              /\ faults = {}
              /\ pc[p] \notin {"answered", "replied"}
              /\ pc'[p] \in {"answered", "replied"} /\ snap'[p] # None
              => Rank(snap'[p]) >= began[p]]_vars
  BY FewExclude, AgeActs DEF PollInv, AgeTypeInv
<1> QED BY <1>1, <1>2, <1>3, PollInvInit, PTL DEF Spec, NeverAnswersOlder
=============================================================================
