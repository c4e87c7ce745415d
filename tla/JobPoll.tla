------------------------------ MODULE JobPoll ------------------------------
(***************************************************************************)
(* poll_task: several threads of several processes (MCP servers, the       *)
(* command line) read the state of one job, throttled to one fresh answer  *)
(* per Interval.  A poll holds a lock of its process (threadLock) and then *)
(* the file poll.lock; the last fresh answer is remembered in the memory   *)
(* of the process that gave it and in poll_meta.json.                      *)
(*                                                                         *)
(*   idle      between two polls                                           *)
(*   thread    waits for the lock of its process                           *)
(*   file      waits for poll.lock                                         *)
(*   steal     has found poll.lock abandoned, has not unlinked it yet      *)
(*   locked    owns poll.lock                                              *)
(*   reread    has read status.json again                                  *)
(*   noted     has put the new snapshot in memory, not on disk yet         *)
(*   answered  has its answer, still owns poll.lock                        *)
(*   timedout  gave up waiting, holds nothing                              *)
(*   replied   has its answer, holds nothing                               *)
(*   dead      its process died                                            *)
(*                                                                         *)
(* The clock counts units much longer than lock_timeout and the ages at    *)
(* which a lock file counts as abandoned, so that an age of one unit is    *)
(* past both; a poll may give up at any time.                              *)
(***************************************************************************)
EXTENDS Integers

CONSTANTS
    Procs,          \* the processes that poll
    Pollers,        \* their threads
    ProcOf,         \* [Pollers -> Procs]
    Crashable,      \* the processes that may die
    Forcing,        \* the pollers that may ask for an immediate answer
    FaultKinds,     \* what may go wrong with poll_meta.json
    Interval,       \* POLL_THROTTLE_INTERVAL_SECONDS
    MaxTime,        \* bound on the clock
    None, Corrupt

ASSUME ProcOfAssumption == ProcOf \in [Pollers -> Procs]
ASSUME FaultKindsAssumption == FaultKinds \subseteq {"write", "corrupt"}
ASSUME ForcingAssumption == Forcing \subseteq Pollers
ASSUME IntervalAssumption == Interval \in Nat \ {0}
ASSUME MaxTimeAssumption == MaxTime \in Nat

VARIABLES
    now,            \* the clock
    status,         \* status.json of the job, every terminal status as over
    alive,          \* the processes that run
    threadLock,     \* per process: the poller that owns the lock of the job
    pollLock,       \* poll.lock: None or its owner (None if not written) and age
    disk,           \* poll_meta.json: None, Corrupt or a snapshot and its time
    memory,         \* per process: the same, in memory
    pc, immediate,  \* per poller: its place, its argument
    snap,           \* per poller: what it read, then what it answers
    faults,         \* history: the kinds of faults that happened
    lastFresh,      \* history: when the last fresh answer was given
    best, began     \* history: the most advanced state answered; the same
                    \* when the poll of each poller began

vars == <<now, status, alive, threadLock, pollLock, disk, memory, pc,
          immediate, snap, faults, lastFresh, best, began>>

States == {"queued", "running", "over"}
Rank(s) == IF s = "queued" THEN 0 ELSE IF s = "running" THEN 1 ELSE 2

Times == 0..MaxTime
Metas == [snap : {"queued", "running"}, at : Times]
Locks == [pid : Procs \union {None}, at : Times]
PollPcs == {"idle", "thread", "file", "steal", "locked", "reread", "noted",
            "answered", "timedout", "replied", "dead"}

\* None and Corrupt are told from every value they stand beside.
ASSUME NoneAssumption ==
    /\ None \notin Procs \union Pollers \union Metas \union Locks \union States
    /\ Corrupt \notin Metas \union {None}

Init ==
    /\ now = 0
    /\ status = "queued"
    /\ alive = Procs
    /\ threadLock = [q \in Procs |-> None]
    /\ pollLock = None
    /\ disk = None
    /\ memory = [q \in Procs |-> None]
    /\ pc = [p \in Pollers |-> "idle"]
    /\ immediate = [p \in Pollers |-> FALSE]
    /\ snap = [p \in Pollers |-> None]
    /\ faults = {}
    /\ lastFresh = None
    /\ best = 0
    /\ began = [p \in Pollers |-> 0]

Goto(p, label) == pc' = [pc EXCEPT ![p] = label]

\* The state an answer carries, if any, and the most advanced one so far.
Answer(p, s) ==
    /\ snap' = [snap EXCEPT ![p] = s]
    /\ best' = IF s # None /\ Rank(s) > best THEN Rank(s) ELSE best

history == <<lastFresh, best, began>>
environment == <<now, status, alive, faults>>
locks == <<threadLock, pollLock>>
metadata == <<disk, memory>>

-----------------------------------------------------------------------------
(***************************************************************************)
(* Waiting for the two locks                                               *)
(***************************************************************************)

\* A terminal state is answered before any lock or metadata is looked at.
BeginPoll(p) ==
    /\ pc[p] = "idle"
    /\ \/ /\ status = "over"
          /\ best' = Rank("over")
          /\ UNCHANGED <<pc, immediate, began>>
       \/ /\ status # "over"
          /\ \E imm \in BOOLEAN :
                /\ imm => p \in Forcing
                /\ immediate' = [immediate EXCEPT ![p] = imm]
          /\ began' = [began EXCEPT ![p] = best]
          /\ Goto(p, "thread")
          /\ UNCHANGED best
    /\ UNCHANGED <<environment, locks, metadata, snap, lastFresh>>

TakeThreadLock(p) ==
    /\ pc[p] = "thread"
    /\ threadLock[ProcOf[p]] = None
    /\ threadLock' = [threadLock EXCEPT ![ProcOf[p]] = p]
    /\ Goto(p, "file")
    /\ UNCHANGED <<environment, pollLock, metadata, immediate, snap, history>>

ThreadLockTimeout(p) ==
    /\ pc[p] = "thread"
    /\ threadLock[ProcOf[p]] # None
    /\ Goto(p, "timedout")
    /\ UNCHANGED <<environment, locks, metadata, immediate, snap, history>>

\* O_CREAT | O_EXCL on poll.lock; the pid is written at once.
CreatePollLock(p) ==
    /\ pc[p] = "file"
    /\ pollLock = None
    /\ pollLock' = [pid |-> ProcOf[p], at |-> now]
    /\ Goto(p, "locked")
    /\ UNCHANGED <<environment, threadLock, metadata, immediate, snap, history>>

\* Mutant: the age of the file alone decides.
PollLockOld == pollLock # None /\ now > pollLock.at

\* The owner is dead, or was never written, and the file is old enough.
PollLockAbandoned ==
    /\ pollLock # None
    /\ pollLock.pid \notin alive
    /\ now > pollLock.at

FindAbandonedPollLock(p) ==
    /\ pc[p] = "file"
    /\ PollLockAbandoned
    /\ Goto(p, "steal")
    /\ UNCHANGED <<environment, locks, metadata, immediate, snap, history>>

\* Whatever file has that name now is unlinked.
UnlinkPollLock(p) ==
    /\ pc[p] = "steal"
    /\ pollLock' = None
    /\ Goto(p, "file")
    /\ UNCHANGED <<environment, threadLock, metadata, immediate, snap, history>>

\* The first attempt found the file there; the finally block gives the lock
\* of the process back.
PollLockTimeout(p) ==
    /\ pc[p] = "file"
    /\ pollLock # None
    /\ threadLock' = [threadLock EXCEPT ![ProcOf[p]] = None]
    /\ Goto(p, "timedout")
    /\ UNCHANGED <<environment, pollLock, metadata, immediate, snap, history>>

-----------------------------------------------------------------------------
(***************************************************************************)
(* The poll under the lock                                                 *)
(***************************************************************************)

\* Mutant: the end of the job while the poll was waiting is overlooked.
RereadBlindly(p) ==
    /\ pc[p] = "locked"
    /\ snap' = [snap EXCEPT ![p] = status]
    /\ Goto(p, "reread")
    /\ UNCHANGED <<environment, locks, metadata, immediate, history>>

\* The job may have ended while the poll was waiting.
RereadStatus(p) ==
    /\ pc[p] = "locked"
    /\ \/ /\ status = "over"
          /\ Answer(p, "over")
          /\ Goto(p, "answered")
       \/ /\ status # "over"
          /\ snap' = [snap EXCEPT ![p] = status]
          /\ Goto(p, "reread")
          /\ UNCHANGED best
    /\ UNCHANGED <<environment, locks, metadata, immediate, began, lastFresh>>

\* The file is preferred, whichever of the two is newer.
Effective(q) == IF disk # None THEN disk ELSE memory[q]

\* Mutant: the interval is one unit short.
ThrottledTooShort(p, meta) ==
    ~immediate[p] /\ meta # None /\ now - meta.at < Interval - 1

Throttled(p, meta) ==
    /\ ~immediate[p]
    /\ meta # None
    /\ now - meta.at < Interval

\* Metadata that cannot be read refuses every poll but an immediate one.
RefuseCorrupt(p) ==
    /\ pc[p] = "reread"
    /\ disk = Corrupt /\ ~immediate[p]
    /\ Answer(p, IF memory[ProcOf[p]] # None THEN memory[ProcOf[p]].snap
                  ELSE None)
    /\ Goto(p, "answered")
    /\ UNCHANGED <<environment, locks, metadata, immediate, began, lastFresh>>

AnswerFromCache(p) ==
    /\ pc[p] = "reread"
    /\ disk # Corrupt
    /\ Throttled(p, Effective(ProcOf[p]))
    /\ Answer(p, Effective(ProcOf[p]).snap)
    /\ Goto(p, "answered")
    /\ UNCHANGED <<environment, locks, metadata, immediate, began, lastFresh>>

NoteSnapshot(p) ==
    /\ pc[p] = "reread"
    /\ IF disk = Corrupt THEN immediate[p]
                         ELSE ~Throttled(p, Effective(ProcOf[p]))
    /\ memory' = [memory EXCEPT ![ProcOf[p]] = [snap |-> snap[p], at |-> now]]
    /\ Goto(p, "noted")
    /\ UNCHANGED <<environment, locks, disk, immediate, snap, history>>

\* An answer whose metadata could not be written is given all the same.
WriteMetadata(p) ==
    /\ pc[p] = "noted"
    /\ \/ disk' = memory[ProcOf[p]] /\ UNCHANGED faults
       \/ /\ "write" \in FaultKinds
          /\ faults' = faults \union {"write"}
          /\ UNCHANGED disk
    /\ Answer(p, snap[p])
    /\ lastFresh' = memory[ProcOf[p]].at
    /\ Goto(p, "answered")
    /\ UNCHANGED <<now, status, alive, locks, memory, immediate, began>>

Return(p) ==
    /\ snap' = [snap EXCEPT ![p] = None]
    /\ immediate' = [immediate EXCEPT ![p] = FALSE]
    /\ began' = [began EXCEPT ![p] = 0]
    /\ Goto(p, "idle")
    /\ UNCHANGED <<environment, metadata, lastFresh, best>>

\* Mutant: the file stays when the answer is that the job is over.
ReleaseUnlessOver(p) ==
    /\ pc[p] = "answered"
    /\ pollLock' = IF snap[p] = "over" THEN pollLock ELSE None
    /\ threadLock' = [threadLock EXCEPT ![ProcOf[p]] = None]
    /\ Return(p)

\* The finally block: poll.lock is unlinked by name, then the lock of the
\* process is released.
ReleasePollLock(p) ==
    /\ pc[p] = "answered"
    /\ pollLock' = None
    /\ threadLock' = [threadLock EXCEPT ![ProcOf[p]] = None]
    /\ Return(p)

-----------------------------------------------------------------------------
(***************************************************************************)
(* The answer of a poll that gave up waiting                               *)
(***************************************************************************)

\* Mutant: the memory of the process comes first.
RememberedHere(q) == IF memory[q] # None \/ disk = Corrupt THEN memory[q] ELSE disk

\* The file if it can be read, otherwise the memory of the process.
Remembered(q) == IF disk \notin {None, Corrupt} THEN disk ELSE memory[q]

\* status.json is read once more before the metadata.
AnswerBusy(p) ==
    /\ pc[p] = "timedout"
    /\ LET meta == Remembered(ProcOf[p])
       IN  Answer(p, IF status = "over" THEN status
                     ELSE IF meta # None THEN meta.snap ELSE None)
    /\ Goto(p, "replied")
    /\ UNCHANGED <<environment, locks, metadata, immediate, began, lastFresh>>

ReturnBusy(p) ==
    /\ pc[p] = "replied"
    /\ Return(p)
    /\ UNCHANGED locks

-----------------------------------------------------------------------------
(***************************************************************************)
(* Around the polls                                                        *)
(***************************************************************************)

\* The worker starts the job and ends it; a queued job may be cancelled.
AdvanceJob ==
    /\ \E s \in States : Rank(s) > Rank(status) /\ status' = s
    /\ UNCHANGED <<now, alive, faults, locks, metadata, pc, immediate, snap,
                   history>>

ClockTick ==
    /\ now < MaxTime
    /\ now' = now + 1
    /\ UNCHANGED <<status, alive, faults, locks, metadata, pc, immediate, snap,
                   history>>

\* A process that dies while it creates poll.lock may leave it empty.
CrashProcess(q) ==
    /\ q \in Crashable \intersect alive
    /\ alive' = alive \ {q}
    /\ \/ UNCHANGED pollLock
       \/ /\ pollLock = None
          /\ \E p \in Pollers : ProcOf[p] = q /\ pc[p] = "file"
          /\ pollLock' = [pid |-> None, at |-> now]
    /\ pc' = [p \in Pollers |-> IF ProcOf[p] = q THEN "dead" ELSE pc[p]]
    /\ threadLock' = [threadLock EXCEPT ![q] = None]
    /\ memory' = [memory EXCEPT ![q] = None]
    /\ UNCHANGED <<now, status, faults, disk, immediate, snap, history>>

\* poll_meta.json is damaged from outside.
DamageMetadata ==
    /\ "corrupt" \in FaultKinds
    /\ disk \notin {None, Corrupt}
    /\ disk' = Corrupt
    /\ faults' = faults \union {"corrupt"}
    /\ UNCHANGED <<now, status, alive, locks, memory, pc, immediate, snap,
                   history>>

PollStep(p) ==
    \/ TakeThreadLock(p) \/ ThreadLockTimeout(p)
    \/ CreatePollLock(p) \/ FindAbandonedPollLock(p) \/ UnlinkPollLock(p)
    \/ PollLockTimeout(p)
    \/ RereadStatus(p) \/ RefuseCorrupt(p) \/ AnswerFromCache(p)
    \/ NoteSnapshot(p) \/ WriteMetadata(p) \/ ReleasePollLock(p)
    \/ AnswerBusy(p) \/ ReturnBusy(p)

Next ==
    \/ \E p \in Pollers : BeginPoll(p) \/ PollStep(p)
    \/ AdvanceJob \/ ClockTick \/ DamageMetadata
    \/ \E q \in Procs : CrashProcess(q)

Spec == Init /\ [][Next]_vars

-----------------------------------------------------------------------------
(***************************************************************************)
(* Properties                                                              *)
(***************************************************************************)

\* Every variable holds a value of its kind; in particular a terminal state is
\* never kept as metadata, which would be answered in its place later on.
TypeOK ==
    /\ now \in Times /\ status \in States /\ alive \subseteq Procs
    /\ threadLock \in [Procs -> Pollers \union {None}]
    /\ pollLock \in Locks \union {None}
    /\ disk \in Metas \union {None, Corrupt}
    /\ memory \in [Procs -> Metas \union {None}]
    /\ pc \in [Pollers -> PollPcs]
    /\ immediate \in [Pollers -> BOOLEAN]
    /\ snap \in [Pollers -> States \union {None}]
    /\ faults \subseteq FaultKinds
    /\ lastFresh \in Times \union {None}
    /\ best \in 0..2 /\ began \in [Pollers -> 0..2]

UnderLock == {p \in Pollers : pc[p] \in {"locked", "reread", "noted", "answered"}}

\* At most one poll is under poll.lock, across threads and processes and
\* after the lock of a dead process was taken over: _job_poll_lock.
PollLockExclusive == \A p, r \in UnderLock : p = r

\* poll.lock never outlives the poll of a live process that created it, on
\* any path out of poll_task: nobody could take such a lock over.
LiveLockInUse ==
    pollLock # None /\ pollLock.pid \in alive =>
        \E p \in UnderLock : ProcOf[p] = pollLock.pid

\* A fresh answer that follows another one: WriteMetadata gives it.
FreshAgain ==
    /\ lastFresh # None
    /\ \E p \in Pollers :
          pc[p] = "noted" /\ pc'[p] = "answered" /\ ~immediate[p]

\* Two fresh answers are Interval apart, unless the caller asked for an
\* immediate one, whichever processes gave them and died in between; as long
\* as the metadata could be written.
CooldownKept ==
    [][FreshAgain /\ "write" \notin faults
          => lastFresh' - lastFresh >= Interval]_vars

\* The same when writes of the metadata fail and one process gives all the
\* answers: "in-memory metadata preserves the cooldown".
CooldownKeptInMemory ==
    [][FreshAgain => lastFresh' - lastFresh >= Interval]_vars

\* A poll never answers an older state of the job than a poll that had been
\* answered when it began, from the cache, after a timeout or afresh; as long
\* as the metadata could be written and read.
NeverAnswersOlder ==
    [][\A p \in Pollers :
         /\ faults = {}
         /\ pc[p] \notin {"answered", "replied"}
         /\ pc'[p] \in {"answered", "replied"} /\ snap'[p] # None
         => Rank(snap'[p]) >= began[p]]_vars
=============================================================================
