------------------------- MODULE HarborToolsProofs --------------------------
(***************************************************************************)
(* Theorems about HarnessRun, for every grace, timeout and length of the   *)
(* output, about CodexRoutes, about GitDelivery, for any commits, any      *)
(* ancestry and any URLs, and about all the parts around the queue side by *)
(* side.                                                                   *)
(***************************************************************************)
EXTENDS HarborTools, RuntimeLifecycleProofs, LauncherProofs, TelemetryProofs,
        TLAPS

-----------------------------------------------------------------------------
(***************************************************************************)
(* A harness run: type correctness                                         *)
(***************************************************************************)

LEMMA HarnessType ==
  ASSUME RunTypeOK, HarnessStep
  PROVE  RunTypeOK'
<1> USE DEF RunTypeOK, watcher
<1>1. CASE \E kind \in {"noise", "answer"} : Emits(kind)
  <2>1. PICK kind \in {"noise", "answer"} : Emits(kind)
    BY <1>1
  <2>2. output' \in [kind : OutputKinds, n : 0..MaxOutputs]
    BY <2>1, MaxOutputsAssumption DEF Emits, OutputKinds
  <2> QED BY <2>1, <2>2 DEF Emits, HarnessActs
<1>2. CASE \E status \in {"success", "failure"} : Reports(status)
  BY <1>2 DEF Reports, HarnessActs
<1>3. CASE IsDenied
  BY <1>3 DEF IsDenied, HarnessActs
<1>4. CASE Forks
  BY <1>4 DEF Forks, HarnessActs
<1>5. CASE \E code \in {"zero", "nonzero"} : Exits(code)
  BY <1>5 DEF Exits, HarnessActs
<1> QED BY <1>1, <1>2, <1>3, <1>4, <1>5 DEF HarnessStep

LEMMA TreeKilledType ==
  ASSUME RunTypeOK, TreeKilled
  PROVE  exitCode' \in {"none", "zero", "nonzero", "signal"}
  BY DEF RunTypeOK, TreeKilled

LEMMA SuperviseType ==
  ASSUME RunTypeOK, Supervise \/ Interrupted
  PROVE  RunTypeOK'
<1> USE DEF RunTypeOK, watcher, watched, RunPcs, Reasons
<1>1. CASE \E h \in {"minimax", "agy"} : SpawnHarness(h)
  BY <1>1 DEF SpawnHarness
<1>2. CASE PollLeader
  BY <1>2 DEF PollLeader, Leave, Go
<1>3. CASE LookAtOutput
  BY <1>3 DEF LookAtOutput
<1>4. CASE LastChance
  BY <1>4, ExitGraceAssumption DEF LastChance, Leave
<1>5. CASE AwaitExit
  BY <1>5 DEF AwaitExit, Leave, Go
<1>6. CASE SleepOneInterval
  BY <1>6 DEF SleepOneInterval
<1>7. CASE EscalateTerminate
  <2>1. exitCode' \in {"none", "zero", "nonzero", "signal"}
    BY <1>7, TreeKilledType DEF EscalateTerminate
  <2> QED BY <1>7, <2>1 DEF EscalateTerminate, TreeKilled
<1>8. CASE Reap
  <2>1. exitCode' \in {"none", "zero", "nonzero", "signal"}
    BY <1>8, TreeKilledType DEF Reap
  <2>2. /\ leader' = "exited" /\ helpers' = FALSE /\ runPc' = "collect"
        /\ UNCHANGED <<output, agentStatus, denied, answeredAt, exitedAt>>
        /\ UNCHANGED <<harness, clock, watcher, reason, verdict>>
    BY <1>8 DEF Reap, TreeKilled
  <2>3. /\ runPc' \in RunPcs /\ leader' \in {"none", "running", "exited"}
        /\ helpers' \in BOOLEAN
    BY <2>2
  <2> QED BY <2>1, <2>2, <2>3
<1>9. CASE Collect
  BY <1>9 DEF Collect
<1>10. CASE Interrupted
  BY <1>10 DEF Interrupted, Leave
<1> QED BY <1>1, <1>2, <1>3, <1>4, <1>5, <1>6, <1>7, <1>8, <1>9, <1>10
        DEF Supervise

LEMMA RunTypeInit == RunInit => RunTypeOK
<1>1. [kind |-> "nothing", n |-> 0] \in [kind : OutputKinds, n : 0..MaxOutputs]
  BY MaxOutputsAssumption DEF OutputKinds
<1> SUFFICES ASSUME RunInit PROVE RunTypeOK
  OBVIOUS
<1>2. /\ output \in [kind : OutputKinds, n : 0..MaxOutputs]
      /\ seen \in [kind : OutputKinds, n : 0..MaxOutputs]
  BY <1>1 DEF RunInit
<1> QED BY <1>2 DEF RunInit, RunTypeOK, RunPcs, Reasons

\* What holds of a run that may stop anywhere holds of a fair one.
RunSafety == RunInit /\ [][RunNext]_runVars

LEMMA RunIsSafe == RunSpec => RunSafety
  BY DEF RunSpec, RunSafety

LEMMA RunTypeInvariant == RunSafety => []RunTypeOK
<1>1. RunTypeOK /\ [RunNext]_runVars => RunTypeOK'
  <2> SUFFICES ASSUME RunTypeOK, [RunNext]_runVars
               PROVE  RunTypeOK'
    OBVIOUS
  <2>1. CASE UNCHANGED runVars
    BY <2>1 DEF runVars, watched, watcher, RunTypeOK
  <2> QED BY <2>1, HarnessType, SuperviseType DEF RunNext
<1> QED BY <1>1, RunTypeInit, PTL DEF RunSafety

\* Whatever the harness and its supervisor do, in whatever order, the clock
\* goes forward, no place or reason is unknown, and the output stays bounded.
THEOREM RunTypeCorrect == RunSpec => []RunTypeOK
  BY RunTypeInvariant, RunIsSafe, PTL

-----------------------------------------------------------------------------
(***************************************************************************)
(* When a harness may be killed                                            *)
(***************************************************************************)

Watching == {"idle", "poll", "look", "sleep", "settled", "grace", "nap", "kill"}
Graces == {"grace", "nap", "kill"}
Enough == answeredAt # -1 /\ clock >= answeredAt + SettleGrace + ExitGrace
MayKill == reason = "interrupted" \/ clock >= TotalTimeout \/ Enough

AnswerNoted ==
    /\ output.kind = "answer" => answeredAt # -1
    /\ answeredAt <= clock
    /\ stableSince # -1 => answeredAt # -1 /\ answeredAt <= stableSince

GracesKept ==
    /\ runPc = "settled" => stableSince # -1 /\ clock - stableSince >= SettleGrace
    /\ runPc \in Graces =>
          stableSince # -1 /\ waitUntil >= stableSince + SettleGrace + ExitGrace
    /\ runPc = "kill" => clock >= waitUntil

KilledLate ==
    /\ runPc = "idle" => leader = "none"
    /\ leader # "exited" => exitCode = "none"
    /\ runPc \in Watching => exitCode # "signal"
    /\ runPc \notin Watching => MayKill \/ (leader # "running" /\ exitCode # "signal")

KillInv == RunTypeOK /\ AnswerNoted /\ GracesKept /\ KilledLate

LEMMA KillInit == RunInit => KillInv
  BY RunTypeInit
  DEF RunInit, KillInv, AnswerNoted, GracesKept, KilledLate, Watching, Graces

LEMMA KillHarness ==
  ASSUME KillInv, HarnessStep
  PROVE  KillInv'
<1>t. RunTypeOK /\ RunTypeOK'
  BY HarnessType DEF KillInv
<1> USE SettleGraceAssumption, ExitGraceAssumption
<1> USE DEF watcher, AnswerNoted, GracesKept, KilledLate, MayKill, Enough
<1>1. CASE \E kind \in {"noise", "answer"} : Emits(kind)
  <2>1. PICK kind \in {"noise", "answer"} : Emits(kind)
    BY <1>1
  <2>2. AnswerNoted'
    BY <1>t, <2>1 DEF KillInv, Emits, HarnessActs, RunTypeOK
  <2>3. GracesKept' /\ KilledLate'
    BY <1>t, <2>1 DEF KillInv, Emits, HarnessActs, RunTypeOK
  <2> QED BY <1>t, <2>2, <2>3 DEF KillInv
<1>2. CASE \E status \in {"success", "failure"} : Reports(status)
  BY <1>t, <1>2 DEF KillInv, Reports, HarnessActs
<1>3. CASE IsDenied \/ Forks
  BY <1>t, <1>3 DEF KillInv, IsDenied, Forks, HarnessActs
<1>4. CASE \E code \in {"zero", "nonzero"} : Exits(code)
  BY <1>t, <1>4 DEF KillInv, Exits, HarnessActs
<1> QED BY <1>1, <1>2, <1>3, <1>4 DEF HarnessStep

LEMMA KillSupervise ==
  ASSUME KillInv, Supervise \/ Interrupted
  PROVE  KillInv'
<1>t. RunTypeOK /\ RunTypeOK'
  BY SuperviseType DEF KillInv
<1> SUFFICES AnswerNoted' /\ GracesKept' /\ KilledLate'
  BY <1>t DEF KillInv
<1> USE SettleGraceAssumption, ExitGraceAssumption
<1> USE DEF watcher, watched, KillInv, AnswerNoted, GracesKept, KilledLate,
            MayKill, Enough, Watching, Graces
<1>1. CASE \E h \in {"minimax", "agy"} : SpawnHarness(h)
  BY <1>1, <1>t DEF SpawnHarness, RunTypeOK
<1>2. CASE PollLeader
  BY <1>2, <1>t DEF PollLeader, Leave, Go, RunTypeOK
<1>3. CASE LookAtOutput
  <2>1. IsStable => output.kind = "answer"
    BY DEF IsStable, ResultFileStable, StdoutStable, HasFinalResult
  <2>2. AnswerNoted'
    BY <1>3, <1>t, <2>1 DEF LookAtOutput, RunTypeOK
  <2>3. GracesKept'
    BY <1>3, <1>t DEF LookAtOutput, RunTypeOK
  <2>4. KilledLate'
    BY <1>3, <1>t DEF LookAtOutput
  <2> QED BY <2>2, <2>3, <2>4
<1>4. CASE LastChance
  <2>1. CASE leader = "exited" /\ Leave("self_exit")
    BY <1>4, <2>1, <1>t DEF LastChance, Leave
  <2>2. CASE leader # "exited"
    <3>1. AnswerNoted' /\ KilledLate'
      BY <1>4, <2>2, <1>t DEF LastChance, Leave
    <3>2. waitUntil' >= stableSince + SettleGrace + ExitGrace
      BY <1>4, <2>2, <1>t DEF LastChance, RunTypeOK, Leave
    <3>3. GracesKept'
      BY <1>4, <2>2, <3>2, <1>t DEF LastChance, Leave
    <3> QED BY <3>1, <3>3
  <2> QED BY <1>4, <2>1, <2>2 DEF LastChance
<1>5. CASE AwaitExit
  BY <1>5, <1>t DEF AwaitExit, Leave, Go, RunTypeOK
<1>6. CASE SleepOneInterval
  <2>1. AnswerNoted' /\ GracesKept'
    BY <1>6, <1>t DEF SleepOneInterval, RunTypeOK
  <2>2. KilledLate'
    BY <1>6, <1>t DEF SleepOneInterval
  <2> QED BY <2>1, <2>2
<1>7. CASE EscalateTerminate
  <2>1. Enough
    BY <1>7, <1>t DEF EscalateTerminate, RunTypeOK
  <2> QED BY <1>7, <2>1, <1>t DEF EscalateTerminate, TreeKilled
<1>8. CASE Reap
  BY <1>8, <1>t DEF Reap, TreeKilled
<1>9. CASE Collect
  BY <1>9, <1>t DEF Collect
<1>10. CASE Interrupted
  BY <1>10, <1>t DEF Interrupted, Leave
<1> QED BY <1>1, <1>2, <1>3, <1>4, <1>5, <1>6, <1>7, <1>8, <1>9, <1>10
        DEF Supervise

LEMMA KillInvariant == RunSafety => []KillInv
<1>1. KillInv /\ [RunNext]_runVars => KillInv'
  <2> SUFFICES ASSUME KillInv, [RunNext]_runVars
               PROVE  KillInv'
    OBVIOUS
  <2>1. CASE UNCHANGED runVars
    BY <2>1 DEF runVars, watched, watcher, KillInv, RunTypeOK, AnswerNoted,
                GracesKept, KilledLate, MayKill, Enough
  <2> QED BY <2>1, KillHarness, KillSupervise DEF RunNext
<1> QED BY <1>1, KillInit, PTL DEF RunSafety

LEMMA KillIsLate == KillInv => NoEarlyKill
<1> SUFFICES ASSUME KillInv, exitCode = "signal" PROVE MayKill
  BY DEF NoEarlyKill, MayKill, Enough
<1>1. runPc \notin Watching
  BY DEF KillInv, KilledLate
<1> QED BY <1>1 DEF KillInv, KilledLate

\* A live harness is killed only when the worker is stopped, at the total
\* timeout, or when both graces are over since its first answer, however long
\* they are and however it interleaves its output with the polls.
THEOREM KilledOnlyInTime == RunSpec => []NoEarlyKill
  BY KillIsLate, KillInvariant, RunIsSafe, PTL

-----------------------------------------------------------------------------
(***************************************************************************)
(* What becomes of an answer                                               *)
(***************************************************************************)

Completes ==
    \/ harness = "minimax" /\ MinimaxCompletes
    \/ harness = "agy" /\ AgyCompletes

ReasonTrue ==
    /\ runPc # "idle" => harness \in {"minimax", "agy"}
    /\ runPc \in Watching => reason = "none"
    /\ runPc \notin Watching => reason # "none"
    /\ reason = "failed_to_start" =>
          leader = "none" /\ runPc \in {"collect", "over"}
    /\ reason = "hard_timeout" =>
          clock >= TotalTimeout /\ (exitCode = "zero" => exitedAt >= TotalTimeout)
    /\ leader = "none" => ~helpers
    /\ runPc \in {"collect", "over"} => leader # "running" /\ ~helpers
    /\ runPc = "over" => verdict = (IF Completes THEN "completed" ELSE "failed")

EndInv == KillInv /\ ReasonTrue

LEMMA EndInit == RunInit => EndInv
  BY KillInit DEF EndInv, RunInit, ReasonTrue, Watching

LEMMA EndHarness ==
  ASSUME EndInv, HarnessStep
  PROVE  EndInv'
<1>t. RunTypeOK /\ RunTypeOK' /\ KillInv' /\ KilledLate
  BY KillHarness DEF EndInv, KillInv
<1>o. runPc # "over"
  BY <1>t DEF EndInv, ReasonTrue, HarnessStep, Emits, Reports, IsDenied, Forks,
              Exits
<1> SUFFICES ReasonTrue'
  BY <1>t DEF EndInv
<1> USE DEF EndInv, ReasonTrue, Watching, HarnessActs, watcher
<1>1. CASE \E kind \in {"noise", "answer"} : Emits(kind)
  BY <1>1, <1>o, <1>t DEF Emits
<1>2. CASE \E status \in {"success", "failure"} : Reports(status)
  BY <1>2, <1>o, <1>t DEF Reports
<1>3. CASE IsDenied \/ Forks
  BY <1>3, <1>o, <1>t DEF IsDenied, Forks
<1>4. CASE \E code \in {"zero", "nonzero"} : Exits(code)
  BY <1>4, <1>o, <1>t DEF Exits, RunTypeOK
<1> QED BY <1>1, <1>2, <1>3, <1>4 DEF HarnessStep

LEMMA EndSupervise ==
  ASSUME EndInv, Supervise \/ Interrupted
  PROVE  EndInv'
<1>t. RunTypeOK /\ RunTypeOK' /\ KillInv' /\ KilledLate
  BY KillSupervise DEF EndInv, KillInv
<1> SUFFICES ReasonTrue'
  BY <1>t DEF EndInv
<1> USE DEF EndInv, ReasonTrue, Watching, watcher, watched
<1>1. CASE \E h \in {"minimax", "agy"} : SpawnHarness(h)
  BY <1>1, <1>t DEF SpawnHarness, KilledLate
<1>2. CASE PollLeader
  BY <1>2, <1>t DEF PollLeader, Leave, Go, KilledLate
<1>3. CASE LookAtOutput
  BY <1>3, <1>t DEF LookAtOutput
<1>4. CASE LastChance
  BY <1>4, <1>t DEF LastChance, Leave
<1>5. CASE AwaitExit
  BY <1>5, <1>t DEF AwaitExit, Leave, Go
<1>6. CASE SleepOneInterval
  BY <1>6, <1>t DEF SleepOneInterval
<1>7. CASE EscalateTerminate
  BY <1>7, <1>t DEF EscalateTerminate, TreeKilled
<1>8. CASE Reap
  <2>1. leader' = "exited" /\ helpers' = FALSE /\ runPc' = "collect"
    BY <1>8 DEF Reap, TreeKilled
  <2>2. exitCode' = "zero" => exitCode = "zero"
    BY <1>8 DEF Reap, TreeKilled
  <2>3. reason # "none" /\ reason # "failed_to_start"
    BY <1>8, <1>t DEF Reap, KilledLate
  <2> QED BY <1>8, <2>1, <2>2, <2>3, <1>t DEF Reap, TreeKilled
<1>9. CASE Collect
  BY <1>9, <1>t DEF Collect, Completes, MinimaxCompletes, AgyCompletes,
     HasMessage, ResultMessage, HasFinalResult
<1>10. CASE Interrupted
  BY <1>10, <1>t DEF Interrupted, Leave
<1> QED BY <1>1, <1>2, <1>3, <1>4, <1>5, <1>6, <1>7, <1>8, <1>9, <1>10
        DEF Supervise

LEMMA EndInvariant == RunSafety => []EndInv
<1>1. EndInv /\ [RunNext]_runVars => EndInv'
  <2> SUFFICES ASSUME EndInv, [RunNext]_runVars
               PROVE  EndInv'
    OBVIOUS
  <2>1. CASE UNCHANGED runVars
    BY <2>1 DEF runVars, watched, watcher, EndInv, KillInv, RunTypeOK,
       AnswerNoted, GracesKept, KilledLate, MayKill, Enough, ReasonTrue,
       Completes, MinimaxCompletes, AgyCompletes, HasMessage, ResultMessage,
       HasFinalResult
  <2> QED BY <2>1, EndHarness, EndSupervise DEF RunNext
<1> QED BY <1>1, EndInit, PTL DEF RunSafety

LEMMA AnswerCompletes == EndInv => AnsweredInTimeCompletes
<1> SUFFICES ASSUME EndInv, runPc = "over", reason # "interrupted",
                    exitCode = "zero", exitedAt < TotalTimeout,
                    output.kind = "answer", agentStatus # "failure", ~denied
             PROVE  Completes
  BY DEF EndInv, ReasonTrue, AnsweredInTimeCompletes
<1>1. leader = "exited" /\ reason \in {"self_exit", "grace_expired"}
  BY TotalTimeoutAssumption
  DEF EndInv, KillInv, KilledLate, ReasonTrue, RunTypeOK, Reasons, Watching
<1>2. harness \in {"minimax", "agy"}
  BY DEF EndInv, ReasonTrue
<1> QED BY <1>1, <1>2 DEF Completes, MinimaxCompletes, AgyCompletes,
           HasMessage, ResultMessage, HasFinalResult

LEMMA EndIsGood == EndInv => AnsweredInTimeCompletes /\ TreeReclaimed
  BY AnswerCompletes DEF EndInv, ReasonTrue, TreeReclaimed

\* A harness that answers, reports no failure and exits with code 0 before the
\* total timeout is a completed job, for every grace and at whatever step of
\* the supervisor it exits.
THEOREM InTimeCompletes == RunSpec => []AnsweredInTimeCompletes
  BY EndIsGood, EndInvariant, RunIsSafe, PTL

\* A run that is over leaves no process behind: the half of RunEnds that is a
\* safety property.
THEOREM NothingLeftBehind == RunSpec => []TreeReclaimed
  BY EndIsGood, EndInvariant, RunIsSafe, PTL

-----------------------------------------------------------------------------
(***************************************************************************)
(* The routes of a Codex job                                               *)
(***************************************************************************)

\* The second attempt exists for one request only.
SecondOnly ==
    /\ attempt = 2 => requested = "official_then_custom"
    /\ codexPc = "idle" => attempt = 1

LEMMA RouteType ==
  ASSUME CodexTypeOK, SecondOnly
  PROVE  /\ Route \in Routes
         /\ requested = "official_then_custom" =>
               Route = (IF attempt = 1 THEN "official" ELSE "custom")
<1>1. attempt \in {1, 2}
  BY DEF CodexTypeOK
<1>2. CASE requested = "official_then_custom"
  BY <1>1, <1>2 DEF Route, RouteAttempts, Routes
<1>3. CASE requested # "official_then_custom"
  BY <1>1, <1>3 DEF Route, RouteAttempts, SecondOnly, CodexTypeOK, RouteRequests
<1> QED BY <1>2, <1>3

CodexTypeInv == CodexTypeOK /\ SecondOnly

LEMMA CodexTypeInit == CodexInit => CodexTypeInv
<1> SUFFICES ASSUME CodexInit PROVE CodexTypeInv
  OBVIOUS
<1>1. attempts \in Seq([route : Routes, status : {"completed", "failed"},
                        quota : BOOLEAN])
  BY DEF CodexInit
<1>2. /\ codexDisk \in [route : Routes \union {"none"}, fallback : BOOLEAN]
      /\ outcome \in [status : {"none", "completed", "failed"},
                      message : Routes \union {"missing"}]
  BY DEF CodexInit, Routes
<1>3. /\ requested \in RouteRequests /\ attempt \in 1..2
      /\ resultFrom \in Routes \union {"missing"}
  BY DEF CodexInit, RouteRequests, Routes
<1>4. codexTree \in SUBSET (1..2) /\ timedOut \in SUBSET (1..2)
  BY DEF CodexInit
<1>5. /\ codexPc \in CodexPcs /\ codexProc \in {"none", "running", "exited"}
      /\ returnCode \in {"none", "zero", "nonzero"}
      /\ said \in SUBSET {"quota", "rate"}
      /\ fallbackUsed \in BOOLEAN /\ unlinkFailed \in BOOLEAN
  BY DEF CodexInit, CodexPcs
<1>6. SecondOnly
  BY DEF CodexInit, SecondOnly
<1> QED BY <1>1, <1>2, <1>3, <1>4, <1>5, <1>6 DEF CodexTypeInv, CodexTypeOK

LEMMA CodexTypeStep ==
  ASSUME CodexTypeInv, CodexNext
  PROVE  CodexTypeInv'
<1>r. Route \in Routes
  BY RouteType DEF CodexTypeInv
<1> USE DEF CodexTypeInv, SecondOnly, CodexTypeOK, CodexPcs, codexChild, codexJob
<1>1. CASE \E r \in RouteRequests : RequestRoute(r)
  BY <1>1 DEF RequestRoute
<1>2. CASE PrepareAttempt
  <2>1. codexDisk' \in [route : Routes \union {"none"}, fallback : BOOLEAN]
    BY <1>2, <1>r DEF PrepareAttempt
  <2>2. resultFrom' \in Routes \union {"missing"} /\ unlinkFailed' \in BOOLEAN
    BY <1>2 DEF PrepareAttempt
  <2>3. codexPc' = "spawn"
    BY <1>2 DEF PrepareAttempt
  <2> QED BY <1>2, <2>1, <2>2, <2>3 DEF PrepareAttempt
<1>3. CASE NotConfigured \/ CannotStart
  <2>1. outcome' \in [status : {"none", "completed", "failed"},
                      message : Routes \union {"missing"}]
    BY <1>3 DEF NotConfigured, CannotStart, CodexRaises
  <2> QED BY <1>3, <2>1 DEF NotConfigured, CannotStart, CodexRaises
<1>4. CASE SpawnCodex
  BY <1>4 DEF SpawnCodex
<1>5. CASE CodexWrites
  BY <1>5, <1>r DEF CodexWrites
<1>6. CASE \E what \in {"quota", "rate"} : CodexSays(what)
  BY <1>6 DEF CodexSays
<1>7. CASE \E code \in {"zero", "nonzero"} : CodexExits(code)
  BY <1>7 DEF CodexExits
<1>8. CASE CodexReturns \/ CodexTimesOut
  BY <1>8 DEF CodexReturns, CodexTimesOut
<1>9. CASE TerminateCodex \/ FinishCodex
  BY <1>9 DEF TerminateCodex, FinishCodex, KillCodexTree
<1>10. CASE CollectAttempt
  <2>1. AttemptStatus \in {"completed", "failed"} /\ QuotaExhausted \in BOOLEAN
    BY DEF AttemptStatus, QuotaExhausted
  <2>2. [route |-> Route, status |-> AttemptStatus, quota |-> QuotaExhausted]
            \in [route : Routes, status : {"completed", "failed"}, quota : BOOLEAN]
    BY <1>r, <2>1
  <2>3. attempts' \in Seq([route : Routes, status : {"completed", "failed"},
                           quota : BOOLEAN])
    BY <1>10, <2>2 DEF CollectAttempt
  <2>4. CASE CanFallBack
    <3>1. codexDisk' \in [route : Routes \union {"none"}, fallback : BOOLEAN]
      BY <1>10, <2>4 DEF CollectAttempt
    <3> QED BY <1>10, <2>3, <2>4, <3>1 DEF CollectAttempt, CanFallBack
  <2>5. CASE ~CanFallBack
    <3>1. codexDisk' \in [route : Routes \union {"none"}, fallback : BOOLEAN]
      BY <1>10, <1>r, <2>5 DEF CollectAttempt
    <3>2. outcome' \in [status : {"none", "completed", "failed"},
                        message : Routes \union {"missing"}]
      BY <1>10, <2>1, <2>5 DEF CollectAttempt
    <3> QED BY <1>10, <2>3, <2>5, <3>1, <3>2 DEF CollectAttempt
  <2> QED BY <2>4, <2>5
<1> QED BY <1>1, <1>2, <1>3, <1>4, <1>5, <1>6, <1>7, <1>8, <1>9, <1>10
        DEF CodexNext

\* No job ever makes a third attempt or names a route that does not exist.
THEOREM CodexTypeCorrect == CodexSpec => []CodexTypeOK
<1>1. CodexTypeInv /\ [CodexNext]_codexVars => CodexTypeInv'
  <2> SUFFICES ASSUME CodexTypeInv, [CodexNext]_codexVars
               PROVE  CodexTypeInv'
    OBVIOUS
  <2>1. CASE UNCHANGED codexVars
    BY <2>1 DEF codexVars, codexChild, codexJob, CodexTypeInv, CodexTypeOK,
                SecondOnly
  <2> QED BY <2>1, CodexTypeStep
<1>2. CodexTypeInv => CodexTypeOK
  BY DEF CodexTypeInv
<1> QED BY <1>1, <1>2, CodexTypeInit, PTL DEF CodexSpec

-----------------------------------------------------------------------------
(***************************************************************************)
(* One route at a time, the second one justified, its answer its own       *)
(***************************************************************************)

Before == {"idle", "prepare", "spawn"}
Attempting == {"spawn", "wait", "terminate", "finish", "collect"}

\* Between two attempts nothing is left of the first one.
OneTree ==
    /\ codexTree \subseteq {attempt}
    /\ codexProc = "running" =>
          codexTree = {attempt} /\ codexPc \in {"wait", "terminate"}
    /\ codexPc \in Before \union {"collect", "over"} => codexTree = {}

FirstRecorded ==
    /\ attempt = 1 /\ codexPc # "over" => attempts = <<>>
    /\ attempt = 2 =>
          /\ attempts # <<>>
          /\ attempts[1].route = "official"
          /\ attempts[1].status = "failed" /\ attempts[1].quota

AnswerIsOwn ==
    /\ codexPc \in {"idle", "prepare"} /\ attempt = 1 => resultFrom = "missing"
    /\ codexPc \in Attempting =>
          /\ codexDisk.route = Route
          /\ unlinkFailed \/ resultFrom \in {"missing", Route}
    /\ outcome.status = "completed" =>
          codexPc = "over" /\ (unlinkFailed \/ outcome.message = codexDisk.route)

CodexInv == CodexTypeInv /\ OneTree /\ FirstRecorded /\ AnswerIsOwn

LEMMA CodexInvInit == CodexInit => CodexInv
  BY CodexTypeInit
  DEF CodexInit, CodexInv, OneTree, FirstRecorded, AnswerIsOwn, Before, Attempting

LEMMA OneTreeStep ==
  ASSUME CodexInv, CodexNext
  PROVE  OneTree'
<1> USE DEF CodexInv, CodexTypeInv, CodexTypeOK, OneTree, Before, codexChild,
            codexJob
<1>1. CASE \E r \in RouteRequests : RequestRoute(r)
  BY <1>1 DEF RequestRoute
<1>2. CASE PrepareAttempt \/ NotConfigured \/ CannotStart
  BY <1>2 DEF PrepareAttempt, NotConfigured, CannotStart, CodexRaises
<1>3. CASE SpawnCodex
  BY <1>3 DEF SpawnCodex
<1>4. CASE CodexWrites \/ \E what \in {"quota", "rate"} : CodexSays(what)
  BY <1>4 DEF CodexWrites, CodexSays
<1>5. CASE \E code \in {"zero", "nonzero"} : CodexExits(code)
  BY <1>5 DEF CodexExits
<1>6. CASE CodexReturns \/ CodexTimesOut
  BY <1>6 DEF CodexReturns, CodexTimesOut
<1>7. CASE TerminateCodex \/ FinishCodex
  BY <1>7 DEF TerminateCodex, FinishCodex, KillCodexTree
<1>8. CASE CollectAttempt
  BY <1>8 DEF CollectAttempt
<1> QED BY <1>1, <1>2, <1>3, <1>4, <1>5, <1>6, <1>7, <1>8 DEF CodexNext

LEMMA FirstRecordedStep ==
  ASSUME CodexInv, CodexNext
  PROVE  FirstRecorded'
<1> USE DEF CodexInv, CodexTypeInv, FirstRecorded, codexChild, codexJob
<1>1. CASE CollectAttempt
  <2> DEFINE rec == [route |-> Route, status |-> AttemptStatus,
                     quota |-> QuotaExhausted]
  <2>1. attempts' = Append(attempts, rec)
    BY <1>1 DEF CollectAttempt
  <2>2. CASE CanFallBack
    <3>1. attempts = <<>> /\ Route = "official"
      BY <1>1, <2>2, RouteType DEF CollectAttempt, CanFallBack
    <3>2. QuotaExhausted /\ AttemptStatus = "failed"
      BY <2>2 DEF CanFallBack, QuotaExhausted, AttemptStatus
    <3>3. attempts' = <<rec>>
      BY <2>1, <3>1
    <3>4. attempt' = 2 /\ attempts' # <<>> /\ attempts'[1] = rec
      BY <1>1, <2>2, <3>3 DEF CollectAttempt
    <3> QED BY <3>1, <3>2, <3>4
  <2>3. CASE ~CanFallBack
    <3>1. attempt' = attempt /\ codexPc' = "over"
      BY <1>1, <2>3 DEF CollectAttempt
    <3>2. CASE attempt = 2
      <4>1. attempts' # <<>> /\ attempts'[1] = attempts[1]
        BY <2>1, <3>2 DEF CodexTypeOK
      <4> QED BY <3>1, <3>2, <4>1
    <3> QED BY <3>1, <3>2
  <2> QED BY <2>2, <2>3
<1>2. CASE ~CollectAttempt
  <2>1. attempt' = attempt /\ attempts' = attempts
    BY <1>2 DEF CodexNext, RequestRoute, PrepareAttempt, NotConfigured,
       CannotStart, CodexRaises, SpawnCodex, CodexWrites, CodexSays, CodexExits,
       CodexReturns, CodexTimesOut, TerminateCodex, FinishCodex, KillCodexTree
  <2>2. codexPc = "over" => codexPc' = "over"
    BY <1>2 DEF CodexNext, RequestRoute, PrepareAttempt, NotConfigured,
       CannotStart, CodexRaises, SpawnCodex, CodexWrites, CodexSays, CodexExits,
       CodexReturns, CodexTimesOut, TerminateCodex, FinishCodex, KillCodexTree
  <2> QED BY <2>1, <2>2
<1> QED BY <1>1, <1>2

LEMMA AnswerIsOwnStep ==
  ASSUME CodexInv, CodexNext
  PROVE  AnswerIsOwn'
<1>r. Route \in Routes
  BY RouteType DEF CodexInv, CodexTypeInv
<1> USE DEF CodexInv, AnswerIsOwn, Attempting, codexChild, codexJob
<1>1. CASE \E r \in RouteRequests : RequestRoute(r)
  BY <1>1 DEF RequestRoute
<1>2. CASE PrepareAttempt
  <2>1. Route' = Route /\ codexDisk'.route = Route
    BY <1>2 DEF PrepareAttempt, Route
  <2>2. unlinkFailed' \/ resultFrom' = "missing"
    BY <1>2 DEF PrepareAttempt, CodexTypeInv, CodexTypeOK
  <2> QED BY <1>2, <2>1, <2>2 DEF PrepareAttempt
<1>3. CASE NotConfigured \/ CannotStart
  BY <1>3 DEF NotConfigured, CannotStart, CodexRaises
<1>4. CASE CollectAttempt
  <2>1. CASE CanFallBack
    BY <1>4, <2>1 DEF CollectAttempt
  <2>2. CASE ~CanFallBack
    <3>1. AttemptStatus = "completed" => resultFrom # "missing"
      BY DEF AttemptStatus
    <3> QED BY <1>4, <2>2, <3>1 DEF CollectAttempt
  <2> QED BY <2>1, <2>2
<1>5. CASE CodexWrites \/ \E what \in {"quota", "rate"} : CodexSays(what)
  <2>1. Route' = Route /\ codexPc' = codexPc
    BY <1>5 DEF CodexWrites, CodexSays, Route
  <2>2. codexPc \in {"wait", "terminate"}
    BY <1>5 DEF CodexWrites, CodexSays, OneTree
  <2> QED BY <1>5, <2>1, <2>2 DEF CodexWrites, CodexSays
<1>6. CASE SpawnCodex \/ \E code \in {"zero", "nonzero"} : CodexExits(code)
  <2>1. Route' = Route
    BY <1>6 DEF SpawnCodex, CodexExits, Route
  <2> QED BY <1>6, <2>1 DEF SpawnCodex, CodexExits
<1>7. CASE CodexReturns \/ CodexTimesOut \/ TerminateCodex \/ FinishCodex
  <2>1. Route' = Route
    BY <1>7 DEF CodexReturns, CodexTimesOut, TerminateCodex, FinishCodex,
                KillCodexTree, Route
  <2> QED BY <1>7, <2>1 DEF CodexReturns, CodexTimesOut, TerminateCodex,
                            FinishCodex, KillCodexTree
<1> QED BY <1>1, <1>2, <1>3, <1>4, <1>5, <1>6, <1>7 DEF CodexNext

LEMMA CodexInvariant == CodexSpec => []CodexInv
<1>1. CodexInv /\ [CodexNext]_codexVars => CodexInv'
  <2> SUFFICES ASSUME CodexInv, [CodexNext]_codexVars
               PROVE  CodexInv'
    OBVIOUS
  <2>1. CASE UNCHANGED codexVars
    BY <2>1 DEF codexVars, codexChild, codexJob, CodexInv, CodexTypeInv,
       CodexTypeOK, SecondOnly, OneTree, FirstRecorded, AnswerIsOwn, Route
  <2>2. CASE CodexNext
    BY <2>2, CodexTypeStep, OneTreeStep, FirstRecordedStep, AnswerIsOwnStep
    DEF CodexInv
  <2> QED BY <2>1, <2>2
<1> QED BY <1>1, CodexInvInit, PTL DEF CodexSpec

\* No process of one route is alive when the next one runs, whatever it left
\* behind in its group and whether it was timed out or ended by itself.
THEOREM RoutesSerial == CodexSpec => []OneRouteAtATime
<1>1. CodexInv => OneRouteAtATime
  BY DEF CodexInv, OneTree, OneRouteAtATime, Before
<1> QED BY <1>1, CodexInvariant, PTL

\* The custom route is reached only after a failure of the official one that
\* was an exhausted subscription.
THEOREM FallbackOnlyWhenDue == CodexSpec => []FallbackJustified
<1>1. CodexInv => FallbackJustified
  BY DEF CodexInv, CodexTypeInv, SecondOnly, FirstRecorded, FallbackJustified
<1> QED BY <1>1, CodexInvariant, PTL

\* A completed job carries the answer of the route it names, unless the old
\* result.txt could not be removed.
THEOREM MessageOfRoute == CodexSpec => []AnswerOfRouteUsed
<1>1. CodexInv => AnswerOfRouteUsed
  BY DEF CodexInv, AnswerIsOwn, AnswerOfRouteUsed
<1> QED BY <1>1, CodexInvariant, PTL

-----------------------------------------------------------------------------
(***************************************************************************)
(* Git delivery                                                            *)
(***************************************************************************)

\* Types, and the steps of a call that pushes: before the push nothing has
\* landed; at the push the remote is as expected or has moved since; after it
\* the branch is where the push put it or has moved since.
BeforePush == {"idle", "asked", "head", "source", "dryrun", "freshurl",
               "freshhead", "push"}
Pushing == {"freshurl", "freshhead", "push", "verify"}

PushInv ==
    /\ pushPc \in Pushing => ~dryRun
    /\ pushPc = "push" => remoteHead[url] = expected \/ "remote" \in moved
    /\ pushPc \in BeforePush => landed = NothingLanded
    /\ pushPc = "verify" =>
          /\ landed.to \in Commits
          /\ landed.to = remoteHead[url] \/ "remote" \in moved

GitInv == GitTypeOK /\ PushInv

LEMMA GitInvInit == GitInit => GitInv
<1> SUFFICES ASSUME GitInit PROVE GitInv
  OBVIOUS
<1>1. /\ remoteHead \in [Urls -> Heads] /\ localHead \in Commits
      /\ configured \in Urls /\ url \in Urls
      /\ expected \in Heads /\ sourceHead \in Heads /\ afterHead \in Heads
  BY OriginAssumption DEF GitInit, Heads
<1>2. /\ reply \in [ok : BOOLEAN, pushed : BOOLEAN]
      /\ landed \in [url : Urls \union {"nowhere"}, from : Heads, to : Heads]
  BY DEF GitInit, NoReply, NothingLanded, Heads
<1>3. /\ pushPc \in PushPcs /\ dryRun \in BOOLEAN
      /\ moved \in SUBSET {"remote", "local", "url"}
  BY DEF GitInit, PushPcs
<1>4. PushInv
  BY DEF GitInit, PushInv, Pushing
<1> QED BY <1>1, <1>2, <1>3, <1>4 DEF GitInv, GitTypeOK

-----------------------------------------------------------------------------
(***************************************************************************)
(* Each kind of step keeps the invariant                                   *)
(***************************************************************************)

LEMMA WorldStep ==
  ASSUME GitInv,
         \/ \E u \in Urls, head \in Heads : RemoteMoves(u, head)
         \/ \E commit \in Commits : LocalMoves(commit)
         \/ \E u \in Urls : Reconfigured(u)
  PROVE  GitInv'
<1> USE DEF GitInv, GitTypeOK, PushInv, gitFound
<1>1. CASE \E u \in Urls, head \in Heads : RemoteMoves(u, head)
  BY <1>1 DEF RemoteMoves
<1>2. CASE \E commit \in Commits : LocalMoves(commit)
  BY <1>2 DEF LocalMoves
<1>3. CASE \E u \in Urls : Reconfigured(u)
  BY <1>3 DEF Reconfigured
<1> QED BY <1>1, <1>2, <1>3

\* What a call answers is of the right kind.
LEMMA AnswerType ==
  ASSUME NEW isOk \in BOOLEAN, NEW has \in BOOLEAN, Answer(isOk, has)
  PROVE  /\ reply' \in [ok : BOOLEAN, pushed : BOOLEAN]
         /\ pushPc' = "replied" /\ pushPc' \in PushPcs
BY DEF Answer, PushPcs

LEMMA LookStep ==
  ASSUME GitInv,
         \/ GitCommandFails \/ ResolveRemote \/ ReadHead \/ ResolveSource
         \/ TryPush \/ ResolveRemoteAgain \/ ReadHeadAgain
         \/ \E isDryRun \in BOOLEAN, head \in Commits : CallPush(isDryRun, head)
  PROVE  GitInv'
<1> USE DEF GitInv, GitTypeOK, PushInv, Pushing, BeforePush, PushPcs, gitFound,
            gitWorld
<1>1. CASE \E isDryRun \in BOOLEAN, head \in Commits : CallPush(isDryRun, head)
  BY <1>1 DEF CallPush, Heads
<1>2. CASE GitCommandFails
  BY <1>2, AnswerType DEF GitCommandFails
<1>3. CASE ResolveRemote
  BY <1>3 DEF ResolveRemote
<1>4. CASE ReadHead
  BY <1>4, AnswerType DEF ReadHead
<1>5. CASE ResolveSource
  BY <1>5 DEF ResolveSource, Heads
<1>6. CASE TryPush
  BY <1>6, AnswerType DEF TryPush
<1>7. CASE ResolveRemoteAgain
  BY <1>7, AnswerType DEF ResolveRemoteAgain
<1>8. CASE ReadHeadAgain
  BY <1>8, AnswerType DEF ReadHeadAgain
<1> QED BY <1>1, <1>2, <1>3, <1>4, <1>5, <1>6, <1>7, <1>8

\* What landing does, whatever is answered then.
LEMMA LandsFacts ==
  ASSUME GitInv, Lands, localHead' = localHead, url' = url
  PROVE  /\ remoteHead' \in [Urls -> Heads] /\ remoteHead'[url] = localHead
         /\ landed' \in [url : Urls \union {"nowhere"}, from : Heads, to : Heads]
         /\ landed'.to = remoteHead'[url] /\ landed'.to \in Commits
         /\ moved' \in SUBSET {"remote", "local", "url"}
         /\ remoteHead[url] # NoCommit =>
               <<remoteHead'[url], remoteHead[url]>> \in Descends
<1>1. /\ remoteHead \in [Urls -> Heads] /\ url \in Urls
      /\ localHead \in Commits /\ localHead \in Heads
      /\ moved \in SUBSET {"remote", "local", "url"}
  BY DEF GitInv, GitTypeOK, Heads
<1>2. remoteHead' \in [Urls -> Heads] /\ remoteHead'[url] = localHead
  BY <1>1 DEF Lands
<1>3. landed' = [url |-> url, from |-> remoteHead[url], to |-> localHead]
  BY DEF Lands
<1>4. landed' \in [url : Urls \union {"nowhere"}, from : Heads, to : Heads]
  BY <1>1, <1>3
<1>5. remoteHead[url] # NoCommit =>
         <<remoteHead'[url], remoteHead[url]>> \in Descends
  BY <1>2 DEF Lands, Accepts
<1> QED BY <1>1, <1>2, <1>3, <1>4, <1>5 DEF Lands

LEMMA PushStep ==
  ASSUME GitInv, GitPush \/ PushAnswerLost \/ VerifyHead
  PROVE  GitInv'
<1> USE DEF GitInv, gitFound, gitWorld
<1>1. CASE (GitPush \/ PushAnswerLost) /\ Lands
  <2>1. /\ localHead' = localHead /\ configured' = configured /\ url' = url
        /\ dryRun' = dryRun /\ expected' = expected
        /\ sourceHead' = sourceHead /\ afterHead' = afterHead
        /\ pushPc = "push"
    BY <1>1 DEF GitPush, PushAnswerLost
  <2>2. \/ pushPc' = "verify" /\ reply' = reply
        \/ pushPc' = "replied" /\ reply' \in [ok : BOOLEAN, pushed : BOOLEAN]
    BY <1>1, AnswerType DEF GitPush, PushAnswerLost
  <2>3. GitTypeOK'
    BY <1>1, <2>1, <2>2, LandsFacts DEF GitTypeOK, PushPcs
  <2>4. PushInv'
    BY <1>1, <2>1, <2>2, LandsFacts DEF PushInv, Pushing, BeforePush
  <2> QED BY <2>3, <2>4
<1>2. CASE GitPush /\ ~Lands
  BY <1>2, AnswerType DEF GitPush, GitTypeOK, PushInv, Pushing, BeforePush, PushPcs
<1>3. CASE VerifyHead
  <2>1. afterHead' \in Heads
    <3>1. remoteHead[url] \in Heads
      BY <1>3 DEF VerifyHead, GitTypeOK, PushInv
    <3>2. afterHead' \in {remoteHead[url], NoCommit}
      BY <1>3 DEF VerifyHead
    <3> QED BY <3>1, <3>2 DEF Heads
  <2>2. pushPc' = "replied" /\ reply' \in [ok : BOOLEAN, pushed : BOOLEAN]
    BY <1>3, AnswerType DEF VerifyHead
  <2>3. pushPc' \in PushPcs
    BY <2>2 DEF PushPcs
  <2>4. GitTypeOK'
    BY <1>3, <2>1, <2>2, <2>3 DEF VerifyHead, GitTypeOK
  <2>5. PushInv'
    BY <2>2 DEF PushInv, Pushing, BeforePush
  <2> QED BY <2>4, <2>5
<1> QED BY <1>1, <1>2, <1>3 DEF PushAnswerLost

LEMMA GitInvariant == GitSpec => []GitInv
<1>1. GitInv /\ [GitNext]_gitVars => GitInv'
  <2> SUFFICES ASSUME GitInv, [GitNext]_gitVars
               PROVE  GitInv'
    OBVIOUS
  <2>1. CASE UNCHANGED gitVars
    BY <2>1 DEF gitVars, gitWorld, gitFound, GitInv, GitTypeOK, PushInv
  <2>2. CASE GitNext
    BY <2>2, WorldStep, LookStep, PushStep DEF GitNext
  <2> QED BY <2>1, <2>2
<1> QED BY <1>1, GitInvInit, PTL DEF GitSpec

-----------------------------------------------------------------------------
\* The remote's branches are never anything but commits, and no call ends
\* anywhere but in an answer.
THEOREM GitTypeCorrect == GitSpec => []GitTypeOK
<1>1. GitInv => GitTypeOK
  BY DEF GitInv
<1> QED BY <1>1, GitInvariant, PTL

\* Whatever moves between the looks of git_push_ref_result and its push, the
\* push replaces the head the caller expects, or one that came after the last
\* look, and then only by a descendant of it.
THEOREM PushReplacesExpected == GitSpec => DriftNeverOverwritten
<1> DEFINE A == landed' # landed =>
                   /\ ~dryRun
                   /\ remoteHead[url] = expected \/ "remote" \in moved
                   /\ remoteHead[url] # NoCommit =>
                         <<remoteHead'[url], remoteHead[url]>> \in Descends
<1>1. ASSUME GitInv, [GitNext]_gitVars
      PROVE  [A]_gitVars
  <2> SUFFICES ASSUME GitNext, landed' # landed
               PROVE  A
    BY <1>1
  <2>1. (GitPush \/ PushAnswerLost) /\ Lands
    BY DEF GitNext, RemoteMoves, LocalMoves, Reconfigured, CallPush,
       GitCommandFails, ResolveRemote, ReadHead, ResolveSource, TryPush,
       ResolveRemoteAgain, ReadHeadAgain, GitPush, PushAnswerLost, VerifyHead
  <2>2. pushPc = "push" /\ localHead' = localHead /\ url' = url
    BY <2>1 DEF GitPush, PushAnswerLost, gitFound
  <2> QED BY <1>1, <2>1, <2>2, LandsFacts DEF GitInv, PushInv, Pushing
<1>2. GitInv /\ [GitNext]_gitVars => [A]_gitVars
  BY <1>1
<1>3. GitSpec => [][A]_gitVars
  BY <1>2, GitInvariant, PTL DEF GitSpec
<1> QED BY <1>3 DEF DriftNeverOverwritten

\* What git_push_ref_result answers is what has happened.
THEOREM AnswersAreTrue == GitSpec => ReplyTellsTheTruth
<1> DEFINE A == pushPc' = "replied" /\ pushPc # "replied" =>
                   /\ (reply'.pushed <=> landed' # NothingLanded) \/ pushPc = "push"
                   /\ reply'.ok /\ ~dryRun =>
                         /\ remoteHead[url] = sourceHead
                         /\ landed'.to = sourceHead \/ moved # {}
<1>1. ASSUME GitInv, [GitNext]_gitVars
      PROVE  [A]_gitVars
  <2> SUFFICES ASSUME GitNext, pushPc' = "replied", pushPc # "replied"
               PROVE  A
    BY <1>1
  <2>1. CASE VerifyHead
    <3>1. landed' = landed /\ landed # NothingLanded
      BY <1>1, <2>1, NoCommitAssumption
      DEF VerifyHead, GitInv, PushInv, NothingLanded
    <3>2. /\ reply'.pushed
          /\ reply'.ok => remoteHead[url] = sourceHead
      <4>1. CASE afterHead' = remoteHead[url] /\ Answer(afterHead' = sourceHead, TRUE)
        <5>1. reply'.pushed /\ reply'.ok = (afterHead' = sourceHead)
          BY <4>1 DEF Answer
        <5> QED BY <4>1, <5>1
      <4>2. CASE Answer(FALSE, TRUE)
        BY <4>2 DEF Answer
      <4> QED BY <2>1, <4>1, <4>2 DEF VerifyHead
    <3> QED BY <1>1, <2>1, <3>1, <3>2 DEF VerifyHead, GitInv, PushInv
  <2>2. CASE GitPush \/ PushAnswerLost
    BY <2>2 DEF GitPush, PushAnswerLost, Answer
  <2>3. CASE GitCommandFails \/ ReadHead \/ ResolveRemoteAgain \/ ReadHeadAgain
    <3>1. landed' = landed /\ landed = NothingLanded
      BY <1>1, <2>3 DEF GitCommandFails, ReadHead, ResolveRemoteAgain,
         ReadHeadAgain, GitInv, PushInv, BeforePush
    <3>2. reply' = [ok |-> FALSE, pushed |-> FALSE]
      BY <2>3 DEF GitCommandFails, ReadHead, ResolveRemoteAgain, ReadHeadAgain,
                  Answer
    <3> QED BY <3>1, <3>2
  <2>4. CASE TryPush
    <3>1. landed' = landed /\ landed = NothingLanded
      BY <1>1, <2>4 DEF TryPush, GitInv, PushInv, BeforePush
    <3>2. ~reply'.pushed /\ (reply'.ok => dryRun)
      BY <2>4 DEF TryPush, Answer
    <3> QED BY <3>1, <3>2
  <2> QED BY <2>1, <2>2, <2>3, <2>4 DEF GitNext, RemoteMoves, LocalMoves,
             Reconfigured, CallPush, ResolveRemote, ResolveSource
<1>2. GitInv /\ [GitNext]_gitVars => [A]_gitVars
  BY <1>1
<1>3. GitSpec => [][A]_gitVars
  BY <1>2, GitInvariant, PTL DEF GitSpec
<1> QED BY <1>3 DEF ReplyTellsTheTruth

-----------------------------------------------------------------------------
(***************************************************************************)
(* All the parts side by side                                              *)
(*                                                                         *)
(* The parts share no variable, so that a step of one of them is a         *)
(* stuttering step of every other one: what holds of a part alone holds of *)
(* it among the others.                                                    *)
(***************************************************************************)

\* A step of the whole is for each part a step of its own or none.
LEMMA EveryStepIsAPartsStep ==
  ASSUME [Next]_toolVars
  PROVE  /\ [RunNext]_runVars /\ [CodexNext]_codexVars /\ [GitNext]_gitVars
         /\ [StatusNext]_statusVars /\ [QuotaNext]_quotaVars /\ [RtNext]_rtVars
         /\ [LauncherNext]_launcherVars /\ [SettingsNext]_settingsVars
         /\ scene' = scene
<1>1. CASE UNCHANGED toolVars
  BY <1>1 DEF toolVars
<1>2. CASE RunScene \/ CodexScene
  BY <1>2 DEF RunScene, CodexScene
<1>3. CASE GitScene \/ StatusScene
  BY <1>3 DEF GitScene, StatusScene
<1>4. CASE QuotaScene \/ RuntimeScene
  BY <1>4 DEF QuotaScene, RuntimeScene
<1>5. CASE LauncherScene \/ SettingsScene
  BY <1>5 DEF LauncherScene, SettingsScene
<1> QED BY <1>1, <1>2, <1>3, <1>4, <1>5 DEF Next

\* Each part of the tools behaves as its own module says, whichever of them a
\* behaviour is about: no handler, probe, button or delivery reads what
\* another one writes.  (A supervisor that is not looked at is not fair.)
THEOREM PartsKeepTheirSpecs ==
  Spec => /\ RunSafety /\ CodexSpec /\ GitSpec /\ StatusSpec /\ QuotaSpec
          /\ RtSpec /\ LauncherSpec /\ SettingsSpec
<1>1. Init => /\ RunInit /\ CodexInit /\ GitInit /\ StatusInit /\ QuotaInit
              /\ RtInit /\ LauncherInit /\ SettingsInit
  BY DEF Init
<1>2. [Next]_toolVars
        => /\ [RunNext]_runVars /\ [CodexNext]_codexVars /\ [GitNext]_gitVars
           /\ [StatusNext]_statusVars /\ [QuotaNext]_quotaVars /\ [RtNext]_rtVars
           /\ [LauncherNext]_launcherVars /\ [SettingsNext]_settingsVars
  BY EveryStepIsAPartsStep
<1> QED BY <1>1, <1>2, PTL DEF Spec, RunSafety, CodexSpec, GitSpec, StatusSpec,
        QuotaSpec, RtSpec, LauncherSpec, SettingsSpec

\* Every variable of every part keeps its kind.
THEOREM ToolsTypeCorrect == Spec => []TypeOK
<1>1. Init => scene \in Scenes
  BY DEF Init
<1>2. scene \in Scenes /\ [Next]_toolVars => (scene \in Scenes)'
  BY EveryStepIsAPartsStep
<1>3. Spec => [](scene \in Scenes)
  BY <1>1, <1>2, PTL DEF Spec
<1>4. /\ scene \in Scenes /\ RunTypeOK /\ CodexTypeOK /\ GitTypeOK /\ StatusTypeOK
      /\ QuotaTypeOK /\ RtTypeOK /\ LauncherTypeOK /\ SettingsTypeOK
      => TypeOK
  BY DEF TypeOK
<1> QED BY <1>3, <1>4, PartsKeepTheirSpecs, RunTypeInvariant, CodexTypeCorrect,
        GitTypeCorrect, StatusTypeCorrect, QuotaTypeCorrect, RtTypeCorrect,
        LauncherTypeCorrect, SettingsTypeCorrect, PTL

\* What the parts promise one by one they promise together: no run is killed
\* early, loses an answer given in time or leaves a process; the routes of a
\* Codex job follow one another; a push overwrites no drift and answers the
\* truth; snapshots are current or marked; but for the exceptions the properties
\* state, nothing runs twice or is left after a stop, and no stranger is taken
\* for a component; an apply that fails restores, and the settings stay usable.
THEOREM ToolsKeepTheirPromises ==
  Spec => /\ [](NoEarlyKill /\ AnsweredInTimeCompletes /\ TreeReclaimed)
          /\ [](OneRouteAtATime /\ FallbackJustified /\ AnswerOfRouteUsed)
          /\ DriftNeverOverwritten /\ ReplyTellsTheTruth
          /\ [](StatusCurrent /\ FailureMarksStale)
          /\ [](NeverDoubled /\ StrangersSpared /\ NoStrayAfterStop)
          /\ [](OneOfEach /\ StopLeavesNothingBehind)
          /\ [](FailedApplyRestores /\ SettingsUsable)
<1>1. RunSafety => [](NoEarlyKill /\ AnsweredInTimeCompletes /\ TreeReclaimed)
  BY KillInvariant, EndInvariant, KillIsLate, EndIsGood, PTL
<1>2. CodexSpec => [](OneRouteAtATime /\ FallbackJustified /\ AnswerOfRouteUsed)
  BY RoutesSerial, FallbackOnlyWhenDue, MessageOfRoute, PTL
<1>3. RtSpec => [](NeverDoubled /\ StrangersSpared /\ NoStrayAfterStop)
  BY OneOfEachComponent, NoStrangerTakenFor, StopIsComplete, PTL
<1>4. LauncherSpec => [](OneOfEach /\ StopLeavesNothingBehind)
  BY NeverTwoOfAKind, StoppedIsStopped, PTL
<1>5. SettingsSpec => [](FailedApplyRestores /\ SettingsUsable)
  BY RollbackIsComplete, AppliedIsUsable, PTL
<1>6. StatusSpec /\ QuotaSpec => [](StatusCurrent /\ FailureMarksStale)
  BY SnapshotsAreCurrent, StaleAfterFailure, PTL
<1> QED BY <1>1, <1>2, <1>3, <1>4, <1>5, <1>6, PartsKeepTheirSpecs,
        PushReplacesExpected, AnswersAreTrue
=============================================================================
