----------------------------- MODULE HarnessRun -----------------------------
(***************************************************************************)
(* A worker watches one run of a one-shot command line harness:            *)
(* run_minimax_with_lifecycle and run_agy_with_lifecycle, then the verdict *)
(* of collect_*_lifecycle_result.  The harness leads a process group of    *)
(* its own.  It answers by writing result.txt (minimax) or by printing one *)
(* line of JSON, the last of its output (agy); "output" is the file or     *)
(* that line.  The harness often lives on after its answer.                *)
(*                                                                         *)
(*   idle     no run yet           settled  the answer has settled         *)
(*   poll     top of the loop      grace    waits for a voluntary exit     *)
(*   look     looks at the output  kill     the exit grace has passed      *)
(*   sleep    between two polls    reap     in the finally clause          *)
(*   nap      the same, in grace   collect  translates the report          *)
(*   over     the verdict is in status.json                                *)
(*                                                                         *)
(* One unit of time is poll_interval: time passes in the supervisor's      *)
(* sleeps, which are the only long steps it takes before the finally       *)
(* clause.                                                                 *)
(***************************************************************************)
EXTENDS Integers

CONSTANTS
    SettleGrace,    \* settle_grace, in poll intervals
    ExitGrace,      \* exit_grace
    TotalTimeout,   \* total_timeout
    MaxOutputs      \* bound on the changes of the output

ASSUME SettleGraceAssumption == SettleGrace \in Nat
ASSUME ExitGraceAssumption == ExitGrace \in Nat
ASSUME TotalTimeoutAssumption == TotalTimeout \in Nat \ {0}
ASSUME MaxOutputsAssumption == MaxOutputs \in Nat

VARIABLES
    harness,        \* which of the two harnesses runs
    runPc,          \* the place of the supervisor
    clock,
    leader,         \* the process started: none, running or exited
    helpers,        \* whether it has left other processes in its group
    exitCode,       \* of the leader: none, zero, nonzero or signal
    output,         \* what the harness has written: its kind, how often
    agentStatus,    \* the last status the harness has reported, or none
    denied,         \* whether it has reported a denied action
    seen,           \* the output at the last look
    stableSince,    \* first_stable_at; -1 before
    waitUntil,      \* wait_deadline
    reason,         \* termination_reason
    verdict,        \* the status written at the end
    answeredAt,     \* history: when the first answer was written; -1 before
    exitedAt        \* history: when the leader exited; -1 before

watched == <<leader, helpers, exitCode, output, agentStatus, denied,
             answeredAt, exitedAt>>
watcher == <<seen, stableSince, waitUntil>>
runVars == <<harness, runPc, clock, watched, watcher, reason, verdict>>

OutputKinds == {"nothing", "noise", "answer"}
RunPcs == {"idle", "poll", "look", "sleep", "settled", "grace", "nap", "kill",
           "reap", "collect", "over"}
Reasons == {"none", "self_exit", "hard_timeout", "grace_expired",
            "failed_to_start", "interrupted"}

RunInit ==
    /\ harness = "none" /\ runPc = "idle" /\ clock = 0
    /\ leader = "none" /\ helpers = FALSE /\ exitCode = "none"
    /\ output = [kind |-> "nothing", n |-> 0]
    /\ agentStatus = "none" /\ denied = FALSE
    /\ seen = [kind |-> "nothing", n |-> 0]
    /\ stableSince = -1 /\ waitUntil = 0
    /\ reason = "none" /\ verdict = "none"
    /\ answeredAt = -1 /\ exitedAt = -1

(***************************************************************************)
(* The harness, at any moment.  Its helpers can write as long as they live.*)
(***************************************************************************)
HarnessActs == UNCHANGED <<harness, runPc, clock, watcher, reason, verdict>>

Emits(kind) ==
    /\ leader = "running" \/ helpers
    /\ output.n < MaxOutputs
    /\ output' = [kind |-> kind, n |-> output.n + 1]
    /\ answeredAt' = IF kind = "answer" /\ answeredAt = -1 THEN clock
                                                           ELSE answeredAt
    /\ UNCHANGED <<leader, helpers, exitCode, agentStatus, denied, exitedAt>>
    /\ HarnessActs

Reports(status) ==
    /\ leader = "running" \/ helpers
    /\ agentStatus' = status
    /\ UNCHANGED <<leader, helpers, exitCode, output, denied, answeredAt,
                   exitedAt>>
    /\ HarnessActs

IsDenied ==
    /\ leader = "running" /\ harness = "agy" /\ ~denied
    /\ denied' = TRUE
    /\ UNCHANGED <<leader, helpers, exitCode, output, agentStatus, answeredAt,
                   exitedAt>>
    /\ HarnessActs

Forks ==
    /\ leader = "running" /\ ~helpers
    /\ helpers' = TRUE
    /\ UNCHANGED <<leader, exitCode, output, agentStatus, denied, answeredAt,
                   exitedAt>>
    /\ HarnessActs

Exits(code) ==
    /\ leader = "running"
    /\ leader' = "exited" /\ exitCode' = code /\ exitedAt' = clock
    /\ UNCHANGED <<helpers, output, agentStatus, denied, answeredAt>>
    /\ HarnessActs

HarnessStep ==
    \/ \E kind \in {"noise", "answer"} : Emits(kind)
    \/ \E status \in {"success", "failure"} : Reports(status)
    \/ IsDenied \/ Forks
    \/ \E code \in {"zero", "nonzero"} : Exits(code)

(***************************************************************************)
(* The supervisor.                                                         *)
(***************************************************************************)
SpawnHarness(h) ==
    /\ runPc = "idle"
    /\ harness' = h
    /\ \/ runPc' = "poll" /\ leader' = "running" /\ reason' = reason
       \/ runPc' = "collect" /\ leader' = leader /\ reason' = "failed_to_start"
    /\ UNCHANGED <<clock, helpers, exitCode, output, agentStatus, denied,
                   answeredAt, exitedAt, watcher, verdict>>

\* Leave the watch for the finally clause, or go on with it.
Leave(why) ==
    /\ reason' = why /\ runPc' = "reap"
    /\ UNCHANGED <<harness, clock, watched, watcher, verdict>>

Go(pc) ==
    /\ runPc' = pc
    /\ UNCHANGED <<harness, clock, watched, watcher, reason, verdict>>

\* A common error: the wall clock is looked at before the process.
BugPollLeader ==
    /\ runPc = "poll"
    /\ IF clock >= TotalTimeout THEN Leave("hard_timeout")
       ELSE IF leader = "exited" THEN Leave("self_exit")
       ELSE Go("look")

PollLeader ==
    /\ runPc = "poll"
    /\ IF leader = "exited" THEN Leave("self_exit")
       ELSE IF clock >= TotalTimeout THEN Leave("hard_timeout")
       ELSE Go("look")

(***************************************************************************)
(* What counts as an answer: result.txt with a text in it, unchanged since *)
(* the last look; or a last line of output that is a result, the same as   *)
(* at the last look (to print it again is no change).                      *)
(***************************************************************************)
\* A common error: an empty file is as good as any other.
BugResultFileStable == output = seen /\ output.kind # "nothing"

ResultFileStable == output = seen /\ output.kind = "answer"

HasFinalResult == output.kind = "answer"
StdoutStable == HasFinalResult /\ output = seen

IsStable == IF harness = "minimax" THEN ResultFileStable ELSE StdoutStable

LookAtOutput ==
    LET since == IF IsStable /\ stableSince = -1 THEN clock ELSE stableSince
    IN  /\ runPc = "look"
        /\ seen' = output /\ stableSince' = since
        /\ runPc' = IF IsStable /\ clock - since >= SettleGrace THEN "settled"
                                                                ELSE "sleep"
        /\ UNCHANGED <<harness, clock, watched, waitUntil, reason, verdict>>

LastChance ==
    /\ runPc = "settled"
    /\ \/ leader = "exited" /\ Leave("self_exit")
       \/ /\ leader # "exited"
          /\ waitUntil' = clock + ExitGrace /\ runPc' = "grace"
          /\ UNCHANGED <<harness, clock, watched, seen, stableSince, reason,
                         verdict>>

AwaitExit ==
    /\ runPc = "grace"
    /\ IF clock >= waitUntil THEN Go("kill")
       ELSE IF leader = "exited" THEN Leave("self_exit")
       ELSE Go("nap")

SleepOneInterval ==
    /\ \/ runPc = "sleep" /\ runPc' = "poll"
       \/ runPc = "nap" /\ runPc' = "grace"
    /\ clock' = clock + 1
    /\ UNCHANGED <<harness, watched, watcher, reason, verdict>>

\* terminate_tree: the group is signalled and waited for.  A leader that has
\* ended by itself keeps its exit code.
TreeKilled ==
    /\ leader' = "exited" /\ helpers' = FALSE
    /\ exitCode' = IF leader = "running" THEN "signal" ELSE exitCode
    /\ UNCHANGED <<output, agentStatus, denied, answeredAt, exitedAt>>

EscalateTerminate ==
    /\ runPc = "kill"
    /\ TreeKilled
    /\ reason' = "grace_expired" /\ runPc' = "reap"
    /\ UNCHANGED <<harness, clock, watcher, verdict>>

\* A common error: nothing is left to do once the process itself has exited.
BugReap ==
    /\ runPc = "reap"
    /\ IF leader = "exited" THEN UNCHANGED watched ELSE TreeKilled
    /\ runPc' = "collect"
    /\ UNCHANGED <<harness, clock, watcher, reason, verdict>>

Reap ==
    /\ runPc = "reap"
    /\ TreeKilled
    /\ runPc' = "collect"
    /\ UNCHANGED <<harness, clock, watcher, reason, verdict>>

\* The worker gets SIGTERM, which its handler turns into an exception: the
\* finally clause runs, then main writes the job down as failed.
Interrupted ==
    /\ runPc \in {"poll", "look", "sleep", "settled", "grace", "nap"}
    /\ Leave("interrupted")

HasMessage == output.kind = "answer"

MinimaxCompletes ==
    /\ HasMessage
    /\ \/ reason = "self_exit"
       \/ reason = "grace_expired" /\ agentStatus # "failure"

ResultMessage == HasFinalResult

AgyCompletes ==
    /\ ~denied
    /\ ResultMessage
    /\ \/ reason = "self_exit" /\ exitCode = "zero"
       \/ reason = "grace_expired"
    /\ agentStatus # "failure"

Collect ==
    /\ runPc = "collect"
    /\ verdict' = IF \/ harness = "minimax" /\ MinimaxCompletes
                     \/ harness = "agy" /\ AgyCompletes
                  THEN "completed" ELSE "failed"
    /\ runPc' = "over"
    /\ UNCHANGED <<harness, clock, watched, watcher, reason>>

Supervise ==
    \/ \E h \in {"minimax", "agy"} : SpawnHarness(h)
    \/ PollLeader \/ LookAtOutput \/ LastChance \/ AwaitExit
    \/ SleepOneInterval \/ EscalateTerminate \/ Reap \/ Collect

RunNext == Supervise \/ HarnessStep \/ Interrupted

\* The supervisor is a loop of its own: it goes on whatever the harness does.
RunFairness == WF_runVars(Supervise)
RunSpec == RunInit /\ [][RunNext]_runVars /\ RunFairness

-----------------------------------------------------------------------------
RunTypeOK ==
    /\ harness \in {"none", "minimax", "agy"}
    /\ runPc \in RunPcs
    /\ clock \in Nat
    /\ leader \in {"none", "running", "exited"}
    /\ helpers \in BOOLEAN
    /\ exitCode \in {"none", "zero", "nonzero", "signal"}
    /\ output \in [kind : OutputKinds, n : 0..MaxOutputs]
    /\ agentStatus \in {"none", "success", "failure"}
    /\ denied \in BOOLEAN
    /\ seen \in [kind : OutputKinds, n : 0..MaxOutputs]
    /\ stableSince \in Nat \union {-1}
    /\ waitUntil \in Nat
    /\ reason \in Reasons
    /\ verdict \in {"none", "completed", "failed"}
    /\ answeredAt \in Nat \union {-1}
    /\ exitedAt \in Nat \union {-1}

(***************************************************************************)
(* A harness that answers, reports no failure and exits by itself with     *)
(* code 0 before the total timeout is a completed job, whatever the        *)
(* supervisor was doing at that moment: between two polls, in the grace    *)
(* period or about to kill.                                                *)
(***************************************************************************)
AnsweredInTimeCompletes ==
    (/\ runPc = "over" /\ reason # "interrupted"
     /\ exitCode = "zero" /\ exitedAt < TotalTimeout
     /\ output.kind = "answer" /\ agentStatus # "failure" /\ ~denied)
    => verdict = "completed"

(***************************************************************************)
(* A live harness is killed only when the worker itself is being stopped,  *)
(* at the total timeout, or when it has had the settle grace and then the  *)
(* exit grace since its first answer: noise, an empty result file or a     *)
(* half written line never ends a run.                                     *)
(***************************************************************************)
NoEarlyKill ==
    exitCode = "signal" =>
        \/ reason = "interrupted"
        \/ clock >= TotalTimeout
        \/ answeredAt # -1 /\ clock >= answeredAt + SettleGrace + ExitGrace

(***************************************************************************)
(* A run that is over has left no process behind, neither the harness nor  *)
(* the helpers it started.                                                 *)
(***************************************************************************)
TreeReclaimed ==
    runPc \in {"collect", "over"} => leader # "running" /\ ~helpers

\* Every run ends, with nothing left of the process tree, even for a harness
\* that never answers and never exits.
RunEnds == runPc = "poll" ~> (runPc = "over" /\ TreeReclaimed)
=============================================================================
