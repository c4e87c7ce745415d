---------------------------- MODULE CodexRoutes ----------------------------
(***************************************************************************)
(* run_codex_with_routes: a Codex job tries its routes in order, and goes  *)
(* on from the official one to the custom one only after an exhausted      *)
(* subscription.  Every attempt is one call of run_safe_subprocess.        *)
(*                                                                         *)
(*   idle       no job yet                                                 *)
(*   prepare    about to prepare an attempt                                *)
(*   spawn      status.json names the route, no process yet                *)
(*   wait       waits for the process, at most timeout seconds             *)
(*   terminate  the timeout has passed                                     *)
(*   finish     in the finally clause of run_safe_subprocess               *)
(*   collect    has the return code and the output                         *)
(*   over       the job has its outcome                                    *)
(***************************************************************************)
EXTENDS Integers, Sequences

VARIABLES
    requested,      \* route_requested
    attempt,        \* the number of the attempt, from 1
    codexPc,
    codexProc,      \* the process of the attempt: none, running or exited
    codexTree,      \* the attempts with a process still alive in their group
    returnCode,     \* none, zero or nonzero
    said,           \* what the attempt has printed: quota, rate
    resultFrom,     \* the route whose answer is in result.txt, or missing
    attempts,       \* the field of the same name
    fallbackUsed,
    codexDisk,      \* route_used and fallback_used in status.json
    outcome,        \* status of the job and whose answer it carries
    unlinkFailed,   \* history: an old result.txt could not be removed
    timedOut        \* history: the attempts that were timed out

codexChild == <<codexProc, codexTree, returnCode, said, resultFrom>>
codexJob == <<requested, attempt, attempts, fallbackUsed, codexDisk, outcome,
              unlinkFailed>>
codexVars == <<codexPc, codexChild, codexJob, timedOut>>

Routes == {"current", "official", "custom"}
RouteRequests == Routes \union {"official_then_custom"}
CodexPcs == {"idle", "prepare", "spawn", "wait", "terminate", "finish",
             "collect", "over"}

\* codex_route_attempts
RouteAttempts(r) == IF r = "official_then_custom" THEN <<"official", "custom">>
                                                  ELSE <<r>>
Route == RouteAttempts(requested)[attempt]

CodexInit ==
    /\ requested = "current" /\ attempt = 1 /\ codexPc = "idle"
    /\ codexProc = "none" /\ codexTree = {} /\ returnCode = "none"
    /\ said = {} /\ resultFrom = "missing"
    /\ attempts = <<>> /\ fallbackUsed = FALSE
    /\ codexDisk = [route |-> "none", fallback |-> FALSE]
    /\ outcome = [status |-> "none", message |-> "missing"]
    /\ unlinkFailed = FALSE /\ timedOut = {}

RequestRoute(r) ==
    /\ codexPc = "idle"
    /\ requested' = r /\ codexPc' = "prepare"
    /\ UNCHANGED <<attempt, codexChild, attempts, fallbackUsed, codexDisk,
                   outcome, unlinkFailed, timedOut>>

\* A common error: the answer of the first route stays in result.txt.
BugPrepareAttempt ==
    /\ codexPc = "prepare"
    /\ codexDisk' = [route |-> Route, fallback |-> fallbackUsed]
    /\ codexPc' = "spawn"
    /\ UNCHANGED <<codexChild, requested, attempt, attempts, fallbackUsed,
                   outcome, unlinkFailed, timedOut>>

PrepareAttempt ==
    /\ codexPc = "prepare"
    /\ \/ /\ resultFrom' = IF attempt > 1 THEN "missing" ELSE resultFrom
          /\ UNCHANGED unlinkFailed
       \/ /\ attempt > 1 /\ resultFrom # "missing"
          /\ unlinkFailed' = TRUE
          /\ UNCHANGED resultFrom
    /\ codexDisk' = [route |-> Route, fallback |-> fallbackUsed]
    /\ codexPc' = "spawn"
    /\ UNCHANGED <<codexProc, codexTree, returnCode, said, requested, attempt,
                   attempts, fallbackUsed, outcome, timedOut>>

\* An exception ends the job: main writes it down as failed.
CodexRaises ==
    /\ outcome' = [status |-> "failed", message |-> "missing"]
    /\ codexPc' = "over"
    /\ UNCHANGED <<codexChild, requested, attempt, attempts, fallbackUsed,
                   codexDisk, unlinkFailed, timedOut>>

\* The worker's environment does not configure the custom route.
NotConfigured == codexPc = "prepare" /\ Route = "custom" /\ CodexRaises

CannotStart == codexPc = "spawn" /\ CodexRaises

SpawnCodex ==
    /\ codexPc = "spawn"
    /\ codexProc' = "running" /\ codexTree' = codexTree \union {attempt}
    /\ returnCode' = "none" /\ said' = {}
    /\ codexPc' = "wait"
    /\ UNCHANGED <<resultFrom, codexJob, timedOut>>

(***************************************************************************)
(* The process of the attempt.  It may exit and leave others in its group; *)
(* after SIGTERM it may still exit with any code.                          *)
(***************************************************************************)
CodexWrites ==
    /\ codexProc = "running"
    /\ resultFrom' = Route
    /\ UNCHANGED <<codexPc, codexProc, codexTree, returnCode, said, codexJob,
                   timedOut>>

CodexSays(what) ==
    /\ codexProc = "running"
    /\ said' = said \union {what}
    /\ UNCHANGED <<codexPc, codexProc, codexTree, returnCode, resultFrom,
                   codexJob, timedOut>>

CodexExits(code) ==
    /\ codexProc = "running"
    /\ codexProc' = "exited" /\ returnCode' = code
    /\ codexTree' \in {codexTree, codexTree \ {attempt}}
    /\ UNCHANGED <<codexPc, said, resultFrom, codexJob, timedOut>>

(***************************************************************************)
(* run_safe_subprocess.                                                    *)
(***************************************************************************)
CodexReturns ==
    /\ codexPc = "wait" /\ codexProc = "exited"
    /\ codexPc' = "finish"
    /\ UNCHANGED <<codexChild, codexJob, timedOut>>

CodexTimesOut ==
    /\ codexPc = "wait" /\ codexProc = "running"
    /\ codexPc' = "terminate" /\ timedOut' = timedOut \union {attempt}
    /\ UNCHANGED <<codexChild, codexJob>>

\* terminate_tree; the return code is the one the process exited with.
KillCodexTree ==
    /\ codexProc' = "exited" /\ codexTree' = codexTree \ {attempt}
    /\ returnCode' = IF codexProc = "running" THEN "nonzero" ELSE returnCode
    /\ UNCHANGED <<said, resultFrom, codexJob, timedOut>>

TerminateCodex ==
    /\ codexPc = "terminate"
    /\ KillCodexTree
    /\ codexPc' = "finish"

\* A common error: a process that has exited leaves nothing to clean up.
BugFinishCodex ==
    /\ codexPc = "finish"
    /\ codexPc' = "collect"
    /\ UNCHANGED <<codexChild, codexJob, timedOut>>

FinishCodex ==
    /\ codexPc = "finish"
    /\ KillCodexTree
    /\ codexPc' = "collect"

(***************************************************************************)
(* The end of an attempt: collect_result, classify_codex_route_failure.    *)
(***************************************************************************)
AttemptStatus ==
    IF returnCode = "zero" /\ resultFrom # "missing" THEN "completed"
                                                     ELSE "failed"

QuotaExhausted == returnCode # "zero" /\ "quota" \in said /\ "rate" \notin said

\* A common error: any failure of the official route falls back.
BugCanFallBack ==
    /\ requested = "official_then_custom" /\ attempt = 1
    /\ returnCode # "zero"

CanFallBack ==
    /\ requested = "official_then_custom" /\ attempt = 1
    /\ QuotaExhausted

CollectAttempt ==
    /\ codexPc = "collect"
    /\ attempts' = Append(attempts, [route |-> Route, status |-> AttemptStatus,
                                     quota |-> QuotaExhausted])
    /\ IF CanFallBack
       THEN /\ fallbackUsed' = TRUE /\ attempt' = 2 /\ codexPc' = "prepare"
            /\ codexDisk' = [codexDisk EXCEPT !.fallback = TRUE]
            /\ UNCHANGED outcome
       ELSE /\ outcome' = [status |-> AttemptStatus, message |-> resultFrom]
            /\ codexDisk' = [route |-> Route, fallback |-> fallbackUsed]
            /\ codexPc' = "over"
            /\ UNCHANGED <<fallbackUsed, attempt>>
    /\ UNCHANGED <<codexChild, requested, unlinkFailed, timedOut>>

CodexNext ==
    \/ \E r \in RouteRequests : RequestRoute(r)
    \/ PrepareAttempt \/ NotConfigured \/ CannotStart \/ SpawnCodex
    \/ CodexWrites
    \/ \E what \in {"quota", "rate"} : CodexSays(what)
    \/ \E code \in {"zero", "nonzero"} : CodexExits(code)
    \/ CodexReturns \/ CodexTimesOut \/ TerminateCodex \/ FinishCodex
    \/ CollectAttempt

CodexSpec == CodexInit /\ [][CodexNext]_codexVars

-----------------------------------------------------------------------------
CodexTypeOK ==
    /\ requested \in RouteRequests
    /\ attempt \in 1..2
    /\ codexPc \in CodexPcs
    /\ codexProc \in {"none", "running", "exited"}
    /\ codexTree \in SUBSET (1..2)
    /\ returnCode \in {"none", "zero", "nonzero"}
    /\ said \in SUBSET {"quota", "rate"}
    /\ resultFrom \in Routes \union {"missing"}
    /\ attempts \in Seq([route : Routes, status : {"completed", "failed"},
                         quota : BOOLEAN])
    /\ fallbackUsed \in BOOLEAN
    /\ codexDisk \in [route : Routes \union {"none"}, fallback : BOOLEAN]
    /\ outcome \in [status : {"none", "completed", "failed"},
                    message : Routes \union {"missing"}]
    /\ unlinkFailed \in BOOLEAN
    /\ timedOut \in SUBSET (1..2)

(***************************************************************************)
(* "A fallback is therefore serial and cannot duplicate concurrent         *)
(* execution" (run_codex_with_routes): no process of the first route, not  *)
(* even one it left behind, is alive when the second one runs, and none at *)
(* all once the job is over.                                               *)
(***************************************************************************)
OneRouteAtATime ==
    /\ codexProc = "running" => codexTree = {attempt}
    /\ codexPc = "over" => codexTree = {}

(***************************************************************************)
(* The custom route is paid by the call.  A job that asked for the         *)
(* official one first reaches it only after an attempt that failed with an *)
(* explicit exhaustion of the subscription, and never after a success.     *)
(***************************************************************************)
FallbackJustified ==
    attempt = 2 =>
        /\ requested = "official_then_custom"
        /\ attempts # <<>>
        /\ attempts[1].route = "official"
        /\ attempts[1].status = "failed" /\ attempts[1].quota

(***************************************************************************)
(* The message of a completed job is the answer of the route the job names *)
(* as used, never one an earlier route left in result.txt, as long as the  *)
(* old file could be removed.                                              *)
(***************************************************************************)
AnswerOfRouteUsed ==
    outcome.status = "completed" /\ ~unlinkFailed =>
        outcome.message = codexDisk.route

(***************************************************************************)
(* run_safe_subprocess promises a return code of -1 for a process it had   *)
(* to terminate, so a job timed out in its last attempt cannot be          *)
(* completed.                                                              *)
(***************************************************************************)
TimedOutIsFailed ==
    outcome.status = "completed" => attempt \notin timedOut
=============================================================================
