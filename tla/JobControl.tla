---------------------------- MODULE JobControl ----------------------------
(***************************************************************************)
(* The control-plane tools that write a job's files: start_task and        *)
(* cancel_task.                                                            *)
(***************************************************************************)
EXTENDS QueueState

CONSTANT Cancellable    \* the jobs somebody asks to cancel

ASSUME ControlAssumption == Cancellable \subseteq Jobs

VARIABLE
    cancel          \* where the cancel_task call for a job is

CancelPcs == {"none", "checked", "cancelled", "refused"}

InitControl == cancel = [j \in Jobs |-> "none"]

\* start_task: the directory, then status.json, last.  Jobs are submitted in
\* the order of their created_at.
StartTask(j) ==
    /\ status[j] = "absent"
    /\ \A k \in Jobs : k < j => status[k] # "absent"
    /\ status' = [status EXCEPT ![j] = "queued"]
    /\ UNCHANGED <<recordedPid, workerLock, pidWritten, dispatchLock, identity, lease,
                   harnessLock, cancel, workerPc, faults>>

\* cancel_task reads the state and looks for worker.lock ...
CheckCancel(j) ==
    /\ j \in Cancellable /\ cancel[j] = "none"
    /\ status[j] # "absent"
    /\ cancel' = [cancel EXCEPT ![j] =
          IF j \notin Foreign /\ workerLock[j] = None /\ status[j] = "queued"
          THEN "checked" ELSE "refused"]
    /\ UNCHANGED <<files, workerPc, faults>>

\* ... and writes the state it read back as cancelled: ok.
WriteCancelled(j) ==
    /\ cancel[j] = "checked"
    /\ status' = [status EXCEPT ![j] = "cancelled"]
    /\ recordedPid' = [recordedPid EXCEPT ![j] = None]
    /\ cancel' = [cancel EXCEPT ![j] = "cancelled"]
    /\ UNCHANGED <<workerLock, pidWritten, dispatchLock, identity, lease, harnessLock, workerPc, faults>>

ControlStep(j) == StartTask(j) \/ CheckCancel(j) \/ WriteCancelled(j)
=============================================================================
