----------------------------- MODULE JobWorker -----------------------------
(***************************************************************************)
(* The worker process of one job: claim_job, the run of the harness, the   *)
(* record of its result and the release of worker.lock (main).             *)
(*                                                                         *)
(*   boot     started by a daemon, not in claim_job yet                    *)
(*   locked   has created worker.lock, has not written its pid             *)
(*   claimed  worker.lock holds its pid                                    *)
(*   read     has read status.json as queued, has not written it back      *)
(*   exec     the harness is running the prompt                            *)
(*   final    has written the result, still holds worker.lock              *)
(*   lost     claim_job returned None                                      *)
(*   orphan   died while the harness it started is still running           *)
(*   gone     no process of its group is left                              *)
(***************************************************************************)
EXTENDS QueueState

VARIABLE
    ran             \* history: the workers that handed their prompt over

WorkerPcs == {"none", "boot", "locked", "claimed", "read", "exec", "final",
              "lost", "orphan", "gone"}

InitWorker == ran = {}

WorkerGoto(w, label) == workerPc' = [workerPc EXCEPT ![w] = label]

\* claim_job: O_CREAT | O_EXCL on worker.lock.
CreateWorkerLock(w) ==
    /\ workerPc[w] = "boot"
    /\ \/ /\ workerLock[w[2]] = None
          /\ workerLock' = [workerLock EXCEPT ![w[2]] = w]
          /\ pidWritten' = [pidWritten EXCEPT ![w[2]] = FALSE]
          /\ WorkerGoto(w, "locked")
       \/ /\ workerLock[w[2]] # None
          /\ WorkerGoto(w, "lost")
          /\ UNCHANGED <<workerLock, pidWritten>>
    /\ UNCHANGED <<status, recordedPid, dispatchLock, identity, lease, harnessLock, ran, faults>>

\* The pid goes into the file opened before, if that file still has a name.
WriteWorkerPid(w) ==
    /\ workerPc[w] = "locked"
    /\ pidWritten' = [pidWritten EXCEPT ![w[2]] = @ \/ workerLock[w[2]] = w]
    /\ WorkerGoto(w, "claimed")
    /\ UNCHANGED <<status, recordedPid, workerLock, dispatchLock, identity, lease, harnessLock, ran, faults>>

\* Mutant: the status is not looked at.
ReadAnyStatus(w) ==
    /\ workerPc[w] = "claimed"
    /\ WorkerGoto(w, "read")
    /\ UNCHANGED <<files, ran, faults>>

\* A job whose status is not queued any more is left alone.
ReadStatus(w) ==
    /\ workerPc[w] = "claimed"
    /\ WorkerGoto(w, IF status[w[2]] = "queued" THEN "read" ELSE "lost")
    /\ UNCHANGED <<files, ran, faults>>

\* The state read before is written back as running, over whatever is there.
WriteRunning(w) ==
    /\ workerPc[w] = "read"
    /\ status' = [status EXCEPT ![w[2]] = "running"]
    /\ recordedPid' = [recordedPid EXCEPT ![w[2]] = w]
    /\ ran' = ran \cup {w}
    /\ WorkerGoto(w, "exec")
    /\ UNCHANGED <<workerLock, pidWritten, dispatchLock, identity, lease, harnessLock, faults>>

\* Before each attempt or launch the worker writes its own state, still
\* running, once more.
WriteProgress(w) ==
    /\ workerPc[w] = "exec"
    /\ status' = [status EXCEPT ![w[2]] = "running"]
    /\ recordedPid' = [recordedPid EXCEPT ![w[2]] = w]
    /\ UNCHANGED <<workerLock, pidWritten, dispatchLock, identity, lease, harnessLock, workerPc, ran, faults>>

\* The harness is over and its outcome is recorded.
WriteResult(w) ==
    /\ workerPc[w] = "exec"
    /\ \E outcome \in {"completed", "failed"} :
          status' = [status EXCEPT ![w[2]] = outcome]
    /\ recordedPid' = [recordedPid EXCEPT ![w[2]] = w]
    /\ WorkerGoto(w, "final")
    /\ UNCHANGED <<workerLock, pidWritten, dispatchLock, identity, lease, harnessLock, ran, faults>>

\* An exception, in claim_job already or later: the state is read again and
\* written back as failed.
WrapperError(w) ==
    /\ \/ workerPc[w] \in {"claimed", "read"} /\ Fault("error")
       \/ workerPc[w] = "exec" /\ UNCHANGED faults
    /\ status' = [status EXCEPT ![w[2]] = "failed"]
    /\ WorkerGoto(w, "final")
    /\ UNCHANGED <<recordedPid, workerLock, pidWritten, dispatchLock, identity, lease, harnessLock, ran>>

\* finally: release_job_lock, whoever created the lock, and the process ends.
ReleaseJobLock(w) ==
    /\ workerPc[w] \in {"final", "lost"}
    /\ workerLock' = [workerLock EXCEPT ![w[2]] = None]
    /\ pidWritten' = [pidWritten EXCEPT ![w[2]] = FALSE]
    /\ WorkerGoto(w, "gone")
    /\ UNCHANGED <<status, recordedPid, dispatchLock, identity, lease, harnessLock, ran, faults>>

\* The worker is killed.  What it started may go on for a while.
CrashWorker(w) ==
    /\ WorkerAlive(w)
    /\ \/ workerPc[w] # "locked" /\ Fault("worker")
       \/ workerPc[w] = "locked" /\ Fault("claim")
    /\ \/ WorkerGoto(w, "gone")
       \/ workerPc[w] = "exec" /\ WorkerGoto(w, "orphan")
    /\ UNCHANGED <<files, ran>>

OrphanEnds(w) ==
    /\ workerPc[w] = "orphan"
    /\ WorkerGoto(w, "gone")
    /\ UNCHANGED <<files, ran, faults>>

\* A step of the worker's own code.
Work(w) ==
    \/ CreateWorkerLock(w) \/ WriteWorkerPid(w) \/ ReadStatus(w)
    \/ WriteRunning(w) \/ WriteProgress(w) \/ WriteResult(w)
    \/ WrapperError(w) \/ ReleaseJobLock(w)

WorkerStep(w) == Work(w) \/ CrashWorker(w) \/ OrphanEnds(w)
=============================================================================
