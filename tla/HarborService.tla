--------------------------- MODULE HarborService ---------------------------
(***************************************************************************)
(* What the Harbor queue promises to those who submit jobs, without files, *)
(* locks or processes: a job submitted waits, is worked on at most once    *)
(* and is over; no two jobs are worked on in one workspace at a time.  A   *)
(* job may end without having been worked on.                              *)
(***************************************************************************)
CONSTANTS
    Jobs,
    WorkspaceOf     \* the canonical workspace of a job

VARIABLE phase      \* of each job: absent, waiting, working or over

Init == phase = [j \in Jobs |-> "absent"]

Submit(j) ==
    /\ phase[j] = "absent"
    /\ phase' = [phase EXCEPT ![j] = "waiting"]

\* The prompt is handed to a harness in a workspace where nobody works.
Begin(j) ==
    /\ phase[j] = "waiting"
    /\ \A k \in Jobs : phase[k] = "working" => WorkspaceOf[k] # WorkspaceOf[j]
    /\ phase' = [phase EXCEPT ![j] = "working"]

End(j) ==
    /\ phase[j] = "working"
    /\ phase' = [phase EXCEPT ![j] = "over"]

\* Jobs are cancelled or failed before anybody worked on them.
Drop(S) ==
    /\ \A j \in S : phase[j] = "waiting"
    /\ phase' = [j \in Jobs |-> IF j \in S THEN "over" ELSE phase[j]]

Next ==
    \/ \E j \in Jobs : Submit(j) \/ Begin(j) \/ End(j)
    \/ \E S \in SUBSET Jobs : Drop(S)

Spec == Init /\ [][Next]_phase
=============================================================================
