--------------------------- MODULE MCHarborQueue ---------------------------
(***************************************************************************)
(* Small instances of the queue for TLC.                                   *)
(***************************************************************************)
EXTENDS HarborQueue, TLC

CONSTANTS d1, d2, d3, codex, minimax, agy, wsA, wsB

NoFaults == [k \in FaultKinds |-> 0]

(***************************************************************************)
(* One harness with one slot.                                              *)
(***************************************************************************)
OneHarness == <<codex>>
OneSlot == [h \in Harnesses |-> 1]
AllCodex == [j \in Jobs |-> codex]

\* Jobs 1 and 3 share a workspace.
Alternating == [j \in Jobs |-> IF j = 2 THEN wsB ELSE wsA]
Shared == [j \in Jobs |-> wsA]

Symmetric == Permutations(Daemons)

TwoHarnesses == <<codex, agy>>
CodexAndAgy == [j \in Jobs |-> IF j % 2 = 1 THEN codex ELSE agy]

\* The harness visited first is disabled.
DisabledFirst == <<agy, codex>>
CodexOnly == [h \in Harnesses |-> IF h = codex THEN 1 ELSE 0]

Restarts == [NoFaults EXCEPT !["daemon"] = 1, !["worker"] = 1, !["stop"] = 1]

CrashAndRestart ==
    [NoFaults EXCEPT !["daemon"] = 1, !["worker"] = 1, !["spawn"] = 1]
KilledWhileClaiming == [NoFaults EXCEPT !["claim"] = 1]
\* Every fault once but a spawn that raises.
AllButSpawn == [k \in FaultKinds |-> IF k = "spawn" THEN 0 ELSE 1]
OneWorkerCrash == [NoFaults EXCEPT !["worker"] = 1]
=============================================================================
