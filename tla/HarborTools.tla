---------------------------- MODULE HarborTools ----------------------------
(***************************************************************************)
(* The parts of Harness Harbor around the queue, side by side.  They run   *)
(* in processes of their own and share no state: what one of them does     *)
(* changes nothing another one reads.  A behaviour therefore follows one   *)
(* of them, its scene, from beginning to end.                              *)
(***************************************************************************)
EXTENDS HarnessRun, CodexRoutes, GitDelivery, StatusCache, QuotaCache,
        RuntimeLifecycle, Launcher, SettingsApply

VARIABLE scene      \* the part a behaviour is about

Scenes == {"run", "codex", "git", "status", "quota", "runtime", "launcher",
           "settings"}

Init ==
    /\ scene \in Scenes
    /\ RunInit /\ CodexInit /\ GitInit /\ StatusInit /\ QuotaInit /\ RtInit
    /\ LauncherInit /\ SettingsInit

RunScene ==
    /\ scene = "run" /\ RunNext
    /\ UNCHANGED <<scene, codexVars, gitVars, statusVars, quotaVars, rtVars,
                   launcherVars, settingsVars>>

CodexScene ==
    /\ scene = "codex" /\ CodexNext
    /\ UNCHANGED <<scene, runVars, gitVars, statusVars, quotaVars, rtVars,
                   launcherVars, settingsVars>>

GitScene ==
    /\ scene = "git" /\ GitNext
    /\ UNCHANGED <<scene, runVars, codexVars, statusVars, quotaVars, rtVars,
                   launcherVars, settingsVars>>

StatusScene ==
    /\ scene = "status" /\ StatusNext
    /\ UNCHANGED <<scene, runVars, codexVars, gitVars, quotaVars, rtVars,
                   launcherVars, settingsVars>>

QuotaScene ==
    /\ scene = "quota" /\ QuotaNext
    /\ UNCHANGED <<scene, runVars, codexVars, gitVars, statusVars, rtVars,
                   launcherVars, settingsVars>>

RuntimeScene ==
    /\ scene = "runtime" /\ RtNext
    /\ UNCHANGED <<scene, runVars, codexVars, gitVars, statusVars, quotaVars,
                   launcherVars, settingsVars>>

LauncherScene ==
    /\ scene = "launcher" /\ LauncherNext
    /\ UNCHANGED <<scene, runVars, codexVars, gitVars, statusVars, quotaVars,
                   rtVars, settingsVars>>

SettingsScene ==
    /\ scene = "settings" /\ SettingsNext
    /\ UNCHANGED <<scene, runVars, codexVars, gitVars, statusVars, quotaVars,
                   rtVars, launcherVars>>

Next ==
    \/ RunScene \/ CodexScene \/ GitScene \/ StatusScene \/ QuotaScene
    \/ RuntimeScene \/ LauncherScene \/ SettingsScene

toolVars == <<scene, runVars, codexVars, gitVars, statusVars, quotaVars, rtVars,
              launcherVars, settingsVars>>

\* The supervisor of a run is a loop of its own, as in HarnessRun.
Spec == Init /\ [][Next]_toolVars /\ WF_runVars(scene = "run" /\ Supervise)

-----------------------------------------------------------------------------
\* Every part keeps its types; among them: that a tool is missing is never
\* remembered by _agy_cli_status, so one just installed is found at once.
TypeOK ==
    /\ scene \in Scenes
    /\ RunTypeOK /\ CodexTypeOK /\ GitTypeOK /\ StatusTypeOK /\ QuotaTypeOK
    /\ RtTypeOK /\ LauncherTypeOK /\ SettingsTypeOK
=============================================================================
