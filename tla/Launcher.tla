------------------------------ MODULE Launcher ------------------------------
(***************************************************************************)
(* The Windows launcher: the Start, Stop and Restart buttons of its window *)
(* and of its tray icon, each of which runs an operation of                *)
(* launcher/lifecycle.py in a thread of its own, against processes it sees *)
(* only through scans of the process table.  A component is a supervisor,  *)
(* a loop that starts its child again five seconds after it has ended, and *)
(* that child.  The child of the tunnel stands for the tunnel client and   *)
(* for the MCP server it runs.                                             *)
(*                                                                         *)
(*   tasks   stop: scheduled tasks      check   start: the first look      *)
(*   scan    stop: locates the tree     launch  start: what was stopped    *)
(*   signal  stop: ends what it saw     fallback  start: no task started   *)
(*   sweep, rescan  stop: the rest      wait    start: until healthy       *)
(*   stopped, failed  what stop says    clearing  about to clear is_busy   *)
(*   dead    the thread has raised                                         *)
(***************************************************************************)
EXTENDS Integers

CONSTANTS
    MaxStarted,     \* bound on the processes started
    MaxClicks,      \* bound on the buttons handled
    MaxLosses       \* bound on the processes that die by themselves, and on
                    \* the tasks that start and are said not to have

ASSUME LauncherBoundsAssumption ==
    MaxStarted \in Nat /\ MaxClicks \in Nat /\ MaxLosses \in Nat

VARIABLES
    alive,          \* the processes, as [component, role, n, by]: the n-th of
                    \* its kind, started by this supervisor (0: a supervisor)
    generation,     \* how many were started
    losses,
    is_busy, clicks,
    at,             \* per button: where its thread is
    tree,           \* per button: what its stop has seen
    todo,           \* per button: what its stop has still to signal, or its
                    \* start to launch
    refused,        \* history: supervisors a stop has signalled in vain
    ended,          \* history: children a stop has ended
    reborn,         \* history: children started behind the back of a stop
    doubtful,       \* history: components whose scheduled task was said not to
                    \* have started, and had
    blind           \* history: a scan failed and was taken for an empty one

launcherVars == <<alive, generation, losses, is_busy, clicks, at, tree, todo,
                  refused, ended, reborn, doubtful, blind>>
stopHistory == <<refused, ended, reborn, doubtful>>

Parts == {"tunnel", "daemon"}
Roles == {"supervisor", "child"}
Buttons == {"start", "stop", "restart"}
Places == {"idle", "tasks", "scan", "signal", "sweep", "rescan", "stopped",
           "failed", "check", "launch", "fallback", "wait", "clearing", "dead"}
Process == [component : Parts, role : Roles, n : Nat, by : Nat]

LauncherInit ==
    /\ alive = {} /\ losses = 0
    /\ generation = [c \in Parts |-> [r \in Roles |-> 0]]
    /\ is_busy = FALSE /\ clicks = 0
    /\ at = [b \in Buttons |-> "idle"]
    /\ tree = [b \in Buttons |-> {}] /\ todo = [b \in Buttons |-> {}]
    /\ refused = {} /\ ended = {} /\ reborn = {} /\ doubtful = {}
    /\ blind = FALSE

Supervisors(procs) == {p \in procs : p.role = "supervisor"}
ChildrenOf(s) == {p \in alive : p.component = s.component /\ p.by = s.n}
Enter(b, place) == at' = [at EXCEPT ![b] = place]

(***************************************************************************)
(* The supervisors, and the processes that end by themselves.              *)
(***************************************************************************)
Started(c, role, by) ==
    [component |-> c, role |-> role, n |-> generation[c][role] + 1, by |-> by]

StartedSoFar ==
    LET of(c) == generation[c]["supervisor"] + generation[c]["child"]
    IN  of("tunnel") + of("daemon")

Starts(p) ==
    /\ StartedSoFar < MaxStarted
    /\ alive' = alive \union {p}
    /\ generation' = [generation EXCEPT ![p.component][p.role] = p.n]

\* A stop has only itself to blame for a child that comes back because it has
\* ended the one before, unless the supervisor could not be ended.
Excused(s) ==
    s \in refused \/ \A q \in ended : ~(q.component = s.component /\ q.by = s.n)

SupervisorStartsChild(s) ==
    /\ s \in Supervisors(alive) /\ ChildrenOf(s) = {}
    /\ Starts(Started(s.component, "child", s.n))
    /\ reborn' = IF (\E b \in Buttons : s \in tree[b]) /\ Excused(s)
               THEN reborn \union {Started(s.component, "child", s.n)} ELSE reborn
    /\ UNCHANGED <<losses, is_busy, clicks, at, tree, todo, refused, ended,
                   doubtful, blind>>

ProcessDies(p) ==
    /\ losses < MaxLosses /\ p \in alive
    /\ alive' = alive \ {p} /\ losses' = losses + 1
    /\ UNCHANGED <<generation, is_busy, clicks, at, tree, todo, stopHistory, blind>>

(***************************************************************************)
(* The buttons.  The window goes on while a thread works, and so does the  *)
(* tray icon, whose commands do not look at the state of the buttons.      *)
(***************************************************************************)
MayHandle == ~is_busy

Click(b) ==
    /\ MayHandle /\ at[b] = "idle" /\ clicks < MaxClicks
    /\ is_busy' = TRUE /\ clicks' = clicks + 1
    /\ Enter(b, IF b = "start" THEN "check" ELSE "tasks")
    /\ UNCHANGED <<alive, generation, losses, tree, todo, stopHistory, blind>>

ClearBusy(b) ==
    /\ at[b] = "clearing"
    /\ is_busy' = FALSE
    /\ Enter(b, "idle")
    /\ UNCHANGED <<alive, generation, losses, clicks, tree, todo, stopHistory, blind>>

(***************************************************************************)
(* A scan of the process table.  When both ways to ask for it fail, the    *)
(* answer is an empty list.                                                *)
(***************************************************************************)
Scans == {alive, {}}
NotesScan(scan) == blind' = (blind \/ scan # alive)

(***************************************************************************)
(* stop_harbor.                                                            *)
(***************************************************************************)
\* A supervisor that a scheduled task has started ends with the task.
StopScheduledTasks(b) ==
    /\ at[b] = "tasks"
    /\ \E gone \in SUBSET Supervisors(alive) : alive' = alive \ gone
    /\ Enter(b, "scan")
    /\ UNCHANGED <<generation, losses, is_busy, clicks, tree, todo, stopHistory, blind>>

LocateTree(b) ==
    /\ at[b] = "scan"
    /\ \E scan \in Scans :
        /\ NotesScan(scan)
        /\ tree' = [tree EXCEPT ![b] = scan] /\ todo' = [todo EXCEPT ![b] = scan]
        /\ Enter(b, IF scan = {} THEN "stopped" ELSE "signal")
    /\ reborn' = {}
    /\ UNCHANGED <<alive, generation, losses, is_busy, clicks, refused, ended,
                   doubtful>>

Rank(p) == IF p.role = "supervisor" THEN 0 ELSE IF p.component = "tunnel" THEN 1
                                                                       ELSE 2

\* A common error: what is found is ended in the order it was found in.
BugNextToEnd(b, p) == TRUE

\* Supervisors first, then the tunnel client, then the servers.
NextToEnd(b, p) == \A q \in todo[b] : Rank(p) <= Rank(q)

Terminate(b, p) ==
    /\ at[b] = "signal" /\ p \in todo[b] /\ NextToEnd(b, p)
    /\ todo' = [todo EXCEPT ![b] = @ \ {p}]
    /\ \/ /\ alive' = alive \ {p}
          /\ ended' = ended \union ({p} \intersect alive)
          /\ UNCHANGED refused
       \/ p \in alive /\ refused' = refused \union {p}
          /\ UNCHANGED <<alive, ended>>
    /\ UNCHANGED <<generation, losses, is_busy, clicks, at, tree, reborn,
                   doubtful, blind>>

\* All that was seen is gone, or some of it still runs at the deadline.
Verified(b) ==
    /\ at[b] = "signal" /\ todo[b] = {}
    /\ Enter(b, IF tree[b] \intersect alive = {} THEN "stopped" ELSE "sweep")
    /\ UNCHANGED <<alive, generation, losses, is_busy, clicks, tree, todo,
                   stopHistory, blind>>

\* taskkill /T takes the children along.
Sweep(b) ==
    /\ at[b] = "sweep"
    /\ \E gone \in SUBSET (tree[b] \intersect alive) :
          alive' = alive \ (gone \union UNION {ChildrenOf(s) : s \in Supervisors(gone)})
    /\ Enter(b, "rescan")
    /\ UNCHANGED <<generation, losses, is_busy, clicks, tree, todo, stopHistory, blind>>

Rescan(b) ==
    /\ at[b] = "rescan"
    /\ \E scan \in Scans : /\ NotesScan(scan)
                           /\ Enter(b, IF scan = {} THEN "stopped" ELSE "failed")
    /\ UNCHANGED <<alive, generation, losses, is_busy, clicks, tree, todo, stopHistory>>

\* The end of a stop, or the pause of a restart.
StopReturns(b) ==
    /\ at[b] \in {"stopped", "failed"}
    /\ tree' = [tree EXCEPT ![b] = {}]
    /\ Enter(b, IF b = "restart" /\ at[b] = "stopped" THEN "check" ELSE "clearing")
    /\ UNCHANGED <<alive, generation, losses, is_busy, clicks, todo, stopHistory, blind>>

(***************************************************************************)
(* start_harbor.  What a component's health endpoint answers is open.      *)
(***************************************************************************)
\* A common error: a supervisor that waits for its child counts as stopped.
BugStoppedIn(scan, c) == \A p \in scan : ~(p.component = c /\ p.role = "child")

StoppedIn(scan, c) == \A p \in scan : p.component # c

HealthyIn(scan, probe) ==
    /\ probe /\ ~StoppedIn(scan, "tunnel")
    /\ \E p \in scan : p.component = "daemon" /\ p.role = "child"

CheckStatus(b) ==
    /\ at[b] = "check"
    /\ \E scan \in Scans, probe \in BOOLEAN :
        /\ NotesScan(scan)
        /\ IF HealthyIn(scan, probe)
           THEN Enter(b, "clearing") /\ UNCHANGED todo
           ELSE /\ Enter(b, "launch")
                /\ todo' = [todo EXCEPT ![b] = {Started(c, "supervisor", 0) :
                                       c \in {d \in Parts : StoppedIn(scan, d)}}]
    /\ doubtful' = {d \in doubtful : ~StoppedIn(alive, d)}
    /\ UNCHANGED <<alive, generation, losses, is_busy, clicks, tree, refused,
                   ended, reborn>>

\* The tunnel comes first.
NextToLaunch(b, p) ==
    p \in todo[b] /\ \A q \in todo[b] : p.component = "tunnel" \/ q.component = "daemon"

\* Start-ScheduledTask.  What it says and what it has done are two things: it
\* may be given up after five seconds and have started the task, and a task
\* that has started may end at once.
LaunchTask(b, p) ==
    /\ at[b] = "launch" /\ NextToLaunch(b, p)
    /\ \E reported \in BOOLEAN :
        /\ todo' = IF reported THEN [todo EXCEPT ![b] = @ \ {p}] ELSE todo
        /\ Enter(b, IF reported THEN "launch" ELSE "fallback")
        /\ \/ /\ Starts(Started(p.component, "supervisor", 0))
              /\ IF reported THEN UNCHANGED <<losses, doubtful>>
                 ELSE /\ losses < MaxLosses /\ losses' = losses + 1
                      /\ doubtful' = doubtful \union {p.component}
           \/ UNCHANGED <<alive, generation, losses, doubtful>>
    /\ UNCHANGED <<is_busy, clicks, tree, refused, ended, reborn, blind>>

\* The second attempt, whose failure is not reported.
SpawnSupervisor(b, p) ==
    /\ at[b] = "fallback" /\ NextToLaunch(b, p)
    /\ todo' = [todo EXCEPT ![b] = @ \ {p}]
    /\ Enter(b, "launch")
    /\ Starts(Started(p.component, "supervisor", 0)) \/ UNCHANGED <<alive, generation>>
    /\ UNCHANGED <<losses, is_busy, clicks, tree, stopHistory, blind>>

Launched(b) ==
    /\ at[b] = "launch" /\ todo[b] = {}
    /\ Enter(b, "wait")
    /\ UNCHANGED <<alive, generation, losses, is_busy, clicks, tree, todo,
                   stopHistory, blind>>

\* Healthy, or not before the deadline.
StartReturns(b) ==
    /\ at[b] = "wait"
    /\ Enter(b, "clearing")
    /\ UNCHANGED <<alive, generation, losses, is_busy, clicks, tree, todo,
                   stopHistory, blind>>

\* A health endpoint that does not speak HTTP raises what nobody catches:
\* the thread ends and is_busy is never cleared.
ThreadRaises(b) ==
    /\ at[b] \in {"check", "wait"}
    /\ Enter(b, "dead")
    /\ UNCHANGED <<alive, generation, losses, is_busy, clicks, tree, todo,
                   stopHistory, blind>>

LauncherNext ==
    \/ \E p \in alive : SupervisorStartsChild(p) \/ ProcessDies(p)
    \/ \E b \in Buttons :
        \/ Click(b) \/ ClearBusy(b) \/ StopScheduledTasks(b) \/ LocateTree(b)
        \/ Verified(b) \/ Sweep(b) \/ Rescan(b) \/ StopReturns(b)
        \/ CheckStatus(b) \/ Launched(b) \/ StartReturns(b) \/ ThreadRaises(b)
        \/ \E p \in todo[b] : \/ Terminate(b, p)
                              \/ LaunchTask(b, p) \/ SpawnSupervisor(b, p)

LauncherSpec == LauncherInit /\ [][LauncherNext]_launcherVars

-----------------------------------------------------------------------------
LauncherTypeOK ==
    /\ alive \subseteq Process /\ losses \in Nat
    /\ generation \in [Parts -> [Roles -> Nat]]
    /\ is_busy \in BOOLEAN /\ clicks \in Nat
    /\ at \in [Buttons -> Places]
    /\ tree \in [Buttons -> SUBSET Process] /\ todo \in [Buttons -> SUBSET Process]
    /\ refused \subseteq Process /\ ended \subseteq Process
    /\ reborn \subseteq Process /\ doubtful \subseteq Parts
    /\ blind \in BOOLEAN

(***************************************************************************)
(* However the buttons, the deaths and the restarts by the supervisors     *)
(* come, there are never two supervisors of a component, nor two children, *)
(* unless the process table could not be read and was taken for empty, or  *)
(* a start was told that the scheduled task had not started when it had.   *)
(* Then there is a second supervisor, with its own child; never a third,   *)
(* and only until a start finds the component stopped.                     *)
(***************************************************************************)
OneOfEach ==
    ~blind => \A p, q \in alive :
        p.component = q.component /\ p.role = q.role =>
            \/ p = q
            \/ /\ p.component \in doubtful
               /\ p.role = "child" => p.by # q.by
               /\ \A r \in Supervisors(alive) \ {p, q} :
                      p.role = "supervisor" => r.component # p.component

(***************************************************************************)
(* A stop that says it has succeeded leaves no supervisor, and no child    *)
(* but one a supervisor has started since the scan, when the one before it *)
(* had died by itself or the supervisor resisted: ending a component never *)
(* brings it back.                                                         *)
(***************************************************************************)
StopLeavesNothingBehind ==
    \A b \in Buttons : at[b] = "stopped" /\ ~blind =>
        Supervisors(alive) = {} /\ alive \subseteq reborn
=============================================================================
