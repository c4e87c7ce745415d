---------------------------- MODULE StatusCache ----------------------------
(***************************************************************************)
(* The status of the agy command line tool: _agy_cli_status probes it with *)
(* three short processes and remembers what they said for a while.  The    *)
(* callers of harness_status accept what is remembered; a telemetry        *)
(* snapshot has it forgotten first.  Requests run in threads of their own, *)
(* and only single reads and writes of the cache are under a lock.         *)
(*                                                                         *)
(*   idle   between two requests       run    runs the tool                *)
(*   look   looks at the cache         store  has what the tool said       *)
(*   probe  looks for the tool         told   reports it                   *)
(***************************************************************************)
EXTENDS Integers

CONSTANTS
    Snapshotters,   \* threads that take snapshots
    Callers,        \* threads that only ask for the status
    ProbeTtl,       \* AGY_PROBE_CACHE_TTL_SECONDS
    MaxStatusClock  \* bound on the clock

ASSUME StatusTimesAssumption == ProbeTtl \in Nat /\ MaxStatusClock \in Nat

VARIABLES
    statusClock,
    tool,           \* the truth: healthy, blocked or missing
    probeCache,     \* _AGY_PROBE_CACHE: what it says (none if empty), since when
    statusPc,
    toolSeen,       \* per thread: the status it has seen
    mayReport       \* history, per thread: every status true since its
                    \* request began, seen by a probe on its way at that
                    \* moment, or, for a caller, remembered then

statusVars == <<statusClock, tool, probeCache, statusPc, toolSeen, mayReport>>

Askers == Snapshotters \union Callers
ToolStates == {"healthy", "blocked", "missing"}
StatusPcs == {"idle", "look", "probe", "run", "store", "told"}
Forgotten == [says |-> "none", at |-> 0]

StatusInit ==
    /\ statusClock = 0 /\ tool = "healthy" /\ probeCache = Forgotten
    /\ statusPc = [t \in Askers |-> "idle"]
    /\ toolSeen = [t \in Askers |-> "none"]
    /\ mayReport = [t \in Askers |-> {}]

\* What a probe makes of a tool.
LooksLike(s) == IF s = "missing" THEN {"missing", "blocked"} ELSE {s}

\* The tool is installed, breaks, is repaired or removed.
ToolChanges(s) ==
    /\ tool' = s
    /\ mayReport' = [t \in Askers |-> IF statusPc[t] = "idle" THEN {}
                                      ELSE mayReport[t] \union LooksLike(s)]
    /\ UNCHANGED <<statusClock, probeCache, statusPc, toolSeen>>

StatusTick ==
    /\ statusClock < MaxStatusClock
    /\ statusClock' = statusClock + 1
    /\ UNCHANGED <<tool, probeCache, statusPc, toolSeen, mayReport>>

OnItsWay == {toolSeen[u] : u \in {v \in Askers : statusPc[v] = "store"}}

Begin(t, accepted) ==
    /\ statusPc[t] = "idle"
    /\ statusPc' = [statusPc EXCEPT ![t] = "look"]
    /\ mayReport' = [mayReport EXCEPT ![t] =
                        LooksLike(tool) \union OnItsWay \union accepted]
    /\ UNCHANGED <<statusClock, tool, toolSeen>>

\* A common error: the snapshot trusts the cache like every other caller.
BugBeginSnapshot(t) == Begin(t, {}) /\ UNCHANGED probeCache

BeginSnapshot(t) == Begin(t, {}) /\ probeCache' = Forgotten

AskStatus(t) == Begin(t, {probeCache.says}) /\ UNCHANGED probeCache

ReadProbeCache(t) ==
    /\ statusPc[t] = "look"
    /\ IF probeCache.says # "none" /\ statusClock - probeCache.at <= ProbeTtl
       THEN /\ toolSeen' = [toolSeen EXCEPT ![t] = probeCache.says]
            /\ statusPc' = [statusPc EXCEPT ![t] = "told"]
       ELSE /\ statusPc' = [statusPc EXCEPT ![t] = "probe"]
            /\ UNCHANGED toolSeen
    /\ UNCHANGED <<statusClock, tool, probeCache, mayReport>>

\* A common error: a tool that is not installed is remembered like any other.
BugFindTool(t) ==
    /\ statusPc[t] = "probe"
    /\ IF tool = "missing"
       THEN /\ toolSeen' = [toolSeen EXCEPT ![t] = "missing"]
            /\ statusPc' = [statusPc EXCEPT ![t] = "store"]
       ELSE statusPc' = [statusPc EXCEPT ![t] = "run"] /\ UNCHANGED toolSeen
    /\ UNCHANGED <<statusClock, tool, probeCache, mayReport>>

\* A tool that is not installed is reported without being remembered.
FindTool(t) ==
    /\ statusPc[t] = "probe"
    /\ IF tool = "missing"
       THEN /\ toolSeen' = [toolSeen EXCEPT ![t] = "missing"]
            /\ statusPc' = [statusPc EXCEPT ![t] = "told"]
       ELSE statusPc' = [statusPc EXCEPT ![t] = "run"] /\ UNCHANGED toolSeen
    /\ UNCHANGED <<statusClock, tool, probeCache, mayReport>>

\* A tool that is removed meanwhile looks like one that is blocked.
ProbeTool(t) ==
    /\ statusPc[t] = "run"
    /\ toolSeen' = [toolSeen EXCEPT ![t] = IF tool = "healthy" THEN tool
                                                               ELSE "blocked"]
    /\ statusPc' = [statusPc EXCEPT ![t] = "store"]
    /\ UNCHANGED <<statusClock, tool, probeCache, mayReport>>

StoreStatus(t) ==
    /\ statusPc[t] = "store"
    /\ probeCache' = [says |-> toolSeen[t], at |-> statusClock]
    /\ statusPc' = [statusPc EXCEPT ![t] = "told"]
    /\ UNCHANGED <<statusClock, tool, toolSeen, mayReport>>

ReturnStatus(t) ==
    /\ statusPc[t] = "told"
    /\ statusPc' = [statusPc EXCEPT ![t] = "idle"]
    /\ toolSeen' = [toolSeen EXCEPT ![t] = "none"]
    /\ mayReport' = [mayReport EXCEPT ![t] = {}]
    /\ UNCHANGED <<statusClock, tool, probeCache>>

StatusNext ==
    \/ \E s \in ToolStates \ {tool} : ToolChanges(s)
    \/ StatusTick
    \/ \E t \in Snapshotters : BeginSnapshot(t)
    \/ \E t \in Callers : AskStatus(t)
    \/ \E t \in Askers : \/ ReadProbeCache(t) \/ FindTool(t) \/ ProbeTool(t)
                         \/ StoreStatus(t) \/ ReturnStatus(t)

StatusSpec == StatusInit /\ [][StatusNext]_statusVars

-----------------------------------------------------------------------------
StatusTypeOK ==
    /\ statusClock \in Nat /\ tool \in ToolStates
    /\ probeCache \in [says : {"none", "healthy", "blocked"}, at : Nat]
    /\ statusPc \in [Askers -> StatusPcs]
    /\ toolSeen \in [Askers -> ToolStates \union {"none"}]
    /\ mayReport \in [Askers -> SUBSET (ToolStates \union {"none"})]

(***************************************************************************)
(* "A stale failing result from an earlier probe must never leak into      *)
(* telemetry" (HarnessTelemetryProvider.snapshot): the status a snapshot   *)
(* reports was true at some moment since the snapshot began, or was then   *)
(* being brought back by a probe of another thread; never one that was     *)
(* waiting in the cache.  A caller of harness_status accepts that one too. *)
(***************************************************************************)
StatusCurrent ==
    \A t \in Askers : statusPc[t] = "told" => toolSeen[t] \in mayReport[t]
=============================================================================
