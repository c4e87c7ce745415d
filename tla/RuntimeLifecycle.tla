-------------------------- MODULE RuntimeLifecycle --------------------------
(***************************************************************************)
(* The runtime behind the macOS app: bridge.serve runs one request at a    *)
(* time on a Runtime, which owns three components (mcp, daemon, tunnel),   *)
(* each the leader of a process group, and remembers them in               *)
(* components.json.  The daemon starts workers and a worker starts a       *)
(* harness, in groups of their own; each is put down in a registry once it *)
(* runs, under the instance of the runtime it descends from.  A new        *)
(* runtime recovers what a killed one has left before it serves.           *)
(*                                                                         *)
(*   down     no runtime            tunnel/daemon/mcp  stop: this one next *)
(*   recover  reads the manifest    scan      stop: lists the registry     *)
(*   idle     serves                kids      stop: ends what it listed    *)
(*   start    start: the MCP server leave     stop: about to save          *)
(*   settle   has spawned, records  shake     start: the handshake         *)
(*   daemon?  start: the daemon     tunnel?   start: the tunnel            *)
(*                                                                         *)
(* A process is named by its kind and by the instance in its environment:  *)
(* the runtime that has started it, or that its daemon descends from.      *)
(***************************************************************************)
EXTENDS Integers

CONSTANTS
    MaxInstances,   \* bound on the runtimes started
    MaxEvents       \* bound on what happens to it: children that start, deaths,
                    \* pids that are reused, exceptions, interruptions

ASSUME RtBoundsAssumption == MaxInstances \in Nat /\ MaxEvents \in Nat

VARIABLES
    rtPc, task,     \* where the runtime is, and what for
    instance,       \* instance_id
    recovery,       \* recovery_instance, 0 for none
    toRecover,      \* components of the manifest not looked at yet
    spawning,       \* the component being started, or none
    known,          \* processes, the dictionary
    identified,     \* identities
    mcpReady, stopped,
    listed,         \* the registered children this stop has listed
    held,           \* the child it has verified and is about to terminate
    unsaved,        \* components whose identity is not on disk yet
    manifest,       \* components.json: its instance (0: no file), components
    life,           \* per process: none, alive, orphans (the leader is gone,
                    \* its group is not) or reused (its pid is a stranger's)
    tracking,       \* children their parent is about to put on record
    registry,       \* children on record
    events,         \* how many so far
    lost,           \* components whose runtime has gone without saving them
    late,           \* history: children the last listing could not show
    slipped,        \* history: those at hand that no stop has ended, but are gone
    doubled,        \* history: components spawned beside a running one
    strangerHit     \* history: signalled what was a stranger's from the outset

rtMemory == <<instance, recovery, toRecover, known, identified, mcpReady,
             stopped, listed, held, unsaved>>
rtOwned == <<manifest, life, tracking, registry, lost>>
rtWorld == <<rtOwned, events>>
rtHistory == <<late, slipped, doubled, strangerHit>>
rtVars == <<rtPc, task, spawning, rtMemory, rtWorld, rtHistory>>

Components == {"mcp", "daemon", "tunnel"}
Kids == {"worker", "cli"}
Instances == 1 .. MaxInstances
Processes == (Components \union Kids) \X Instances
Children == Kids \X Instances
Parent(k) == <<IF k[1] = "worker" THEN "daemon" ELSE "worker", k[2]>>

RtPcs == {"down", "recover", "idle", "start", "settle", "shake", "daemon?",
          "tunnel?", "tunnel", "daemon", "mcp", "scan", "kids", "leave"}
Tasks == {"none", "acquire", "start", "stop", "restart", "undo", "exit"}
Starting == {"start", "settle", "shake", "daemon?", "tunnel?"}
Stopping == {"tunnel", "daemon", "mcp", "scan", "kids", "leave"}
Running == {"alive", "orphans"}

RtInit ==
    /\ rtPc = "down" /\ task = "none" /\ spawning = "none"
    /\ instance = 0 /\ recovery = 0 /\ toRecover = {}
    /\ known = {} /\ identified = {} /\ mcpReady = FALSE /\ stopped = TRUE
    /\ listed = {} /\ held = {} /\ unsaved = {}
    /\ manifest = [instance |-> 0, components |-> {}]
    /\ life = [p \in Processes |-> "none"]
    /\ tracking = {} /\ registry = {} /\ events = 0 /\ lost = {}
    /\ late = {} /\ slipped = {} /\ doubled = {} /\ strangerHit = FALSE

\* What the runtime can signal: a component it recovers belongs to the instance
\* of the manifest, one it has started to its own.
Handle(c) == <<c, IF task = "acquire" THEN manifest.instance ELSE instance>>
AtHand == {Handle(c) : c \in known} \union held

(***************************************************************************)
(* The processes owned, at any moment.                                     *)
(***************************************************************************)
RuntimeUnchanged == UNCHANGED <<rtPc, task, spawning, rtMemory, manifest, lost,
                                doubled, strangerHit>>

\* With its parent gone, a child that is not on record never will be: it goes
\* on, out of anyone's reach.
EndTracking(gone) ==
    tracking' = {k \in tracking : k \notin gone /\ Parent(k) \notin gone}

End(gone) ==
    /\ life' = [p \in Processes |-> IF p \in gone THEN "none" ELSE life[p]]
    /\ EndTracking(gone) /\ late' = late \ gone

\* What happens to the runtime without its doing is bounded.
Event == events < MaxEvents /\ events' = events + 1

Dies(p) ==
    /\ life[p] = "alive" /\ Event
    /\ \E left \in {"none", "orphans"} :
          /\ life' = [life EXCEPT ![p] = left]
          /\ late' = IF left = "none" THEN late \ {p} ELSE late
    /\ EndTracking({p})
    /\ slipped' = IF p \in AtHand THEN slipped \union {p} ELSE slipped
    /\ UNCHANGED registry /\ RuntimeUnchanged

OrphansEnd(p) ==
    /\ life[p] = "orphans"
    /\ End({p})
    /\ UNCHANGED <<registry, events, slipped>> /\ RuntimeUnchanged

\* A pid may go to a stranger once the process is reaped, by whoever has
\* started it or by init.  A runtime reaps when it polls, which it does not do
\* with a component it has just spawned.
Unpolled == IF rtPc = "settle" THEN {spawning}
            ELSE IF rtPc = "shake" THEN {"mcp"} ELSE {}
Reaped(p) == p[2] = instance => p[1] \notin Unpolled

\* Some record or handle still leads to the pid.
Remembered(p) ==
    \/ p \in registry \union AtHand
    \/ p[1] \in manifest.components /\ p[2] = manifest.instance /\ p \notin lost

PidReused(p) ==
    /\ life[p] = "none" /\ Reaped(p) /\ Remembered(p) /\ Event
    /\ life' = [life EXCEPT ![p] = "reused"]
    /\ UNCHANGED <<tracking, registry, late, slipped>> /\ RuntimeUnchanged

StrangerEnds(p) ==
    /\ life[p] = "reused"
    /\ life' = [life EXCEPT ![p] = "none"]
    /\ UNCHANGED <<tracking, registry, events, late, slipped>> /\ RuntimeUnchanged

\* The daemon starts a worker, a worker its harness: one at a time here, and
\* none while the record of its predecessor is there.
KidStarts(k) ==
    /\ life[Parent(k)] = "alive" /\ life[k] = "none" /\ k \notin registry
    /\ Event
    /\ life' = [life EXCEPT ![k] = "alive"]
    /\ tracking' = tracking \union {k}
    /\ late' = IF rtPc \in {"kids", "leave"} \/ stopped \/ Parent(k) \in late
               THEN late \union {k} ELSE late
    /\ UNCHANGED <<registry, slipped>> /\ RuntimeUnchanged

\* track: the record is written once the identity has settled.
KidRecorded(k) ==
    /\ k \in tracking
    /\ tracking' = tracking \ {k} /\ registry' = registry \union {k}
    /\ UNCHANGED <<life, events, late, slipped>> /\ RuntimeUnchanged

(***************************************************************************)
(* The runtime ends, or is killed.  A component it has spawned and not put *)
(* down in the manifest goes on, and no other runtime knows of it.         *)
(***************************************************************************)
Leaves ==
    /\ rtPc' = "down" /\ task' = "none" /\ spawning' = "none"
    /\ recovery' = 0 /\ toRecover' = {} /\ known' = {} /\ identified' = {}
    /\ mcpReady' = FALSE /\ stopped' = TRUE /\ listed' = {} /\ held' = {}
    /\ unsaved' = {} /\ slipped' = {}
    /\ lost' = lost \union {<<c, instance>> : c \in unsaved}
    /\ UNCHANGED <<instance, life, tracking, registry, late, doubled,
                   strangerHit>>

RuntimeDies == rtPc # "down" /\ Leaves /\ UNCHANGED <<manifest, events>>

(***************************************************************************)
(* A runtime starts: Runtime.acquire.  An exception here ends it at once.  *)
(***************************************************************************)
Launch ==
    /\ rtPc = "down" /\ instance < MaxInstances
    /\ instance' = instance + 1
    /\ toRecover' = manifest.components
    /\ IF manifest.instance = 0
       THEN rtPc' = "idle" /\ UNCHANGED task
       ELSE rtPc' = "recover" /\ task' = "acquire"
    /\ UNCHANGED <<spawning, recovery, known, identified, mcpReady, stopped,
                   listed, held, unsaved, rtWorld, rtHistory>>

\* A common error: whatever runs under the pid is taken for the process.
BugRecoverable(p) == life[p] \in {"alive", "reused"}

\* recover_owned accepts a leader that is still the one recorded.  A group
\* without its leader and a pid that is somebody else's are refused.
Recoverable(p) == life[p] = "alive"

\* A lost component is not the one of its name in the manifest, if there is
\* one: that was its predecessor, which has ended.
RecoverComponent(c) ==
    LET p == <<c, manifest.instance>> IN
    /\ rtPc = "recover" /\ c \in toRecover
    /\ toRecover' = toRecover \ {c}
    /\ \/ (p \in lost \/ life[p] = "none") /\ known' = known
       \/ p \notin lost /\ Recoverable(p) /\ known' = known \union {c}
    /\ identified' = known'
    /\ UNCHANGED <<rtPc, task, spawning, instance, recovery, mcpReady, stopped,
                   listed, held, unsaved, rtWorld, rtHistory>>

RecoveryRefused ==
    /\ rtPc = "recover"
    /\ \E c \in toRecover : life[<<c, manifest.instance>>] \in {"orphans", "reused"}
    /\ Leaves /\ UNCHANGED <<manifest, events>>

Recovered ==
    /\ rtPc = "recover" /\ toRecover = {}
    /\ recovery' = manifest.instance
    /\ rtPc' = "tunnel"
    /\ UNCHANGED <<task, spawning, instance, toRecover, known, identified,
                   mcpReady, stopped, listed, held, unsaved, rtWorld, rtHistory>>

(***************************************************************************)
(* Requests.  The end of the input, or SIGTERM in the middle of one, leads *)
(* to the finally clause of bridge.serve, which stops.                     *)
(***************************************************************************)
Goto(pc, why) == rtPc' = pc /\ task' = why /\ spawning' = "none"

RequestStart ==
    /\ rtPc = "idle"
    /\ Goto("start", "start") /\ stopped' = FALSE
    /\ UNCHANGED <<instance, recovery, toRecover, known, identified, mcpReady,
                   listed, held, unsaved, rtWorld, rtHistory>>

RequestStop(why) ==
    /\ \/ rtPc = "idle"
       \/ why = "exit" /\ rtPc \in Starting \union Stopping
                       /\ task \notin {"acquire", "exit"}
    /\ Goto("tunnel", why)
    /\ held' = {} /\ slipped' = slipped \ held
    /\ UNCHANGED <<instance, recovery, toRecover, known, identified, mcpReady,
                   stopped, listed, unsaved, rtWorld, late, doubled, strangerHit>>

\* The signal comes when the process is there and its handle is not yet.
SpawnInterrupted ==
    /\ rtPc = "settle" /\ Event
    /\ Goto("tunnel", "exit")
    /\ known' = known \ {spawning} /\ unsaved' = unsaved \ {spawning}
    /\ lost' = lost \union {<<spawning, instance>>}
    /\ UNCHANGED <<instance, recovery, toRecover, identified, mcpReady, stopped,
                   listed, held, manifest, life, tracking, registry,
                   rtHistory>>

(***************************************************************************)
(* Runtime.start.  A component that runs already is kept, the MCP server   *)
(* only if it has shaken hands.                                            *)
(***************************************************************************)
Place(c) == IF c = "mcp" THEN "start" ELSE IF c = "daemon" THEN "daemon?"
                                                         ELSE "tunnel?"
Then(pc) == Goto(pc, IF pc = "idle" THEN "none" ELSE task)
NextPlace(c) == IF c = "mcp" THEN "daemon?" ELSE IF c = "daemon" THEN "tunnel?"
                                                            ELSE "idle"
InPlace(c) == c \in known /\ life[Handle(c)] = "alive" /\ (c = "mcp" => mcpReady)

KeepComponent(c) ==
    /\ rtPc = Place(c) /\ InPlace(c)
    /\ Then(NextPlace(c))
    /\ UNCHANGED <<rtMemory, rtWorld, rtHistory>>

\* terminate_tree does not look at the identity again.  What it signals may
\* since have become a stranger; that it was one from the outset is worse.
Signals(p) ==
    strangerHit' = (strangerHit \/ (life[p] = "reused" /\ p \notin slipped))

\* A common error: what is left of the old component is left alone.
BugTreeLeft(p) == life[p]

\* The old component, or what is left of its group, is terminated first.
TreeLeft(p) == IF p \in AtHand THEN "none" ELSE life[p]

SpawnComponent(c) ==
    LET p == <<c, instance>> IN
    /\ rtPc = Place(c) /\ ~InPlace(c)
    /\ IF c \in known THEN Signals(p) ELSE UNCHANGED strangerHit
    /\ doubled' = IF \E q \in Processes \ lost : q[1] = c /\ TreeLeft(q) \in Running
                  THEN doubled \union {c} ELSE doubled
    /\ life' = [life EXCEPT ![p] = "alive"] /\ EndTracking({p})
    /\ known' = known \union {c} /\ unsaved' = unsaved \union {c}
    /\ identified' = identified \ {c} /\ slipped' = slipped \ {p}
    /\ rtPc' = "settle" /\ spawning' = c
    /\ UNCHANGED <<task, instance, recovery, toRecover, mcpReady, stopped, listed,
                   held, manifest, registry, events, lost, late>>

\* settled_identity also takes a zombie for a process.
RecordComponent ==
    /\ rtPc = "settle"
    /\ identified' = identified \union {spawning}
    /\ unsaved' = unsaved \ identified'
    /\ manifest' = [instance |-> instance, components |-> identified']
    /\ Then(IF spawning = "mcp" THEN "shake" ELSE NextPlace(spawning))
    /\ UNCHANGED <<instance, recovery, toRecover, known, mcpReady, stopped,
                   listed, held, life, tracking, registry, events, lost,
                   rtHistory>>

Handshake ==
    /\ rtPc = "shake" /\ life[Handle("mcp")] = "alive"
    /\ mcpReady' = TRUE
    /\ Then("daemon?")
    /\ UNCHANGED <<instance, recovery, toRecover, known, identified, stopped,
                   listed, held, unsaved, rtWorld, rtHistory>>

\* Without a complete connection there is no tunnel, only a warning.
SetupRequired ==
    /\ rtPc = "tunnel?"
    /\ Then("idle")
    /\ UNCHANGED <<rtMemory, rtWorld, rtHistory>>

\* Any exception of start undoes it; a manifest that could not be saved is one.
Undo ==
    /\ rtPc \in Starting /\ Event
    /\ Goto("tunnel", "undo")
    /\ \/ identified' = identified
       \/ rtPc = "settle" /\ identified' = identified \union {spawning}
    /\ UNCHANGED <<instance, recovery, toRecover, known, mcpReady, stopped,
                   listed, held, unsaved, rtOwned, rtHistory>>

\* The old component has been terminated, or the new one, whose identity does
\* not settle; then comes the exception, with the handle still there.
EndedInVain(c) ==
    /\ c \in known /\ Event
    /\ \/ rtPc = Place(c) /\ ~InPlace(c)
       \/ rtPc = "settle" /\ spawning = c
    /\ Goto("tunnel", "undo")
    /\ Signals(Handle(c)) /\ End({Handle(c)})
    /\ slipped' = slipped \union {Handle(c)}
    /\ UNCHANGED <<rtMemory, manifest, registry, lost, doubled>>

(***************************************************************************)
(* Runtime.stop.  It asks a recovered component for its identity only if   *)
(* poll says it runs, which poll does not when the identity has changed.   *)
(***************************************************************************)
Following(c) == IF c = "tunnel" THEN "daemon" ELSE IF c = "daemon" THEN "mcp"
                                                                 ELSE "scan"

StopComponent(c) ==
    /\ rtPc = c
    /\ IF c \in known
       THEN /\ Signals(Handle(c)) /\ End({Handle(c)})
            /\ known' = known \ {c} /\ identified' = identified \ {c}
            /\ unsaved' = unsaved \ {c} /\ slipped' = slipped \ {Handle(c)}
       ELSE UNCHANGED <<known, identified, unsaved, life, tracking, late,
                        slipped, strangerHit>>
    /\ Then(Following(c))
    /\ UNCHANGED <<instance, recovery, toRecover, mcpReady, stopped, listed, held,
                   manifest, registry, events, lost, doubled>>

\* A common error: only the children of this very runtime are looked for.
BugOwnInstances == {instance}

OwnInstances == {instance, recovery} \ {0}

ListRegistry ==
    /\ rtPc = "scan"
    /\ listed' = {k \in registry : k[2] \in OwnInstances}
    /\ late' = late \union {k \in Children : life[k] \in Running /\ k \notin registry}
    /\ Then("kids")
    /\ UNCHANGED <<instance, recovery, toRecover, known, identified, mcpReady,
                   stopped, held, unsaved, rtWorld, slipped, doubled, strangerHit>>

CheckKid(k) ==
    /\ rtPc = "kids" /\ held = {} /\ k \in listed
    /\ \/ Recoverable(k) /\ held' = {k} /\ UNCHANGED <<listed, registry>>
       \/ /\ life[k] = "none" /\ UNCHANGED held
          /\ listed' = listed \ {k} /\ registry' = registry \ {k}
    /\ UNCHANGED <<rtPc, task, spawning, instance, recovery, toRecover, known,
                   identified, mcpReady, stopped, unsaved, manifest, life,
                   tracking, events, lost, rtHistory>>

\* A worker that is told to stop may have time to end its own harness.
EndKid(k) ==
    /\ rtPc = "kids" /\ k \in held
    /\ Signals(k)
    /\ \/ End({k})
       \/ /\ life[k] = "alive" /\ k[1] = "worker"
          /\ life[<<"cli", k[2]>>] = "alive" /\ End({k, <<"cli", k[2]>>})
    /\ registry' = registry \ {k} /\ listed' = listed \ {k} /\ held' = {}
    /\ slipped' = slipped \ {k}
    /\ UNCHANGED <<rtPc, task, spawning, instance, recovery, toRecover, known,
                   identified, mcpReady, stopped, unsaved, manifest, events,
                   lost, doubled>>

AllStopped ==
    /\ rtPc = "kids" /\ listed = {}
    /\ mcpReady' = FALSE /\ stopped' = TRUE
    /\ Then("leave")
    /\ UNCHANGED <<instance, recovery, toRecover, known, identified, listed,
                   held, unsaved, rtWorld, rtHistory>>

\* The manifest is saved; then comes the answer, the start of a restart, or
\* the end.
StopSaves ==
    /\ rtPc = "leave"
    /\ manifest' = [instance |-> instance, components |-> identified]
    /\ IF task = "exit" THEN Leaves /\ UNCHANGED events
       ELSE /\ IF task = "restart" THEN Goto("start", "start")
                                   ELSE Goto("idle", "none")
            /\ stopped' = (task \notin {"undo", "restart"})
            /\ UNCHANGED <<instance, recovery, toRecover, known, identified,
                           mcpReady, listed, held, unsaved, life, tracking,
                           registry, events, lost, rtHistory>>

\* An exception of stop: a group that does not exit, one that cannot be
\* verified, a manifest that cannot be saved.  In the recovery and in the last
\* stop it ends the runtime.
StopRaises ==
    /\ rtPc \in Stopping /\ Event
    /\ IF task \in {"acquire", "exit"} THEN Leaves /\ UNCHANGED manifest
       ELSE /\ Goto("idle", "none") /\ listed' = {}
            /\ held' = {} /\ slipped' = slipped \ held
            /\ UNCHANGED <<instance, recovery, toRecover, known, identified,
                           mcpReady, stopped, unsaved, rtOwned, late, doubled,
                           strangerHit>>

RtNext ==
    \/ \E p \in Processes : Dies(p) \/ OrphansEnd(p) \/ PidReused(p) \/ StrangerEnds(p)
    \/ \E k \in Children : \/ KidStarts(k) \/ KidRecorded(k)
                           \/ CheckKid(k) \/ EndKid(k)
    \/ RuntimeDies \/ Launch \/ RecoveryRefused \/ Recovered \/ RequestStart
    \/ SpawnInterrupted
    \/ \E why \in {"stop", "restart", "exit"} : RequestStop(why)
    \/ \E c \in Components : \/ RecoverComponent(c) \/ KeepComponent(c)
                             \/ SpawnComponent(c) \/ EndedInVain(c)
                             \/ StopComponent(c)
    \/ RecordComponent \/ Handshake \/ SetupRequired \/ Undo
    \/ ListRegistry \/ AllStopped \/ StopSaves \/ StopRaises

RtSpec == RtInit /\ [][RtNext]_rtVars

-----------------------------------------------------------------------------
RtTypeOK ==
    /\ rtPc \in RtPcs /\ task \in Tasks
    /\ spawning \in Components \union {"none"}
    /\ instance \in 0 .. MaxInstances /\ recovery \in 0 .. MaxInstances
    /\ toRecover \in SUBSET Components
    /\ known \in SUBSET Components /\ identified \in SUBSET Components
    /\ mcpReady \in BOOLEAN /\ stopped \in BOOLEAN
    /\ listed \in SUBSET Children /\ held \in SUBSET Children
    /\ unsaved \in SUBSET Components
    /\ manifest \in [instance : 0 .. MaxInstances, components : SUBSET Components]
    /\ life \in [Processes -> {"none", "alive", "orphans", "reused"}]
    /\ tracking \in SUBSET Children /\ registry \in SUBSET Children
    /\ events \in Nat /\ lost \in SUBSET (Components \X Instances)
    /\ late \in SUBSET Children /\ slipped \in SUBSET Processes
    /\ doubled \in SUBSET Components /\ strangerHit \in BOOLEAN

(***************************************************************************)
(* A runtime that serves and says it is stopped has left nothing running:  *)
(* no component and, although they live in groups of their own and may     *)
(* come from a runtime that was killed, no worker and no harness.  What    *)
(* can have escaped is a component whose runtime ended before it was in    *)
(* the manifest, with the descendants of such a daemon, and a child that   *)
(* was not on record when the registry was listed: its parent was ended    *)
(* before it could be, or it was started while the stop went on, or a      *)
(* parent that had escaped itself has started it.                          *)
(***************************************************************************)
Escaped(p) == p \in lost \union late \/ <<"daemon", p[2]>> \in lost

NoStrayAfterStop ==
    rtPc = "idle" /\ stopped =>
        \A p \in Processes : life[p] \in Running => Escaped(p)

(***************************************************************************)
(* No component is ever started beside a running one, of whichever runtime *)
(* and in whatever order starts, failures, deaths and recoveries come,     *)
(* except beside one whose runtime ended before it was in the manifest.    *)
(***************************************************************************)
NeverDoubled == doubled = {}

(***************************************************************************)
(* What a start or a stop signals, was its own when it took hold of it: no *)
(* manifest and no record leads it to a pid that is somebody else's by     *)
(* then.  It may become somebody else's while the runtime holds it, if the *)
(* process ends by itself or a start ends it and fails; then the stranger  *)
(* is signalled, for nothing looks at the identity again.                  *)
(***************************************************************************)
StrangersSpared == ~strangerHit
=============================================================================
