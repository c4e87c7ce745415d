----------------------- MODULE RuntimeLifecycleProofs -----------------------
(***************************************************************************)
(* What a runtime that has been killed leaves behind is found again: for   *)
(* every number of runtimes and of mishaps, no component is ever started   *)
(* beside a running one, no manifest and no record leads to a stranger,    *)
(* and a stop leaves nothing running, except what was never put down.      *)
(*                                                                         *)
(* The invariant follows one fact through every crash: all that runs and   *)
(* has not escaped belongs to one instance, which the runtime that is up   *)
(* knows, or the manifest.                                                 *)
(***************************************************************************)
EXTENDS RuntimeLifecycle, TLAPS

\* It serves or stops: its memory is what it acts on.
Up == rtPc \notin {"down", "recover"}
\* What it acts on is its own, not what a killed runtime has left.
Serving == Up /\ task # "acquire"
\* The instance all that runs belongs to.
Current == IF Serving THEN instance ELSE manifest.instance

\* Where the runtime is, and what that says of its memory.
PlaceInv ==
    /\ rtPc # "down" => instance \in Instances
    /\ rtPc = "recover" => task = "acquire"
    /\ rtPc \in {"down", "idle"} => task = "none"
    /\ rtPc \in Starting => task # "acquire" /\ ~stopped
    /\ rtPc = "settle" => spawning \in known
    /\ rtPc = "daemon" => "tunnel" \notin known
    /\ rtPc = "mcp" => known \subseteq {"mcp"}
    /\ rtPc \in {"down", "scan", "kids", "leave"} => known = {}
    /\ rtPc = "leave" => listed = {}
    /\ held \subseteq listed /\ (rtPc # "kids" => held = {})

\* What the manifest says, and when it can be relied upon.
ManifestInv ==
    /\ known \ unsaved \subseteq identified \intersect manifest.components
    /\ ~Serving => unsaved = {}
    /\ manifest.instance = 0 => manifest.components = {}
    /\ Serving => manifest.instance \in {0, instance}
    /\ Up /\ task = "acquire" => recovery = manifest.instance
    /\ rtPc = "recover" => toRecover \subseteq manifest.components
    /\ ~Serving /\ rtPc # "down" => manifest.instance # 0

\* Before a first manifest has been written only an MCP server can be running.
FreshMemory ==
    /\ known \subseteq {"mcp"} /\ spawning \in {"none", "mcp"}
    /\ mcpReady = FALSE
    /\ rtPc \notin {"shake", "daemon?", "tunnel?"}
FreshProcesses == \A p \in Processes : life[p] \in Running => p[1] = "mcp"
FreshInv == manifest.instance = 0 => FreshMemory /\ FreshProcesses

\* A component that runs and is not lost can be found: by the runtime that is
\* up in its memory, by the next one in the manifest.
Found(p) ==
    /\ p[2] = Current
    /\ Up => p[1] \in known
    /\ rtPc = "recover" => p[1] \in known \union toRecover
    /\ rtPc = "down" => p[1] \in manifest.components
ComponentInv ==
    \A p \in Components \X Instances :
        life[p] \in Running /\ p \notin lost => Found(p)

\* A child that runs descends from the current instance, or has escaped.
KidInv ==
    \A k \in Children : life[k] \in Running =>
        k[2] = Current \/ Escaped(k)

\* What the listing has left out has escaped, and so has what outlives the stop.
StopInv ==
    /\ rtPc \in {"kids", "leave"} =>
          \A k \in Children : life[k] \in Running => k \in listed \/ Escaped(k)
    /\ Serving /\ stopped =>
          /\ known = {}
          /\ \A k \in Children : life[k] \in Running => Escaped(k)

\* A runtime takes hold of a process only when it is alive; since then only
\* its own end can have made it anything else.
HandleInv == \A p \in AtHand : life[p] # "alive" => p \in slipped

Inv ==
    /\ RtTypeOK /\ PlaceInv /\ ManifestInv /\ FreshInv
    /\ ComponentInv /\ KidInv /\ StopInv /\ HandleInv

-----------------------------------------------------------------------------
(***************************************************************************)
(* The steps by kind.                                                      *)
(***************************************************************************)
OwnedMoves ==
    \E p \in Processes : Dies(p) \/ OrphansEnd(p) \/ PidReused(p) \/ StrangerEnds(p)
KidsMove == \E k \in Children : KidStarts(k) \/ KidRecorded(k)
Ends == RuntimeDies \/ RecoveryRefused
Recovers == Launch \/ Recovered \/ \E c \in Components : RecoverComponent(c)
Turns ==
    \/ RequestStart \/ Handshake \/ SetupRequired \/ Undo \/ SpawnInterrupted
    \/ \E why \in {"stop", "restart", "exit"} : RequestStop(why)
    \/ \E c \in Components : KeepComponent(c) \/ EndedInVain(c)
Spawns == RecordComponent \/ \E c \in Components : SpawnComponent(c)
Stops ==
    \/ \E c \in Components : StopComponent(c)
    \/ ListRegistry \/ AllStopped \/ \E k \in Children : CheckKid(k) \/ EndKid(k)
StopEnds == StopSaves \/ StopRaises

\* These are all the steps of RtNext.
LEMMA NextKinds ==
  ASSUME RtNext
  PROVE  \/ OwnedMoves \/ KidsMove \/ Ends \/ Recovers
         \/ Turns \/ Spawns \/ Stops \/ StopEnds
  BY Zenon DEF RtNext, OwnedMoves, KidsMove, Ends, Recovers, Turns, Spawns,
               Stops, StopEnds

USE DEF Components, Kids, Up, Serving, Current, Starting, Stopping, Running

-----------------------------------------------------------------------------
(***************************************************************************)
(* What a step does to the processes.                                      *)
(***************************************************************************)

\* A process is a component or a child, and the parent of a child is one.
LEMMA ProcessFacts ==
  /\ \A c \in Components, i \in Instances :
        /\ <<c, i>> \in Processes /\ <<c, i>> \in Components \X Instances
        /\ <<c, i>> \notin Children /\ <<c, i>>[1] = c /\ <<c, i>>[2] = i
  /\ \A p \in Components \X Instances :
        /\ p \in Processes /\ p \notin Children
        /\ p = <<p[1], p[2]>> /\ p[1] \in Components /\ p[2] \in Instances
  /\ \A k \in Children :
        /\ k \in Processes /\ k[1] \in Kids /\ k[2] \in Instances
        /\ Parent(k) \in Processes /\ Parent(k)[2] = k[2]
        /\ <<"cli", k[2]>> \in Children /\ <<"daemon", k[2]>> \in Processes
        /\ Parent(k) = <<"daemon", k[2]>> \/ Parent(k) \in Children
  /\ \A p \in Processes :
        /\ p \in Children \/ p \in Components \X Instances
        /\ p[2] \in Instances
  BY DEF Processes, Children, Parent

LifeOK == life \in [Processes -> {"none", "alive", "orphans", "reused"}]

\* Ending processes does nothing to the others.
LEMMA EndStep ==
  ASSUME RtTypeOK, NEW gone, End(gone)
  PROVE  /\ LifeOK'
         /\ \A p \in Processes : life'[p] = IF p \in gone THEN "none" ELSE life[p]
         /\ tracking' \in SUBSET Children /\ late' \in SUBSET Children
         /\ \A k \in Children : k \in late /\ k \notin gone => k \in late'
  BY DEF End, EndTracking, RtTypeOK, LifeOK

\* What runs ran before, or has just been started.
LEMMA RanBefore ==
  ASSUME Inv, RtNext, NEW p \in Processes, life'[p] \in Running
  PROVE  \/ life[p] \in Running
         \/ p \in Children /\ KidStarts(p)
         \/ p = <<p[1], instance>> /\ p[1] \in Components /\ SpawnComponent(p[1])
<1>1. LifeOK /\ RtTypeOK
  BY DEF Inv, RtTypeOK, LifeOK
<1>2. CASE OwnedMoves
  BY <1>1, <1>2, EndStep
     DEF OwnedMoves, Dies, OrphansEnd, PidReused, StrangerEnds, LifeOK
<1>3. CASE KidsMove
  BY <1>1, <1>3 DEF KidsMove, KidStarts, KidRecorded, LifeOK
<1>4. CASE Spawns
  <2>1. CASE RecordComponent
    BY <2>1 DEF RecordComponent
  <2>2. ASSUME NEW c \in Components, SpawnComponent(c)
        PROVE  life[p] \in Running \/ p = <<c, instance>>
    BY <1>1, <2>2 DEF SpawnComponent, LifeOK
  <2>3. ASSUME NEW c \in Components, p = <<c, instance>>
        PROVE  p[1] = c
    BY <2>3
  <2> QED
    BY <1>4, <2>1, <2>2, <2>3, Zenon DEF Spawns
<1>5. CASE Turns
  BY <1>1, <1>5, EndStep
     DEF Turns, RequestStart, Handshake, SetupRequired, Undo, SpawnInterrupted,
         RequestStop, KeepComponent, EndedInVain, rtOwned, rtWorld
<1>6. CASE Stops
  <2>1. ASSUME NEW c \in Components, StopComponent(c)
        PROVE  life[p] \in Running
    BY <1>1, <2>1, EndStep DEF StopComponent
  <2>2. ASSUME NEW k \in Children, EndKid(k)
        PROVE  life[p] \in Running
    BY <1>1, <2>2, EndStep DEF EndKid
  <2>3. CASE ListRegistry \/ AllStopped \/ \E k \in Children : CheckKid(k)
    BY <2>3 DEF ListRegistry, AllStopped, CheckKid, rtOwned, rtWorld
  <2> QED
    BY <1>6, <2>1, <2>2, <2>3 DEF Stops
<1>7. CASE Ends \/ Recovers \/ StopEnds
  BY <1>7 DEF Ends, RuntimeDies, RecoveryRefused, Recovers, Launch, Recovered,
              RecoverComponent, StopEnds, StopSaves, StopRaises, Leaves, rtOwned,
              rtWorld
<1> QED
  BY <1>2, <1>3, <1>4, <1>5, <1>6, <1>7, NextKinds

\* What has escaped stays out of reach as long as it runs.
LEMMA EscapedStays ==
  ASSUME Inv, RtNext
  PROVE  /\ lost \subseteq lost'
         /\ \A k \in Children : k \in late /\ life'[k] \in Running => k \in late'
<1>1. LifeOK /\ RtTypeOK
  BY DEF Inv, RtTypeOK, LifeOK
<1>2. CASE OwnedMoves
  BY <1>1, <1>2, EndStep, ProcessFacts
     DEF OwnedMoves, Dies, OrphansEnd, PidReused, StrangerEnds, RuntimeUnchanged,
         LifeOK
<1>3. CASE KidsMove
  BY <1>3 DEF KidsMove, KidStarts, KidRecorded, RuntimeUnchanged
<1>4. CASE Spawns
  BY <1>4 DEF Spawns, RecordComponent, SpawnComponent, rtHistory
<1>5. CASE Turns
  BY <1>1, <1>5, EndStep, ProcessFacts
     DEF Turns, RequestStart, Handshake, SetupRequired, Undo, SpawnInterrupted,
         RequestStop, KeepComponent, EndedInVain, rtOwned, rtWorld, rtHistory
<1>6. CASE Stops
  <2>1. ASSUME NEW c \in Components, StopComponent(c), NEW k \in Children, k \in late,
               life'[k] \in Running
        PROVE  k \in late' /\ lost' = lost
    BY <1>1, <2>1, EndStep, ProcessFacts DEF StopComponent
  <2>2. ASSUME NEW d \in Children, EndKid(d), NEW k \in Children, k \in late,
               life'[k] \in Running
        PROVE  k \in late' /\ lost' = lost
    BY <1>1, <2>2, EndStep, ProcessFacts DEF EndKid
  <2>3. CASE ListRegistry \/ AllStopped \/ \E k \in Children : CheckKid(k)
    BY <2>3 DEF ListRegistry, AllStopped, CheckKid, rtOwned, rtWorld, rtHistory
  <2>4. Stops => lost' = lost
    BY DEF Stops, StopComponent, ListRegistry, AllStopped, CheckKid, EndKid,
           rtOwned, rtWorld
  <2> QED
    BY <1>6, <2>1, <2>2, <2>3, <2>4 DEF Stops
<1>7. CASE Ends \/ Recovers \/ StopEnds
  BY <1>7 DEF Ends, RuntimeDies, RecoveryRefused, Recovers, Launch, Recovered,
              RecoverComponent, StopEnds, StopSaves, StopRaises, Leaves, rtOwned,
              rtWorld, rtHistory
<1> QED
  BY <1>2, <1>3, <1>4, <1>5, <1>6, <1>7, NextKinds
-----------------------------------------------------------------------------
(***************************************************************************)
(* The types.                                                              *)
(***************************************************************************)

\* A runtime that ends or dies (Leaves) keeps the types.
LEMMA LeavesType ==
  ASSUME Inv, Leaves, rtPc # "down", events' \in Nat,
         manifest' \in [instance : 0 .. MaxInstances,
                        components : SUBSET Components]
  PROVE  RtTypeOK'
<1>1. mcpReady' \in BOOLEAN
  BY Zenon DEF Leaves
<1>2. stopped' \in BOOLEAN
  BY Zenon DEF Leaves
<1>3. lost' \in SUBSET (Components \X Instances)
  <2>1. unsaved \subseteq Components /\ instance \in Instances
    BY DEF Inv, RtTypeOK, PlaceInv
  <2> QED
    BY <2>1 DEF Leaves, Inv, RtTypeOK
<1>4. /\ rtPc' \in RtPcs /\ task' \in Tasks
      /\ spawning' \in Components \union {"none"} /\ recovery' \in 0 .. MaxInstances
      /\ toRecover' = {} /\ known' = {} /\ identified' = {} /\ listed' = {}
      /\ held' = {} /\ unsaved' = {} /\ slipped' = {}
  BY RtBoundsAssumption DEF Leaves, RtPcs, Tasks
<1>5. UNCHANGED <<instance, life, tracking, registry, late, doubled, strangerHit>>
  BY DEF Leaves
<1> QED
  BY <1>1, <1>2, <1>3, <1>4, <1>5 DEF Inv, RtTypeOK

\* The save that ends a stop keeps the types, whatever comes next.
LEMMA StopSavesType ==
  ASSUME Inv, StopSaves
  PROVE  RtTypeOK'
<1>1. manifest' \in [instance : 0 .. MaxInstances, components : SUBSET Components]
  BY DEF Inv, RtTypeOK, StopSaves
<1>2. CASE task = "exit"
  BY <1>1, <1>2, LeavesType DEF Inv, RtTypeOK, StopSaves
<1>3. CASE task # "exit"
  <2>1. stopped' \in BOOLEAN
    BY <1>3, Zenon DEF StopSaves
  <2>2. UNCHANGED <<instance, recovery, toRecover, known, identified,
                    mcpReady, listed, held, unsaved, life, tracking, registry,
                    events, lost, late, slipped, doubled, strangerHit>>
    BY <1>3, Zenon DEF StopSaves, rtHistory
  <2>3. Goto("start", "start") \/ Goto("idle", "none")
    BY <1>3, Zenon DEF StopSaves
  <2> QED
    BY <1>1, <2>1, <2>2, <2>3 DEF Inv, RtTypeOK, Goto, RtPcs, Tasks
<1> QED
  BY <1>2, <1>3

\* So does a stop that raises.
LEMMA StopRaisesType ==
  ASSUME Inv, StopRaises
  PROVE  RtTypeOK'
<1>1. events' \in Nat /\ rtPc # "down"
  BY DEF Inv, RtTypeOK, StopRaises, Event
<1>2. CASE task \in {"acquire", "exit"}
  BY <1>1, <1>2, LeavesType DEF Inv, RtTypeOK, StopRaises
<1>3. CASE task \notin {"acquire", "exit"}
  <2>1. /\ Goto("idle", "none") /\ listed' = {} /\ held' = {}
        /\ slipped' = slipped \ held
    BY <1>3, Zenon DEF StopRaises
  <2>2. UNCHANGED <<instance, recovery, toRecover, known, identified,
                    mcpReady, stopped, unsaved, rtOwned, late, doubled,
                    strangerHit>>
    BY <1>3, Zenon DEF StopRaises
  <2> QED
    BY <1>1, <2>1, <2>2 DEF Inv, RtTypeOK, Goto, RtPcs, Tasks, rtOwned
<1> QED
  BY <1>2, <1>3

\* Every step keeps the types.
LEMMA TypeStep ==
  ASSUME Inv, RtNext
  PROVE  RtTypeOK'
<1> USE DEF RtPcs, Tasks
<1>a. RtTypeOK
  BY DEF Inv
<1>1. CASE OwnedMoves
  <2>1. ASSUME NEW p \in Processes, Dies(p)
        PROVE  RtTypeOK'
    BY <1>a, <2>1 DEF RtTypeOK, Dies, Event, RuntimeUnchanged, rtMemory, EndTracking
  <2>2. ASSUME NEW p \in Processes, OrphansEnd(p)
        PROVE  RtTypeOK'
    BY <1>a, <2>2, EndStep DEF RtTypeOK, LifeOK, OrphansEnd, RuntimeUnchanged, rtMemory
  <2>3. ASSUME NEW p \in Processes, PidReused(p) \/ StrangerEnds(p)
        PROVE  RtTypeOK'
    <3>1. LifeOK' /\ events' \in Nat
      BY <1>a, <2>3 DEF RtTypeOK, LifeOK, PidReused, StrangerEnds, Event
    <3>2. UNCHANGED <<tracking, registry, late, slipped>> /\ RuntimeUnchanged
      BY <2>3, Zenon DEF PidReused, StrangerEnds
    <3> QED
      BY <1>a, <3>1, <3>2 DEF RtTypeOK, LifeOK, RuntimeUnchanged, rtMemory
  <2> QED
    BY <1>1, <2>1, <2>2, <2>3 DEF OwnedMoves
<1>2. CASE KidsMove
  <2>1. ASSUME NEW k \in Children, KidStarts(k)
        PROVE  RtTypeOK'
    <3>1. LifeOK'
      <4>1. LifeOK /\ life' = [life EXCEPT ![k] = "alive"]
        BY <1>a, <2>1 DEF RtTypeOK, LifeOK, KidStarts
      <4> QED
        BY <4>1 DEF LifeOK
    <3>2. tracking' \in SUBSET Children /\ events' \in Nat
      BY <1>a, <2>1 DEF RtTypeOK, KidStarts, Event
    <3>3. late' = late \/ late' = late \union {k}
      BY <2>1, Zenon DEF KidStarts
    <3>4. late' \in SUBSET Children
      BY <1>a, <3>3 DEF RtTypeOK
    <3> QED
      BY <1>a, <2>1, <3>1, <3>2, <3>4
         DEF RtTypeOK, LifeOK, KidStarts, RuntimeUnchanged, rtMemory
  <2>2. ASSUME NEW k \in Children, KidRecorded(k)
        PROVE  RtTypeOK'
    BY <1>a, <2>2 DEF RtTypeOK, KidRecorded, RuntimeUnchanged, rtMemory
  <2> QED
    BY <1>2, <2>1, <2>2 DEF KidsMove
<1>3. CASE Ends
  BY <1>a, <1>3, LeavesType DEF RtTypeOK, Ends, RuntimeDies, RecoveryRefused
<1>4. CASE Recovers
  <2>1. ASSUME Launch
        PROVE  RtTypeOK'
    <3>1. instance' \in 0 .. MaxInstances
      BY <1>a, <2>1, RtBoundsAssumption DEF RtTypeOK, Launch
    <3>2. rtPc' \in RtPcs /\ task' \in Tasks
      BY <1>a, <2>1 DEF RtTypeOK, Launch
    <3>3. /\ UNCHANGED rtWorld /\ UNCHANGED rtHistory
          /\ UNCHANGED <<spawning, recovery, known, identified, mcpReady, stopped,
                         listed, held, unsaved>>
      BY <2>1, Zenon DEF Launch
    <3>4. toRecover' \in SUBSET Components
      BY <1>a, <2>1 DEF RtTypeOK, Launch
    <3> QED
      BY <1>a, <3>1, <3>2, <3>3, <3>4 DEF RtTypeOK, rtWorld, rtOwned, rtHistory
  <2>2. ASSUME Recovered
        PROVE  RtTypeOK'
    BY <1>a, <2>2 DEF RtTypeOK, Recovered, rtWorld, rtOwned, rtHistory
  <2>3. ASSUME NEW c \in Components, RecoverComponent(c)
        PROVE  RtTypeOK'
    <3>1. /\ toRecover' \in SUBSET Components /\ known' \in SUBSET Components
          /\ identified' = known'
      BY <1>a, <2>3 DEF RtTypeOK, RecoverComponent
    <3>2. /\ UNCHANGED rtWorld /\ UNCHANGED rtHistory
          /\ UNCHANGED <<rtPc, task, spawning, instance, recovery, mcpReady,
                         stopped, listed, held, unsaved>>
      BY <2>3, Zenon DEF RecoverComponent
    <3> QED
      BY <1>a, <3>1, <3>2 DEF RtTypeOK, rtWorld, rtOwned, rtHistory
  <2> QED
    BY <1>4, <2>1, <2>2, <2>3 DEF Recovers
<1>5. CASE Turns
  <2>1. ASSUME RequestStart
        PROVE  RtTypeOK'
    <3>1. stopped' \in BOOLEAN
      BY <2>1, Zenon DEF RequestStart
    <3> QED
      BY <1>a, <2>1, <3>1 DEF RtTypeOK, RequestStart, Goto, rtWorld, rtOwned,
                              rtHistory
  <2>2. ASSUME Handshake
        PROVE  RtTypeOK'
    <3>1. mcpReady' \in BOOLEAN
      BY <2>2, Zenon DEF Handshake
    <3> QED
      BY <1>a, <2>2, <3>1 DEF RtTypeOK, Handshake, Then, Goto, rtWorld, rtOwned,
                              rtHistory
  <2>3. ASSUME SetupRequired
        PROVE  RtTypeOK'
    BY <1>a, <2>3 DEF RtTypeOK, SetupRequired, Then, Goto, rtMemory, rtWorld,
                      rtOwned, rtHistory
  <2>4. ASSUME Undo
        PROVE  RtTypeOK'
    <3>1. identified' \in SUBSET Components
      BY <1>a, <2>4 DEF Inv, RtTypeOK, PlaceInv, Undo
    <3>2. events' \in Nat
      BY <1>a, <2>4 DEF RtTypeOK, Undo, Event
    <3> QED
      BY <1>a, <2>4, <3>1, <3>2 DEF RtTypeOK, Undo, Goto, rtOwned, rtHistory
  <2>5. ASSUME SpawnInterrupted
        PROVE  RtTypeOK'
    <3>1. <<spawning, instance>> \in Components \X Instances
      BY <1>a, <2>5 DEF Inv, RtTypeOK, PlaceInv, SpawnInterrupted
    <3> QED
      BY <1>a, <2>5, <3>1 DEF RtTypeOK, SpawnInterrupted, Event, Goto, rtHistory
  <2>6. ASSUME NEW why \in {"stop", "restart", "exit"}, RequestStop(why)
        PROVE  RtTypeOK'
    BY <1>a, <2>6 DEF RtTypeOK, RequestStop, Goto, rtWorld, rtOwned
  <2>7. ASSUME NEW c \in Components, KeepComponent(c)
        PROVE  RtTypeOK'
    BY <1>a, <2>7 DEF RtTypeOK, KeepComponent, Then, Goto, NextPlace, rtMemory,
                      rtWorld, rtOwned, rtHistory
  <2>8. ASSUME NEW c \in Components, EndedInVain(c)
        PROVE  RtTypeOK'
    <3>1. Handle(c) \in Processes
      BY <1>a, <2>8, ProcessFacts
         DEF Inv, PlaceInv, EndedInVain, Handle, Place
    <3>2. strangerHit' \in BOOLEAN
      BY <1>a, <2>8, Zenon DEF RtTypeOK, EndedInVain, Signals
    <3>3. events' \in Nat
      BY <1>a, <2>8 DEF RtTypeOK, EndedInVain, Event
    <3>4. LifeOK' /\ tracking' \in SUBSET Children /\ late' \in SUBSET Children
      BY <1>a, <2>8, EndStep DEF EndedInVain
    <3> QED
      BY <1>a, <2>8, <3>1, <3>2, <3>3, <3>4
         DEF RtTypeOK, LifeOK, EndedInVain, Goto, rtMemory
  <2> QED
    BY <1>5, <2>1, <2>2, <2>3, <2>4, <2>5, <2>6, <2>7, <2>8 DEF Turns
<1>6. CASE Spawns
  <2>1. ASSUME RecordComponent
        PROVE  RtTypeOK'
    BY <1>a, <2>1 DEF Inv, RtTypeOK, PlaceInv, RecordComponent, rtHistory, Goto,
                      Then, NextPlace
  <2>2. ASSUME NEW c \in Components, SpawnComponent(c)
        PROVE  RtTypeOK'
    <3>1. strangerHit' \in BOOLEAN
      BY <1>a, <2>2, Zenon DEF RtTypeOK, SpawnComponent, Signals
    <3>2. <<c, instance>> \in Processes
      BY <1>a, <2>2, ProcessFacts DEF Inv, PlaceInv, SpawnComponent, Place
    <3>3. LifeOK' /\ doubled' \in SUBSET Components /\ tracking' \in SUBSET Children
      BY <1>a, <2>2, <3>2 DEF RtTypeOK, SpawnComponent, EndTracking, LifeOK
    <3> QED
      BY <1>a, <2>2, <3>1, <3>3 DEF RtTypeOK, LifeOK, SpawnComponent
  <2> QED
    BY <1>6, <2>1, <2>2 DEF Spawns
<1>7. CASE Stops
  <2>1. ASSUME NEW c \in Components, StopComponent(c)
        PROVE  RtTypeOK'
    <3>1. strangerHit' \in BOOLEAN
      BY <1>a, <2>1, Zenon DEF RtTypeOK, StopComponent, Signals
    <3>2. LifeOK' /\ tracking' \in SUBSET Children /\ late' \in SUBSET Children
      BY <1>a, <2>1, EndStep DEF RtTypeOK, LifeOK, StopComponent
    <3>3. /\ known' \in SUBSET Components /\ identified' \in SUBSET Components
          /\ unsaved' \in SUBSET Components /\ slipped' \in SUBSET Processes
      BY <1>a, <2>1 DEF RtTypeOK, StopComponent
    <3> QED
      BY <1>a, <2>1, <3>1, <3>2, <3>3
         DEF RtTypeOK, LifeOK, StopComponent, Then, Goto, Following
  <2>2. ASSUME ListRegistry
        PROVE  RtTypeOK'
    <3>1. listed' \in SUBSET Children /\ late' \in SUBSET Children
      BY <1>a, <2>2 DEF RtTypeOK, ListRegistry
    <3> QED
      BY <1>a, <2>2, <3>1 DEF RtTypeOK, ListRegistry, Then, Goto, rtWorld, rtOwned
  <2>3. ASSUME AllStopped
        PROVE  RtTypeOK'
    <3>1. mcpReady' \in BOOLEAN /\ stopped' \in BOOLEAN
      BY <2>3, Zenon DEF AllStopped
    <3> QED
      BY <1>a, <2>3, <3>1 DEF RtTypeOK, AllStopped, Then, Goto, rtWorld, rtOwned,
                              rtHistory
  <2>4. ASSUME NEW k \in Children, CheckKid(k)
        PROVE  RtTypeOK'
    BY <1>a, <2>4 DEF RtTypeOK, CheckKid, rtHistory
  <2>5. ASSUME NEW k \in Children, EndKid(k)
        PROVE  RtTypeOK'
    <3>1. strangerHit' \in BOOLEAN
      BY <1>a, <2>5, Zenon DEF RtTypeOK, EndKid, Signals
    <3>2. LifeOK' /\ tracking' \in SUBSET Children /\ late' \in SUBSET Children
      BY <1>a, <2>5, EndStep DEF EndKid
    <3> QED
      BY <1>a, <2>5, <3>1, <3>2 DEF RtTypeOK, LifeOK, EndKid
  <2> QED
    BY <1>7, <2>1, <2>2, <2>3, <2>4, <2>5 DEF Stops
<1>8. CASE StopEnds
  BY <1>8, StopSavesType, StopRaisesType DEF StopEnds
<1> QED
  BY <1>1, <1>2, <1>3, <1>4, <1>5, <1>6, <1>7, <1>8, NextKinds

\* What the processes do by themselves is nothing to the runtime's memory.
LEMMA QuietMoves ==
  ASSUME OwnedMoves \/ KidsMove
  PROVE  /\ UNCHANGED <<rtPc, task, instance, recovery, toRecover, spawning, known>>
         /\ UNCHANGED <<identified, mcpReady, stopped, listed, held, unsaved>>
         /\ UNCHANGED <<manifest, lost>>
<1>1. RuntimeUnchanged
  BY Zenon DEF OwnedMoves, KidsMove, Dies, OrphansEnd, PidReused, StrangerEnds,
               KidStarts, KidRecorded
<1> QED
  BY <1>1, Zenon DEF RuntimeUnchanged, rtMemory

-----------------------------------------------------------------------------
(***************************************************************************)
(* The runtime's memory and the manifest.                                  *)
(***************************************************************************)

\* Every step keeps PlaceInv.
LEMMA PlaceStep ==
  ASSUME Inv, RtNext
  PROVE  PlaceInv'
<1>a. RtTypeOK /\ PlaceInv
  BY DEF Inv
<1>1. CASE OwnedMoves
  BY <1>a, <1>1, QuietMoves DEF PlaceInv
<1>2. CASE KidsMove
  BY <1>a, <1>2, QuietMoves DEF PlaceInv
<1>3. CASE Ends
  BY <1>a, <1>3 DEF Ends, RtTypeOK, PlaceInv, RuntimeDies, Leaves,
     RecoveryRefused
<1>4. CASE Recovers
  <2>1. ASSUME Launch
        PROVE  PlaceInv'
    <3>1. instance' \in Instances
      BY <1>a, <2>1, RtBoundsAssumption DEF RtTypeOK, Launch, Instances
    <3>2. /\ UNCHANGED <<known, held, listed, stopped, spawning>>
          /\ known = {} /\ held = {} /\ task = "none"
          /\ \/ rtPc' = "idle" /\ task' = task
             \/ rtPc' = "recover" /\ task' = "acquire"
      BY <1>a, <2>1 DEF PlaceInv, Launch
    <3> QED
      BY <1>a, <3>1, <3>2 DEF PlaceInv
  <2>2. CASE Recovered \/ \E c \in Components : RecoverComponent(c)
    BY <1>a, <2>2 DEF RtTypeOK, PlaceInv, Recovered, rtWorld, rtOwned,
       RecoverComponent
  <2> QED
    BY <1>4, <2>1, <2>2 DEF Recovers
<1>5. CASE Turns
  BY <1>a, <1>5 DEF Turns, RtTypeOK, PlaceInv, RequestStart, Goto, rtWorld,
     rtOwned, Handshake, Then, SetupRequired, rtMemory, Undo, SpawnInterrupted,
     RequestStop, KeepComponent, Place, NextPlace, InPlace, EndedInVain
<1>6. CASE Spawns
  BY <1>a, <1>6 DEF Spawns, RtTypeOK, PlaceInv, RecordComponent, Then, Goto,
     NextPlace, SpawnComponent, Place, InPlace
<1>7. CASE Stops
  <2>1. ASSUME NEW c \in Components, StopComponent(c)
        PROVE  PlaceInv'
    <3>1. /\ rtPc = c /\ rtPc' = Following(c) /\ task' = task
          /\ UNCHANGED <<instance, listed, held>>
      BY <2>1, Zenon DEF StopComponent, Then, Goto, Following
    <3>2. known' = known \ {c}
      BY <2>1 DEF StopComponent
    <3>3. known \subseteq Components /\ held = {} /\ instance \in Instances
      BY <1>a, <3>1 DEF RtTypeOK, PlaceInv
    <3> QED
      BY <1>a, <3>1, <3>2, <3>3 DEF PlaceInv, Following
  <2>2. CASE ListRegistry \/ AllStopped \/ (\E k \in Children : CheckKid(k)) \/
            \E k \in Children : EndKid(k)
    BY <1>a, <2>2 DEF RtTypeOK, PlaceInv, ListRegistry, Then, Goto, rtWorld,
       rtOwned, AllStopped, CheckKid, EndKid
  <2> QED
    BY <1>7, <2>1, <2>2 DEF Stops
<1>8. CASE StopEnds
  BY <1>a, <1>8 DEF StopEnds, RtTypeOK, PlaceInv, StopSaves, Leaves, Goto,
     rtHistory, StopRaises, rtOwned
<1> QED
  BY <1>1, <1>2, <1>3, <1>4, <1>5, <1>6, <1>7, <1>8, NextKinds

\* Every step keeps ManifestInv.
LEMMA ManifestStep ==
  ASSUME Inv, RtNext
  PROVE  ManifestInv'
<1>a. RtTypeOK /\ PlaceInv /\ ManifestInv
  BY DEF Inv
<1>1. CASE OwnedMoves
  BY <1>a, <1>1, QuietMoves DEF ManifestInv
<1>2. CASE KidsMove
  BY <1>a, <1>2, QuietMoves DEF ManifestInv
<1>3. CASE Ends
  BY <1>a, <1>3 DEF Ends, RtTypeOK, PlaceInv, ManifestInv, RuntimeDies, Leaves,
     RecoveryRefused
<1>4. CASE Recovers
  <2>1. ASSUME Launch
        PROVE  ManifestInv'
    <3>1. /\ UNCHANGED <<known, unsaved, identified, recovery, manifest>>
          /\ known = {} /\ unsaved = {} /\ toRecover' = manifest.components
          /\ \/ manifest.instance = 0 /\ rtPc' = "idle" /\ task' = "none"
             \/ manifest.instance # 0 /\ rtPc' = "recover" /\ task' = "acquire"
      BY <1>a, <2>1 DEF PlaceInv, ManifestInv, Launch, rtWorld, rtOwned
    <3> QED
      BY <1>a, <3>1 DEF ManifestInv
  <2>2. ASSUME Recovered
        PROVE  ManifestInv'
    BY <1>a, <2>2 DEF RtTypeOK, PlaceInv, ManifestInv, Recovered, rtWorld,
       rtOwned
  <2>3. ASSUME NEW c \in Components, RecoverComponent(c)
        PROVE  ManifestInv'
    <3>1. /\ c \in toRecover /\ toRecover' = toRecover \ {c} /\ identified' = known'
          /\ known' \subseteq known \union {c} /\ rtPc = "recover"
          /\ UNCHANGED <<rtPc, task, instance, recovery, unsaved, manifest>>
      BY <2>3 DEF RecoverComponent, rtWorld, rtOwned
    <3>2. known \subseteq manifest.components /\ unsaved = {}
      BY <1>a, <3>1 DEF PlaceInv, ManifestInv
    <3> QED
      BY <1>a, <3>1, <3>2 DEF PlaceInv, ManifestInv
  <2> QED
    BY <1>4, <2>1, <2>2, <2>3 DEF Recovers
<1>5. CASE Turns
  <2>1. ASSUME RequestStart
        PROVE  ManifestInv'
    BY <1>a, <2>1 DEF RtTypeOK, PlaceInv, ManifestInv, RequestStart, Goto,
       rtWorld, rtOwned
  <2>2. ASSUME Handshake
        PROVE  ManifestInv'
    BY <1>a, <2>2 DEF RtTypeOK, PlaceInv, ManifestInv, Handshake, Then, Goto,
       rtWorld, rtOwned
  <2>3. ASSUME SetupRequired
        PROVE  ManifestInv'
    BY <1>a, <2>3 DEF RtTypeOK, PlaceInv, ManifestInv, SetupRequired, Then,
       Goto, rtMemory, rtWorld, rtOwned
  <2>4. ASSUME Undo
        PROVE  ManifestInv'
    BY <1>a, <2>4 DEF RtTypeOK, PlaceInv, ManifestInv, Undo, Goto, rtOwned
  <2>5. ASSUME SpawnInterrupted
        PROVE  ManifestInv'
    BY <1>a, <2>5 DEF RtTypeOK, PlaceInv, ManifestInv, SpawnInterrupted, Goto
  <2>6. ASSUME NEW why \in {"stop", "restart", "exit"}, RequestStop(why)
        PROVE  ManifestInv'
    BY <1>a, <2>6 DEF RtTypeOK, PlaceInv, ManifestInv, RequestStop, Goto,
       rtWorld, rtOwned
  <2>7. ASSUME NEW c \in Components, KeepComponent(c)
        PROVE  ManifestInv'
    BY <1>a, <2>7 DEF RtTypeOK, PlaceInv, ManifestInv, KeepComponent, Then,
       Goto, Place, NextPlace, InPlace, rtMemory, rtWorld, rtOwned
  <2>8. ASSUME NEW c \in Components, EndedInVain(c)
        PROVE  ManifestInv'
    BY <1>a, <2>8 DEF RtTypeOK, PlaceInv, ManifestInv, EndedInVain, Goto,
       Place, InPlace, rtMemory
  <2> QED
    BY <1>5, <2>1, <2>2, <2>3, <2>4, <2>5, <2>6, <2>7, <2>8 DEF Turns
<1>6. CASE Spawns
  <2>1. ASSUME RecordComponent
        PROVE  ManifestInv'
    <3>1. /\ manifest'.instance = instance /\ manifest'.components = identified'
          /\ identified' = identified \union {spawning}
          /\ unsaved' = unsaved \ identified'
          /\ UNCHANGED <<instance, known>>
      BY <2>1 DEF RecordComponent
    <3>2. known' \ unsaved' \subseteq identified'
      BY <1>a, <3>1 DEF ManifestInv
    <3>3. rtPc \in Starting /\ rtPc' \in Starting \union {"idle"}
      BY <2>1 DEF RecordComponent, Then, Goto, NextPlace
    <3>4. instance # 0 /\ task # "acquire" /\ task' # "acquire"
      BY <1>a, <2>1, <3>3 DEF PlaceInv, Instances, RecordComponent, Then, Goto
    <3> QED
      BY <3>1, <3>2, <3>3, <3>4 DEF ManifestInv
  <2>2. ASSUME NEW c \in Components, SpawnComponent(c)
        PROVE  ManifestInv'
    BY <1>a, <2>2 DEF RtTypeOK, PlaceInv, ManifestInv, SpawnComponent, Place,
       InPlace
  <2> QED
    BY <1>6, <2>1, <2>2 DEF Spawns
<1>7. CASE Stops
  <2>1. ASSUME NEW c \in Components, StopComponent(c)
        PROVE  ManifestInv'
    <3>1. /\ rtPc = c /\ rtPc' = Following(c) /\ task' = task
          /\ UNCHANGED <<instance, recovery, toRecover, manifest>>
      BY <2>1, Zenon DEF StopComponent, Then, Goto, Following
    <3>2. \/ /\ known' = known \ {c} /\ identified' = identified \ {c}
             /\ unsaved' = unsaved \ {c}
          \/ UNCHANGED <<known, identified, unsaved>>
      BY <2>1, Zenon DEF StopComponent
    <3>3. known' \ unsaved' \subseteq identified' \intersect manifest'.components
      BY <1>a, <3>1, <3>2 DEF ManifestInv
    <3> QED
      BY <1>a, <3>1, <3>2, <3>3 DEF ManifestInv, Following
  <2>2. CASE ListRegistry \/ AllStopped \/ (\E k \in Children : CheckKid(k)) \/
            \E k \in Children : EndKid(k)
    BY <1>a, <2>2 DEF RtTypeOK, PlaceInv, ManifestInv, ListRegistry, Then,
       Goto, rtWorld, rtOwned, AllStopped, CheckKid, EndKid
  <2> QED
    BY <1>7, <2>1, <2>2 DEF Stops
<1>8. CASE StopEnds
  <2>1. ASSUME StopSaves
        PROVE  ManifestInv'
    <3>1. instance # 0 /\ known = {}
      BY <1>a, <2>1 DEF PlaceInv, Instances, StopSaves
    <3>2. manifest'.instance = instance
      BY <2>1 DEF StopSaves
    <3>3. CASE task = "exit"
      BY <2>1, <3>1, <3>2, <3>3 DEF StopSaves, Leaves, ManifestInv
    <3>4. CASE task # "exit"
      <4>1. known' = {} /\ instance' = instance
        BY <2>1, <3>1, <3>4 DEF StopSaves
      <4>2. Goto("start", "start") \/ Goto("idle", "none")
        BY <2>1, <3>4, Zenon DEF StopSaves
      <4> QED
        BY <3>1, <3>2, <4>1, <4>2 DEF Goto, ManifestInv
    <3> QED
      BY <3>3, <3>4
  <2>2. ASSUME StopRaises
        PROVE  ManifestInv'
    BY <1>a, <2>2 DEF RtTypeOK, PlaceInv, ManifestInv, StopRaises, Leaves,
       Goto, rtOwned
  <2> QED
    BY <1>8, <2>1, <2>2 DEF StopEnds
<1> QED
  BY <1>1, <1>2, <1>3, <1>4, <1>5, <1>6, <1>7, <1>8, NextKinds

\* The manifest changes when a component is recorded and when a stop is over.
LEMMA ManifestMoves ==
  ASSUME Inv, RtNext
  PROVE  \/ manifest' = manifest
         \/ manifest'.instance = instance /\ instance # 0
            /\ (RecordComponent \/ StopSaves)
<1>1. RecordComponent \/ StopSaves => manifest'.instance = instance /\ instance # 0
  BY DEF Inv, PlaceInv, Instances, RecordComponent, StopSaves
<1>2. CASE OwnedMoves \/ KidsMove \/ Ends \/ Recovers
  BY <1>2 DEF OwnedMoves, Dies, OrphansEnd, PidReused, StrangerEnds, KidsMove,
     KidStarts, KidRecorded, RuntimeUnchanged, Ends, RuntimeDies,
     RecoveryRefused, Recovers, Launch, Recovered, RecoverComponent, rtWorld,
     rtOwned
<1>3. CASE Turns \/ Stops
  BY <1>3 DEF Turns, RequestStart, Handshake, SetupRequired, Undo,
     SpawnInterrupted, RequestStop, KeepComponent, EndedInVain, Stops,
     StopComponent, ListRegistry, AllStopped, CheckKid, EndKid, rtWorld, rtOwned
<1>4. CASE Spawns \/ StopEnds
  BY <1>1, <1>4 DEF Spawns, SpawnComponent, StopEnds, StopRaises, rtOwned
<1> QED
  BY <1>2, <1>3, <1>4, NextKinds

\* Without a manifest the memory of the runtime stays fresh.
LEMMA FreshMemoryStep ==
  ASSUME Inv, RtNext
  PROVE  (manifest.instance = 0 => FreshMemory)'
<1> SUFFICES ASSUME manifest'.instance = 0, manifest.instance = 0
             PROVE  FreshMemory'
  BY ManifestMoves
<1>a. RtTypeOK /\ PlaceInv /\ ManifestInv /\ FreshMemory
  BY DEF Inv, FreshInv
<1>1. CASE OwnedMoves
  BY <1>a, <1>1, QuietMoves DEF FreshMemory
<1>2. CASE KidsMove
  BY <1>a, <1>2, QuietMoves DEF FreshMemory
<1>3. CASE Ends
  BY <1>a, <1>3 DEF Ends, FreshMemory, PlaceInv, RuntimeDies, Leaves,
     RecoveryRefused
<1>4. CASE Recovers
  BY <1>a, <1>4 DEF Recovers, FreshMemory, PlaceInv, Launch, rtWorld, rtOwned,
     Recovered, RecoverComponent, ManifestInv
<1>5. CASE Turns
  BY <1>a, <1>5 DEF Turns, FreshMemory, PlaceInv, RequestStart, Goto, rtWorld,
     rtOwned, Handshake, Then, SetupRequired, rtMemory, Undo, SpawnInterrupted,
     RequestStop, KeepComponent, Place, NextPlace, InPlace, EndedInVain
<1>6. CASE Spawns
  <2>1. ASSUME RecordComponent
        PROVE  FreshMemory'
    BY <1>a, <2>1 DEF RecordComponent, PlaceInv, Instances
  <2>2. ASSUME NEW c \in Components, SpawnComponent(c)
        PROVE  FreshMemory'
    BY <1>a, <2>2 DEF FreshMemory, PlaceInv, SpawnComponent, Place, InPlace
  <2> QED
    BY <1>6, <2>1, <2>2 DEF Spawns
<1>7. CASE Stops
  BY <1>a, <1>7 DEF Stops, FreshMemory, PlaceInv, StopComponent, Then, Goto,
     Following, ListRegistry, rtWorld, rtOwned, AllStopped, CheckKid, EndKid
<1>8. CASE StopEnds
  <2>1. ASSUME StopSaves
        PROVE  FreshMemory'
    BY <1>a, <2>1, ManifestMoves DEF StopSaves, PlaceInv, Instances
  <2>2. ASSUME StopRaises
        PROVE  FreshMemory'
    BY <1>a, <2>2 DEF FreshMemory, PlaceInv, StopRaises, Leaves, Goto, rtOwned
  <2> QED
    BY <1>8, <2>1, <2>2 DEF StopEnds
<1> QED
  BY <1>1, <1>2, <1>3, <1>4, <1>5, <1>6, <1>7, <1>8, NextKinds

\* Without a manifest nothing but an MCP server is started.
LEMMA FreshStep ==
  ASSUME Inv, RtNext
  PROVE  FreshInv'
<1>1. SUFFICES ASSUME manifest'.instance = 0, NEW p \in Processes,
                      life'[p] \in Running
               PROVE  p[1] = "mcp"
  BY FreshMemoryStep DEF FreshInv, FreshProcesses
<1>2. manifest.instance = 0 /\ FreshMemory /\ FreshProcesses
  BY <1>1, ManifestMoves DEF Inv, FreshInv
<1>3. CASE life[p] \in Running
  BY <1>2, <1>3 DEF FreshProcesses
<1>4. CASE p \in Children /\ KidStarts(p)
  <2>1. Parent(p) \in Processes /\ life[Parent(p)] = "alive"
    BY <1>4, ProcessFacts DEF KidStarts
  <2>2. Parent(p)[1] # "mcp"
    BY DEF Parent
  <2> QED
    BY <1>2, <2>1, <2>2 DEF FreshProcesses
<1>5. CASE p[1] \in Components /\ SpawnComponent(p[1])
  BY <1>2, <1>5 DEF FreshMemory, SpawnComponent, Place
<1> QED
  BY <1>1, <1>3, <1>4, <1>5, RanBefore

-----------------------------------------------------------------------------
(***************************************************************************)
(* The processes.                                                          *)
(***************************************************************************)

-----------------------------------------------------------------------------
(***************************************************************************)
(* The processes.                                                          *)
(***************************************************************************)

\* A component that goes on running can still be found: what a runtime forgets
\* has ended, is lost, or is in the manifest.
LEMMA FoundStays ==
  ASSUME Inv, RtNext, NEW p \in Components \X Instances,
         life[p] \in Running, life'[p] \in Running, p \notin lost'
  PROVE  Found(p)'
<1>a. /\ RtTypeOK /\ PlaceInv /\ ManifestInv /\ Found(p)
      /\ p \notin lost /\ p = <<p[1], p[2]>> /\ p[1] \in Components
  BY EscapedStays, ProcessFacts DEF Inv, ComponentInv
<1>1. CASE OwnedMoves
  BY <1>a, <1>1, QuietMoves DEF Found
<1>2. CASE KidsMove
  BY <1>a, <1>2, QuietMoves DEF Found
<1>3. CASE Ends
  BY <1>a, <1>3 DEF Ends, Found, RuntimeDies, Leaves, PlaceInv, ManifestInv,
     RecoveryRefused
<1>4. CASE Recovers
  <2>1. ASSUME Launch
        PROVE  Found(p)'
    <3>1. manifest.instance # 0
      BY <1>a, <2>1, ProcessFacts DEF Found, Launch, Instances
    <3>2. /\ rtPc' = "recover" /\ task' = "acquire" /\ toRecover' = manifest.components
          /\ manifest' = manifest
      BY <2>1, <3>1 DEF Launch, rtWorld, rtOwned
    <3> QED
      BY <1>a, <2>1, <3>2 DEF Found, Launch
  <2>2. CASE Recovered \/ \E c \in Components : RecoverComponent(c)
    BY <1>a, <2>2 DEF Found, PlaceInv, Recovered, rtWorld, rtOwned,
       RecoverComponent
  <2> QED
    BY <1>4, <2>1, <2>2 DEF Recovers
<1>5. CASE Turns
  BY <1>a, <1>5 DEF Turns, Found, PlaceInv, RequestStart, Goto, rtWorld,
     rtOwned, Handshake, Then, SetupRequired, rtMemory, Undo, SpawnInterrupted,
     RequestStop, KeepComponent, Place, NextPlace, InPlace, EndedInVain
<1>6. CASE Spawns
  BY <1>a, <1>6 DEF Spawns, Found, PlaceInv, RecordComponent, Then, Goto,
     NextPlace, SpawnComponent, Place, InPlace
<1>7. CASE Stops
  <2>1. ASSUME NEW c \in Components, StopComponent(c)
        PROVE  Found(p)'
    <3>1. /\ rtPc = c /\ rtPc' = Following(c) /\ task' = task
          /\ UNCHANGED <<instance, toRecover, manifest>>
      BY <2>1, Zenon DEF StopComponent, Then, Goto, Following
    <3>2. p = Handle(p[1])
      BY <1>a, <3>1, Zenon DEF Found, Handle
    <3>3. CASE c \in known
      <4>1. End({Handle(c)}) /\ known' = known \ {c}
        BY <2>1, <3>3 DEF StopComponent
      <4>2. p # Handle(c)
        BY <1>a, <4>1, EndStep, ProcessFacts
      <4> QED
        BY <1>a, <3>1, <3>2, <4>1, <4>2 DEF Found, Following
    <3>4. CASE c \notin known
      BY <1>a, <2>1, <3>1, <3>4 DEF Found, Following, StopComponent
    <3> QED
      BY <3>3, <3>4
  <2>2. CASE ListRegistry \/ AllStopped \/ (\E j \in Children : CheckKid(j)) \/
            \E j \in Children : EndKid(j)
    BY <1>a, <2>2 DEF Found, PlaceInv, ListRegistry, Then, Goto, rtWorld,
       rtOwned, AllStopped, CheckKid, EndKid
  <2> QED
    BY <1>7, <2>1, <2>2 DEF Stops
<1>8. CASE StopEnds
  BY <1>a, <1>8 DEF StopEnds, Found, StopSaves, PlaceInv, StopRaises, Leaves,
     Goto, ManifestInv, rtOwned
<1> QED
  BY <1>1, <1>2, <1>3, <1>4, <1>5, <1>6, <1>7, <1>8, NextKinds

\* Every step keeps ComponentInv: a component that is spawned is known at once.
LEMMA ComponentStep ==
  ASSUME Inv, RtNext
  PROVE  ComponentInv'
<1>1. SUFFICES ASSUME NEW p \in Components \X Instances, life'[p] \in Running,
                      p \notin lost'
               PROVE  Found(p)'
  BY DEF ComponentInv
<1>2. CASE p = <<p[1], instance>> /\ SpawnComponent(p[1])
  <2>1. /\ rtPc \in Starting /\ rtPc' = "settle" /\ task' = task
        /\ instance' = instance /\ p[1] \in known' /\ p[2] = instance
    BY <1>2, ProcessFacts DEF SpawnComponent, Place
  <2> QED
    BY <2>1 DEF Inv, PlaceInv, Found
<1> QED
  BY <1>1, <1>2, RanBefore, FoundStays, ProcessFacts

\* What has escaped stays so.
LEMMA StaysEscaped ==
  ASSUME Inv, RtNext, NEW k \in Children, Escaped(k), life'[k] \in Running
  PROVE  Escaped(k)'
  BY EscapedStays DEF Escaped

\* A child that goes on running and has not escaped is of the current instance
\* still: there is another one only when a stop is over.
LEMMA CurrentStays ==
  ASSUME Inv, RtNext, NEW k \in Children, life[k] \in Running, k[2] = Current,
         ~Escaped(k)
  PROVE  k[2] = Current'
<1>a. /\ RtTypeOK /\ PlaceInv /\ ManifestInv /\ StopInv
      /\ manifest.instance # 0
  BY ProcessFacts DEF Inv, FreshInv, FreshProcesses
<1>1. CASE OwnedMoves
  BY <1>a, <1>1, QuietMoves
<1>2. CASE KidsMove
  BY <1>a, <1>2, QuietMoves
<1>3. CASE Ends
  BY <1>a, <1>3 DEF Ends, PlaceInv, ManifestInv, RuntimeDies, Leaves,
     RecoveryRefused
<1>4. CASE Recovers
  BY <1>a, <1>4 DEF Recovers, PlaceInv, ManifestInv, Launch, rtWorld, rtOwned,
     Recovered, RecoverComponent
<1>5. CASE Turns
  BY <1>a, <1>5 DEF Turns, PlaceInv, ManifestInv, RequestStart, Goto, rtWorld,
     rtOwned, Handshake, Then, SetupRequired, rtMemory, Undo, SpawnInterrupted,
     RequestStop, KeepComponent, Place, NextPlace, InPlace, EndedInVain
<1>6. CASE Spawns
  BY <1>a, <1>6 DEF Spawns, PlaceInv, ManifestInv, RecordComponent, Then, Goto,
     NextPlace, SpawnComponent, Place, InPlace
<1>7. CASE Stops
  BY <1>a, <1>7 DEF Stops, PlaceInv, ManifestInv, StopComponent, Then, Goto,
     Following, ListRegistry, rtWorld, rtOwned, AllStopped, CheckKid, EndKid
<1>8. CASE StopEnds
  BY <1>a, <1>8 DEF StopEnds, StopSaves, PlaceInv, StopInv, StopRaises, Leaves,
     Goto, ManifestInv, rtOwned
<1> QED
  BY <1>1, <1>2, <1>3, <1>4, <1>5, <1>6, <1>7, <1>8, NextKinds

\* Every step keeps KidInv: a child is of the instance of its parent.
LEMMA KidStep ==
  ASSUME Inv, RtNext
  PROVE  KidInv'
<1>1. SUFFICES ASSUME NEW k \in Children, life'[k] \in Running
               PROVE  k[2] = Current' \/ Escaped(k)'
  BY DEF KidInv
<1>2. CASE life[k] \in Running
  BY <1>1, <1>2, StaysEscaped, CurrentStays DEF Inv, KidInv
<1>3. CASE KidStarts(k)
  <2>1. life[Parent(k)] = "alive" /\ UNCHANGED <<rtPc, task, instance, manifest, lost>>
    BY <1>3 DEF KidStarts, RuntimeUnchanged, rtMemory
  <2>2. CASE Parent(k) = <<"daemon", k[2]>>
    <3>1. Parent(k) \in Components \X Instances /\ Parent(k)[2] = k[2]
      BY <2>2, ProcessFacts
    <3> QED
      BY <2>1, <2>2, <3>1 DEF Inv, ComponentInv, Found, Escaped
  <2>3. CASE Parent(k) \in Children
    <3>1. Parent(k) \notin lost /\ Parent(k)[2] = k[2]
      BY <2>3, ProcessFacts DEF Inv, RtTypeOK
    <3>2. Parent(k) \in late => k \in late'
      BY <1>3 DEF KidStarts
    <3> QED
      BY <2>1, <2>3, <3>1, <3>2 DEF Inv, KidInv, Escaped
  <2> QED
    BY <2>2, <2>3, ProcessFacts
<1> QED
  BY <1>1, <1>2, <1>3, RanBefore, ProcessFacts

\* Once the registry has been listed there is no parent left that could start
\* another child unseen.
LEMMA ListedStep ==
  ASSUME Inv, RtNext, rtPc' \in {"kids", "leave"}, NEW k \in Children,
         life'[k] \in Running
  PROVE  k \in listed' \/ Escaped(k)'
<1>1. CASE KidStarts(k)
  <2>1. rtPc \in {"kids", "leave"}
    BY <1>1 DEF KidStarts, RuntimeUnchanged
  <2> QED
    BY <1>1, <2>1 DEF KidStarts, Escaped
<1>2. CASE life[k] \in Running
  <2>1. CASE rtPc \in {"kids", "leave"} /\ k \in listed /\ ~Escaped(k)
    <3>1. CASE UNCHANGED listed
      BY <2>1, <3>1
    <3>2. CASE \E d \in Children : CheckKid(d)
      BY <1>2, <2>1, <3>2 DEF CheckKid
    <3>3. ASSUME NEW d \in Children, EndKid(d)
          PROVE  k \in listed'
      <4>1. life'[d] = "none"
        <5>1. RtTypeOK /\ d \in Processes
          BY ProcessFacts DEF Inv
        <5>2. End({d}) \/ End({d, <<"cli", d[2]>>})
          BY <3>3 DEF EndKid
        <5> QED
          BY <5>1, <5>2, EndStep
      <4> QED
        BY <2>1, <3>3, <4>1 DEF EndKid
    <3>4. CASE OwnedMoves \/ KidsMove
      BY <3>1, <3>4 DEF OwnedMoves, KidsMove, Dies, OrphansEnd, PidReused,
         StrangerEnds, KidStarts, KidRecorded, RuntimeUnchanged, rtMemory
    <3>5. CASE Ends \/ Recovers \/ StopEnds
      BY <2>1, <3>1, <3>5 DEF Ends, RuntimeDies, RecoveryRefused, Recovers,
         Launch, Recovered, RecoverComponent, StopEnds, StopSaves, StopRaises,
         Leaves, Goto
    <3>6. CASE Turns \/ Spawns
      BY <3>1, <3>6 DEF Turns, RequestStart, Handshake, SetupRequired, Undo,
         SpawnInterrupted, RequestStop, KeepComponent, EndedInVain, Spawns,
         RecordComponent, SpawnComponent, rtMemory
    <3>7. CASE Stops
      BY <2>1, <3>1, <3>2, <3>3, <3>7 DEF Stops, StopComponent, ListRegistry,
         AllStopped
    <3> QED
      BY <3>4, <3>5, <3>6, <3>7, NextKinds
  <2>2. CASE ListRegistry
    <3>1. Current \in OwnInstances
      BY <2>2 DEF Inv, PlaceInv, ManifestInv, ListRegistry, OwnInstances, Instances
    <3>2. k[2] = Current \/ Escaped(k)
      BY <1>2 DEF Inv, KidInv
    <3>3. k \in registry /\ k[2] = Current => k \in listed'
      BY <2>2, <3>1 DEF ListRegistry
    <3>4. k \notin registry => k \in late'
      BY <1>2, <2>2 DEF ListRegistry
    <3> QED
      BY <3>2, <3>3, <3>4, StaysEscaped DEF Escaped
  <2>3. CASE rtPc \notin {"kids", "leave"} /\ ~ListRegistry
    <3>1. CASE OwnedMoves \/ KidsMove
      BY <2>3, <3>1 DEF OwnedMoves, KidsMove, Dies, OrphansEnd, PidReused,
         StrangerEnds, KidStarts, KidRecorded, RuntimeUnchanged
    <3>2. CASE Ends \/ Recovers \/ StopEnds
      BY <2>3, <3>2 DEF Ends, RuntimeDies, RecoveryRefused, Recovers,
         Launch, Recovered, RecoverComponent, StopEnds, StopSaves, StopRaises,
         Leaves, Goto
    <3>3. CASE Turns \/ Spawns
      BY <2>3, <3>3 DEF Turns, RequestStart, Handshake, SetupRequired, Undo,
         SpawnInterrupted, RequestStop, KeepComponent, EndedInVain, Spawns,
         RecordComponent, SpawnComponent, Then, Goto, NextPlace
    <3>4. CASE Stops
      BY <2>3, <3>4 DEF Stops, StopComponent, AllStopped, CheckKid, EndKid,
         Then, Goto, Following
    <3> QED
      BY <3>1, <3>2, <3>3, <3>4, NextKinds
  <2>4. CASE Escaped(k)
    BY <1>2, <2>4, StaysEscaped
  <2> QED
    BY <1>2, <2>1, <2>2, <2>3, <2>4 DEF Inv, StopInv
<1> QED
  BY <1>1, <1>2, RanBefore, ProcessFacts

\* A runtime that is stopped has just started on nothing, or was stopped, or has
\* just ended all that it had listed.
LEMMA StoppedMemory ==
  ASSUME Inv, RtNext, Serving', stopped'
  PROVE  /\ known' = {}
         /\ \/ Serving /\ stopped
            \/ manifest.instance = 0
            \/ rtPc \in {"kids", "leave"} /\ listed = {}
<1> DEFINE
      StopsFrom == /\ known' = {}
                   /\ \/ Serving /\ stopped
                      \/ manifest.instance = 0
                      \/ rtPc \in {"kids", "leave"} /\ listed = {}
<1>a. RtTypeOK /\ PlaceInv /\ ManifestInv /\ (Serving /\ stopped => known = {})
  BY DEF Inv, StopInv
<1>1. CASE OwnedMoves
  BY <1>a, <1>1, QuietMoves
<1>2. CASE KidsMove
  BY <1>a, <1>2, QuietMoves
<1>3. CASE Ends
  BY <1>a, <1>3 DEF Ends, PlaceInv, ManifestInv, RuntimeDies, Leaves,
     RecoveryRefused
<1>4. CASE Recovers
  BY <1>a, <1>4 DEF Recovers, PlaceInv, ManifestInv, Launch, rtWorld, rtOwned,
     Recovered, RecoverComponent
<1>5. CASE Turns
  BY <1>a, <1>5 DEF Turns, PlaceInv, ManifestInv, RequestStart, Goto, rtWorld,
     rtOwned, Handshake, Then, SetupRequired, rtMemory, Undo, SpawnInterrupted,
     RequestStop, KeepComponent, Place, NextPlace, InPlace, EndedInVain
<1>6. CASE Spawns
  BY <1>a, <1>6 DEF Spawns, PlaceInv, ManifestInv, RecordComponent, Then, Goto,
     NextPlace, SpawnComponent, Place, InPlace
<1>7. CASE Stops
  BY <1>a, <1>7 DEF Stops, PlaceInv, ManifestInv, StopComponent, Then, Goto,
     Following, ListRegistry, rtWorld, rtOwned, AllStopped, CheckKid, EndKid
<1>8. CASE StopEnds
  BY <1>a, <1>8 DEF StopEnds, StopSaves, Leaves, PlaceInv, StopRaises, Goto
<1> QED
  BY <1>1, <1>2, <1>3, <1>4, <1>5, <1>6, <1>7, <1>8, NextKinds

\* Every step keeps StopInv: what outlives a stop could not be seen by it.
LEMMA StopStep ==
  ASSUME Inv, RtNext
  PROVE  StopInv'
<1>1. ASSUME Serving', stopped', NEW k \in Children, life'[k] \in Running
      PROVE  Escaped(k)'
  <2>1. CASE KidStarts(k)
    BY <1>1, <2>1 DEF KidStarts, RuntimeUnchanged, rtMemory, Escaped
  <2>2. CASE life[k] \in Running
    <3>1. Escaped(k)
      <4>1. CASE manifest.instance = 0
        BY <2>2, <4>1, ProcessFacts DEF Inv, FreshInv, FreshProcesses
      <4>2. CASE Serving /\ stopped
        BY <2>2, <4>2 DEF Inv, StopInv
      <4>3. CASE rtPc \in {"kids", "leave"} /\ listed = {}
        BY <2>2, <4>3 DEF Inv, StopInv
      <4> QED
        BY <1>1, <4>1, <4>2, <4>3, StoppedMemory
    <3> QED
      BY <1>1, <3>1, StaysEscaped
  <2> QED
    BY <1>1, <2>1, <2>2, RanBefore, ProcessFacts
<1> QED
  BY <1>1, ListedStep, StoppedMemory DEF StopInv

\* What is at hand are components of the current instance, or a child.
LEMMA AtHandFacts ==
  ASSUME Inv
  PROVE  /\ \A c \in known : Handle(c) = <<c, Current>> /\ Handle(c) \in Processes
                            /\ Handle(c) \notin Children
         /\ held \subseteq Children /\ held \subseteq Processes
<1>1. ASSUME NEW c \in known
      PROVE  /\ Handle(c) = <<c, Current>> /\ Handle(c) \in Processes
             /\ Handle(c) \notin Children
  <2>1. rtPc # "down" /\ c \in Components /\ Current \in Instances
    BY DEF Inv, RtTypeOK, PlaceInv, ManifestInv, Instances
  <2>2. Handle(c) = <<c, Current>>
    BY <2>1 DEF Inv, PlaceInv, Handle
  <2> QED
    BY <2>1, <2>2, ProcessFacts
<1>2. held \subseteq Children
  BY DEF Inv, RtTypeOK
<1> QED
  BY <1>1, <1>2, ProcessFacts

\* As long as the task is the same, or there is none, the handles are.
LEMMA SameHandles ==
  ASSUME Inv, known' \subseteq known, held' \subseteq held,
         \/ known' = {}
         \/ /\ instance' = instance /\ (task' = "acquire" <=> task = "acquire")
            /\ task = "acquire" => manifest'.instance = manifest.instance
  PROVE  /\ AtHand' \subseteq AtHand
         /\ \A p \in AtHand' : p \in held' \/ \E c \in known' : p = Handle(c)
<1>1. \A c \in known' : Handle(c)' = Handle(c)
  BY DEF Handle
<1>2. ASSUME NEW p \in AtHand'
      PROVE  p \in held' \/ \E c \in known' : p = Handle(c)
  BY <1>1, <1>2, Zenon DEF AtHand
<1> QED
  BY <1>2 DEF AtHand

\* What is at hand after a step was so before, or is found alive.
LEMMA TakesHold ==
  ASSUME Inv, RtNext, NEW p \in AtHand', life'[p] # "alive"
  PROVE  /\ p \in AtHand /\ p \in Processes
         /\ p \in held' \/ \E c \in known' : p = Handle(c)
<1>0. /\ RtTypeOK /\ LifeOK /\ PlaceInv
      /\ rtPc \in {"down", "leave"} => known = {} /\ held = {}
      /\ rtPc # "kids" => held = {}
  BY DEF Inv, RtTypeOK, LifeOK, PlaceInv
<1>1. SUFFICES /\ p \in AtHand
               /\ p \in held' \/ \E c \in known' : p = Handle(c)
  BY AtHandFacts DEF AtHand
<1>2. CASE OwnedMoves \/ KidsMove
  BY <1>2, SameHandles DEF OwnedMoves, KidsMove, Dies, OrphansEnd, PidReused,
     StrangerEnds, KidStarts, KidRecorded, RuntimeUnchanged, rtMemory
<1>3. CASE Ends \/ Launch \/ StopEnds
  <2>1. CASE Ends \/ Launch \/ StopSaves
    <3>1. known' = {} /\ held' = {}
      BY <1>0, <2>1 DEF Ends, RuntimeDies, RecoveryRefused, Launch, StopSaves,
                        Leaves
    <3> QED
      BY <3>1, SameHandles
  <2>2. CASE StopRaises
    BY <1>0, <2>2, SameHandles DEF StopRaises, Leaves, Goto, rtOwned
  <2> QED
    BY <1>3, <2>1, <2>2 DEF StopEnds
<1>4. CASE Recovered
  BY <1>4, SameHandles DEF Recovered, rtWorld, rtOwned
<1>5. ASSUME NEW c \in Components, RecoverComponent(c)
      PROVE  /\ p \in AtHand
             /\ p \in held' \/ \E d \in known' : p = Handle(d)
  <2>1. /\ task = "acquire" /\ UNCHANGED <<task, manifest, instance, held, life>>
        /\ \/ known' = known
           \/ /\ life[<<c, manifest.instance>>] = "alive"
              /\ known' = known \union {c}
    <3>1. task = "acquire" /\ UNCHANGED <<task, manifest, instance, held, life>>
      BY <1>0, <1>5 DEF PlaceInv, RecoverComponent, rtWorld, rtOwned
    <3>2. \/ known' = known
          \/ /\ life[<<c, manifest.instance>>] = "alive"
             /\ known' = known \union {c}
      BY <1>5 DEF RecoverComponent, Recoverable
    <3> QED
      BY <3>1, <3>2
  <2>2. Handle(c)' = <<c, manifest.instance>> /\ \A d \in known : Handle(d)' = Handle(d)
    BY <2>1 DEF Handle
  <2> QED
    BY <2>1, <2>2 DEF AtHand
<1>6. CASE Turns
  <2>1. CASE RequestStart \/ Handshake \/ SetupRequired \/ Undo \/ SpawnInterrupted
    BY <1>0, <2>1, SameHandles DEF RequestStart, Handshake, SetupRequired, Undo,
       SpawnInterrupted, PlaceInv, Goto, Then, rtMemory, rtWorld, rtOwned
  <2>2. ASSUME NEW why \in {"stop", "restart", "exit"}, RequestStop(why)
        PROVE  /\ p \in AtHand
               /\ p \in held' \/ \E d \in known' : p = Handle(d)
    BY <1>0, <2>2, SameHandles DEF RequestStop, PlaceInv, Goto, rtWorld, rtOwned
  <2>3. ASSUME NEW c \in Components, KeepComponent(c) \/ EndedInVain(c)
        PROVE  /\ p \in AtHand
               /\ p \in held' \/ \E d \in known' : p = Handle(d)
    BY <1>0, <2>3, SameHandles DEF KeepComponent, EndedInVain, PlaceInv, Goto,
       Then, Place, NextPlace, rtMemory, rtWorld, rtOwned
  <2> QED
    BY <1>6, <2>1, <2>2, <2>3 DEF Turns
<1>7. CASE Spawns
  <2>1. CASE RecordComponent
    <3>1. /\ task # "acquire" /\ task' # "acquire"
          /\ UNCHANGED <<instance, held, known>>
      BY <1>0, <2>1 DEF RecordComponent, PlaceInv, Goto, Then, NextPlace
    <3> QED
      BY <3>1, SameHandles
  <2>2. ASSUME NEW c \in Components, SpawnComponent(c)
        PROVE  /\ p \in AtHand
               /\ p \in held' \/ \E d \in known' : p = Handle(d)
    <3>1. /\ task # "acquire" /\ UNCHANGED <<task, instance, held>>
          /\ life' = [life EXCEPT ![<<c, instance>>] = "alive"]
          /\ known' = known \union {c} /\ <<c, instance>> \in Processes
      BY <1>0, <2>2, ProcessFacts DEF SpawnComponent, PlaceInv, Place
    <3>2. Handle(c)' = <<c, instance>> /\ \A d \in known : Handle(d)' = Handle(d)
      BY <3>1 DEF Handle
    <3>3. life'[<<c, instance>>] = "alive"
      BY <1>0, <3>1 DEF LifeOK
    <3> QED
      BY <3>1, <3>2, <3>3 DEF AtHand
  <2> QED
    BY <1>7, <2>1, <2>2 DEF Spawns
<1>8. CASE Stops
  <2>1. CASE ListRegistry \/ AllStopped
    BY <2>1, SameHandles DEF ListRegistry, AllStopped, Goto, Then, rtWorld, rtOwned
  <2>2. ASSUME NEW c \in Components, StopComponent(c)
        PROVE  /\ p \in AtHand
               /\ p \in held' \/ \E d \in known' : p = Handle(d)
    <3>1. known' \subseteq known
      BY <2>2 DEF StopComponent
    <3>2. UNCHANGED <<task, instance, manifest, held>>
      BY <2>2 DEF StopComponent, Goto, Then, Following
    <3> QED
      BY <3>1, <3>2, SameHandles
  <2>3. ASSUME NEW k \in Children, CheckKid(k)
        PROVE  /\ p \in AtHand
               /\ p \in held' \/ \E d \in known' : p = Handle(d)
    <3>1. /\ UNCHANGED <<task, instance, manifest, known, life>>
          /\ \/ held' = held
             \/ held' = {k} /\ life[k] = "alive"
      BY <2>3, Zenon DEF CheckKid, Recoverable
    <3>2. \A d \in known : Handle(d)' = Handle(d)
      BY <3>1 DEF Handle
    <3> QED
      BY <3>1, <3>2 DEF AtHand
  <2>4. ASSUME NEW k \in Children, EndKid(k)
        PROVE  /\ p \in AtHand
               /\ p \in held' \/ \E d \in known' : p = Handle(d)
    BY <2>4, SameHandles DEF EndKid
  <2> QED
    BY <1>8, <2>1, <2>2, <2>3, <2>4 DEF Stops
<1> QED
  BY <1>2, <1>3, <1>4, <1>5, <1>6, <1>7, <1>8, NextKinds DEF Recovers

\* Every step keeps HandleInv: what ends by itself is put down as slipped.
LEMMA HandleStep ==
  ASSUME Inv, RtNext
  PROVE  HandleInv'
<1> SUFFICES ASSUME NEW p \in AtHand', life'[p] # "alive"
             PROVE  p \in slipped'
  BY DEF HandleInv
<1>1. /\ RtTypeOK /\ LifeOK /\ PlaceInv /\ p \in Processes /\ p \in AtHand
      /\ life[p] # "alive" => p \in slipped
      /\ p \in held' \/ \E c \in known' : p = Handle(c)
  BY TakesHold DEF Inv, RtTypeOK, LifeOK, HandleInv
<1>2. CASE OwnedMoves
  <2>1. ASSUME NEW q \in Processes, Dies(q)
        PROVE  p \in slipped'
    BY <1>1, <2>1 DEF LifeOK, Dies
  <2>2. ASSUME NEW q \in Processes, OrphansEnd(q) \/ PidReused(q) \/ StrangerEnds(q)
        PROVE  p \in slipped'
    BY <1>1, <2>2, EndStep DEF LifeOK, OrphansEnd, PidReused, StrangerEnds
  <2> QED
    BY <1>2, <2>1, <2>2 DEF OwnedMoves
<1>3. CASE KidsMove
  BY <1>1, <1>3 DEF LifeOK, KidsMove, KidStarts, KidRecorded
<1>4. CASE Ends \/ Recovers
  BY <1>1, <1>4 DEF Ends, RuntimeDies, RecoveryRefused, Leaves, Recovers, Launch,
     Recovered, RecoverComponent, rtWorld, rtOwned, rtHistory
<1>5. CASE Turns
  <2>1. CASE RequestStart \/ Handshake \/ SetupRequired \/ Undo \/ SpawnInterrupted
    BY <1>1, <2>1 DEF RequestStart, Handshake, SetupRequired, Undo,
       SpawnInterrupted, rtWorld, rtOwned, rtHistory
  <2>2. ASSUME NEW why \in {"stop", "restart", "exit"}, RequestStop(why)
        PROVE  p \in slipped'
    <3>1. p \notin held
      <4>1. ASSUME NEW c \in known', p = Handle(c)
            PROVE  p \notin held
        BY <2>2, <4>1, AtHandFacts DEF RequestStop
      <4> QED
        BY <1>1, <2>2, <4>1 DEF RequestStop
    <3> QED
      BY <1>1, <2>2, <3>1 DEF RequestStop, rtWorld, rtOwned
  <2>3. ASSUME NEW c \in Components, KeepComponent(c)
        PROVE  p \in slipped'
    BY <1>1, <2>3 DEF KeepComponent, rtWorld, rtOwned, rtHistory
  <2>4. ASSUME NEW c \in Components, EndedInVain(c)
        PROVE  p \in slipped'
    BY <1>1, <2>4, EndStep DEF EndedInVain
  <2> QED
    BY <1>5, <2>1, <2>2, <2>3, <2>4 DEF Turns
<1>6. CASE Spawns
  <2>1. CASE RecordComponent
    BY <1>1, <2>1 DEF RecordComponent, rtHistory
  <2>2. ASSUME NEW c \in Components, SpawnComponent(c)
        PROVE  p \in slipped'
    BY <1>1, <2>2 DEF LifeOK, SpawnComponent
  <2> QED
    BY <1>6, <2>1, <2>2 DEF Spawns
<1>7. CASE Stops
  <2>1. ASSUME NEW c \in Components, StopComponent(c), c \in known
        PROVE  p \in slipped'
    <3>1. p # Handle(c)
      <4>1. known' = known \ {c} /\ held' = held /\ known \subseteq Components
        BY <1>1, <2>1 DEF StopComponent, RtTypeOK
      <4> QED
        BY <1>1, <2>1, <4>1, AtHandFacts, ProcessFacts
    <3>2. End({Handle(c)}) /\ slipped' = slipped \ {Handle(c)}
      BY <2>1 DEF StopComponent
    <3> QED
      BY <1>1, <3>1, <3>2, EndStep
  <2>2. ASSUME NEW c \in Components, StopComponent(c), c \notin known
        PROVE  p \in slipped'
    BY <1>1, <2>2 DEF StopComponent
  <2>3. CASE ListRegistry \/ AllStopped \/ \E k \in Children : CheckKid(k)
    BY <1>1, <2>3 DEF ListRegistry, AllStopped, CheckKid, rtWorld, rtOwned,
                      rtHistory
  <2>4. ASSUME NEW k \in Children, EndKid(k)
        PROVE  p \in slipped'
    <3>1. /\ held' = {} /\ known' = known /\ slipped' = slipped \ {k}
          /\ End({k}) \/ End({k, <<"cli", k[2]>>})
      BY <2>4 DEF EndKid
    <3>2. p \notin Children
      BY <1>1, <3>1, AtHandFacts
    <3>3. life'[p] = life[p] /\ p # k
      BY <1>1, <3>1, <3>2, EndStep, ProcessFacts
    <3> QED
      BY <1>1, <3>1, <3>3
  <2> QED
    BY <1>7, <2>1, <2>2, <2>3, <2>4 DEF Stops
<1>8. CASE StopEnds
  <2>1. CASE StopSaves
    <3>1. known' = {} /\ held' = {}
      BY <1>1, <2>1 DEF Inv, PlaceInv, StopSaves, Leaves
    <3> QED
      BY <1>1, <3>1
  <2>2. CASE StopRaises
    <3>1. CASE task \in {"acquire", "exit"}
      BY <1>1, <2>2, <3>1 DEF StopRaises, Leaves
    <3>2. CASE task \notin {"acquire", "exit"}
      <4>1. /\ held' = {} /\ slipped' = slipped \ held
            /\ UNCHANGED <<known, life>>
        BY <2>2, <3>2 DEF StopRaises, rtOwned
      <4>2. p \notin held
        BY <1>1, <4>1, AtHandFacts
      <4> QED
        BY <1>1, <4>1, <4>2
    <3> QED
      BY <3>1, <3>2
  <2> QED
    BY <1>8, <2>1, <2>2 DEF StopEnds
<1> QED
  BY <1>2, <1>3, <1>4, <1>5, <1>6, <1>7, <1>8, NextKinds

-----------------------------------------------------------------------------
(***************************************************************************)
(* The invariant, and what has happened so far.                            *)
(***************************************************************************)

\* Initially there is no runtime, and nothing that runs.
LEMMA InitInv ==
  ASSUME RtInit
  PROVE  Inv /\ NeverDoubled /\ StrangersSpared
<1>1. RtTypeOK
  <2>1. LifeOK /\ 0 \in 0 .. MaxInstances
    BY RtBoundsAssumption DEF RtInit, LifeOK
  <2>2. manifest \in [instance : 0 .. MaxInstances, components : SUBSET Components]
    BY <2>1 DEF RtInit
  <2>3. mcpReady \in BOOLEAN /\ stopped \in BOOLEAN /\ strangerHit \in BOOLEAN
    BY Zenon DEF RtInit
  <2> QED
    BY <2>1, <2>2, <2>3 DEF RtInit, RtTypeOK, LifeOK, RtPcs, Tasks
<1>2. PlaceInv /\ ManifestInv /\ FreshInv
  BY ProcessFacts
     DEF RtInit, PlaceInv, ManifestInv, FreshInv, FreshMemory, FreshProcesses
<1>3. ComponentInv /\ KidInv /\ StopInv
  BY ProcessFacts DEF RtInit, ComponentInv, KidInv, StopInv
<1>4. HandleInv
  BY DEF RtInit, HandleInv, AtHand
<1>5. NeverDoubled /\ StrangersSpared
  BY DEF RtInit, NeverDoubled, StrangersSpared
<1> QED
  BY <1>1, <1>2, <1>3, <1>4, <1>5 DEF Inv

\* Every step keeps the invariant.
LEMMA NextInv ==
  ASSUME Inv, [RtNext]_rtVars
  PROVE  Inv'
<1>1. CASE RtNext
  BY <1>1, TypeStep, PlaceStep, ManifestStep, FreshStep, ComponentStep,
     KidStep, StopStep, HandleStep, Zenon DEF Inv
<1>2. CASE UNCHANGED rtVars
  <2> USE DEF rtVars, rtMemory, rtWorld, rtOwned, rtHistory
  <2>1. RtTypeOK'
    BY <1>2 DEF Inv, RtTypeOK
  <2>2. PlaceInv' /\ ManifestInv'
    BY <1>2 DEF Inv, PlaceInv, ManifestInv
  <2>3. FreshInv'
    BY <1>2 DEF Inv, FreshInv, FreshMemory, FreshProcesses
  <2>4. ComponentInv'
    BY <1>2 DEF Inv, ComponentInv, Found
  <2>5. KidInv' /\ StopInv'
    BY <1>2 DEF Inv, KidInv, StopInv, Escaped
  <2>6. HandleInv'
    BY <1>2 DEF Inv, HandleInv, AtHand, Handle
  <2> QED
    BY <2>1, <2>2, <2>3, <2>4, <2>5, <2>6, Zenon DEF Inv
<1> QED
  BY <1>1, <1>2

\* What runs of a component that is about to be spawned is known, so it is
\* terminated before its successor starts.
LEMMA SpawnAlone ==
  ASSUME Inv, NEW c \in Components, SpawnComponent(c),
         NEW q \in Processes \ lost, q[1] = c
  PROVE  TreeLeft(q) \notin Running
<1>1. q \in Components \X Instances /\ q = <<q[1], q[2]>>
  BY ProcessFacts
<1>2. CASE life[q] \in Running
  <2>1. rtPc \notin {"down", "recover"} /\ task # "acquire"
    BY DEF SpawnComponent, Place, Inv, PlaceInv
  <2>2. q = Handle(c) /\ c \in known
    BY <1>1, <1>2, <2>1 DEF Inv, ComponentInv, Found, Handle
  <2> QED
    BY <2>2 DEF TreeLeft, AtHand
<1>3. CASE life[q] \notin Running
  BY <1>3 DEF TreeLeft
<1> QED
  BY <1>2, <1>3

\* No component is doubled.
LEMMA DoubledStep ==
  ASSUME Inv, RtNext
  PROVE  doubled' = doubled
<1>1. ASSUME NEW c \in Components, SpawnComponent(c)
      PROVE  doubled' = doubled
  BY <1>1, SpawnAlone DEF SpawnComponent
<1>2. CASE OwnedMoves \/ KidsMove \/ Ends \/ Recovers
  BY <1>2 DEF OwnedMoves, KidsMove, Dies, OrphansEnd, PidReused, StrangerEnds,
     KidStarts, KidRecorded, RuntimeUnchanged, Ends, RuntimeDies,
     RecoveryRefused, Leaves, Recovers, Launch, Recovered, RecoverComponent,
     rtHistory
<1>3. CASE Turns \/ Spawns
  BY <1>1, <1>3 DEF Turns, RequestStart, Handshake, SetupRequired, Undo,
     SpawnInterrupted, RequestStop, KeepComponent, EndedInVain, Spawns,
     RecordComponent, rtHistory
<1>4. CASE Stops \/ StopEnds
  BY <1>4 DEF Stops, StopComponent, ListRegistry, AllStopped, CheckKid, EndKid,
     StopEnds, StopSaves, StopRaises, Leaves, rtHistory
<1> QED
  BY <1>2, <1>3, <1>4, NextKinds

\* What is signalled is at hand; if it has become a stranger's, it has slipped.
LEMMA SparedStep ==
  ASSUME Inv, RtNext, ~strangerHit
  PROVE  ~strangerHit'
<1>1. ASSUME NEW p \in AtHand, Signals(p)
      PROVE  ~strangerHit'
  BY <1>1 DEF Signals, Inv, HandleInv
<1>2. ASSUME strangerHit' = strangerHit
      PROVE  ~strangerHit'
  BY <1>2
<1>3. ASSUME NEW c \in Components, SpawnComponent(c)
      PROVE  ~strangerHit'
  <2>1. CASE c \in known
    <3>1. Handle(c) = <<c, instance>> /\ Handle(c) \in AtHand
      BY <1>3, <2>1 DEF SpawnComponent, Place, Inv, PlaceInv, Handle, AtHand
    <3> QED
      BY <1>1, <1>3, <2>1, <3>1 DEF SpawnComponent
  <2>2. CASE c \notin known
    BY <1>2, <1>3, <2>2 DEF SpawnComponent
  <2> QED
    BY <2>1, <2>2
<1>4. ASSUME NEW c \in Components, EndedInVain(c)
      PROVE  ~strangerHit'
  BY <1>1, <1>4 DEF EndedInVain, AtHand
<1>5. ASSUME NEW c \in Components, StopComponent(c)
      PROVE  ~strangerHit'
  <2>1. CASE c \in known
    BY <1>1, <1>5, <2>1 DEF StopComponent, AtHand
  <2>2. CASE c \notin known
    BY <1>2, <1>5, <2>2 DEF StopComponent
  <2> QED
    BY <2>1, <2>2
<1>6. ASSUME NEW k \in Children, EndKid(k)
      PROVE  ~strangerHit'
  BY <1>1, <1>6 DEF EndKid, AtHand
<1>7. CASE OwnedMoves \/ KidsMove \/ Ends \/ Recovers
  BY <1>2, <1>7 DEF OwnedMoves, KidsMove, Dies, OrphansEnd, PidReused,
     StrangerEnds, KidStarts, KidRecorded, RuntimeUnchanged, Ends, RuntimeDies,
     RecoveryRefused, Leaves, Recovers, Launch, Recovered, RecoverComponent,
     rtHistory
<1>8. CASE Turns \/ Spawns
  BY <1>2, <1>3, <1>4, <1>8 DEF Turns, RequestStart, Handshake, SetupRequired,
     Undo, SpawnInterrupted, RequestStop, KeepComponent, Spawns,
     RecordComponent, rtHistory
<1>9. CASE Stops \/ StopEnds
  BY <1>2, <1>5, <1>6, <1>9 DEF Stops, ListRegistry, AllStopped, CheckKid,
     StopEnds, StopSaves, StopRaises, Leaves, rtHistory
<1> QED
  BY <1>7, <1>8, <1>9, NextKinds

\* What has happened so far stays as it should be.
LEMMA HistoryStep ==
  ASSUME Inv, NeverDoubled, StrangersSpared, [RtNext]_rtVars
  PROVE  NeverDoubled' /\ StrangersSpared'
<1>1. CASE RtNext
  BY <1>1, DoubledStep, SparedStep DEF NeverDoubled, StrangersSpared
<1>2. CASE UNCHANGED rtVars
  BY <1>2 DEF NeverDoubled, StrangersSpared, rtVars, rtHistory
<1> QED
  BY <1>1, <1>2

LEMMA InvHolds == RtSpec => [](Inv /\ NeverDoubled /\ StrangersSpared)
  BY InitInv, NextInv, HistoryStep, PTL DEF RtSpec

-----------------------------------------------------------------------------
\* The types of the runtime's variables hold throughout.
THEOREM RtTypeCorrect == RtSpec => []RtTypeOK
<1>1. Inv => RtTypeOK
  BY DEF Inv
<1> QED
  BY <1>1, InvHolds, PTL

\* No component is started beside a running one (Runtime._spawn after a
\* recovery, a failure or a death), except beside one that was lost.
THEOREM OneOfEachComponent == RtSpec => []NeverDoubled
  BY InvHolds, PTL

\* No start and no stop signals a process that was a stranger's when the runtime
\* took hold of it (process.recover_owned before process.terminate_tree).
THEOREM NoStrangerTakenFor == RtSpec => []StrangersSpared
  BY InvHolds, PTL

\* A runtime that serves and is stopped has left nothing running but what was
\* lost, and the children its listing of the registry could not show
\* (Runtime.stop).
THEOREM StopIsComplete == RtSpec => []NoStrayAfterStop
<1>1. ASSUME Inv
      PROVE  NoStrayAfterStop
  <2> SUFFICES ASSUME rtPc = "idle", stopped,
                      NEW p \in Processes, life[p] \in Running
               PROVE  Escaped(p)
    BY DEF NoStrayAfterStop
  <2>1. Serving /\ known = {}
    BY <1>1 DEF Inv, PlaceInv, StopInv
  <2>2. CASE p \in Components \X Instances
    BY <1>1, <2>1, <2>2 DEF Inv, ComponentInv, Found, Escaped
  <2>3. CASE p \in Children
    BY <1>1, <2>1, <2>3 DEF Inv, StopInv
  <2> QED
    BY <2>2, <2>3, ProcessFacts
<1> QED
  BY <1>1, InvHolds, PTL
=============================================================================
