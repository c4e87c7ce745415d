-------------------------- MODULE TelemetryProofs ---------------------------
(***************************************************************************)
(* Theorems about StatusCache and QuotaCache, what a telemetry snapshot is *)
(* made of, for any threads and any time to live.                          *)
(***************************************************************************)
EXTENDS StatusCache, QuotaCache, TLAPS

-----------------------------------------------------------------------------
(***************************************************************************)
(* The status of the agy command line tool                                 *)
(***************************************************************************)

\* Everything a request can still come to report is true, or was on its way
\* or accepted when it began: the tool as it is now, what it has seen itself,
\* and, while it has not looked at the cache yet, what is there and what other
\* probes are about to put there.
ReportInv ==
    \A t \in Askers :
        /\ statusPc[t] = "store" => toolSeen[t] \in {"healthy", "blocked"}
        /\ statusPc[t] # "idle" => LooksLike(tool) \subseteq mayReport[t]
        /\ statusPc[t] \in {"store", "told"} => toolSeen[t] \in mayReport[t]
        /\ statusPc[t] = "look" =>
              /\ probeCache.says \in mayReport[t] \union {"none"}
              /\ \A u \in Askers : statusPc[u] = "store" =>
                                       toolSeen[u] \in mayReport[t]

StatusInv == StatusTypeOK /\ ReportInv

LEMMA LooksLikeType ==
  ASSUME NEW s \in ToolStates
  PROVE  /\ LooksLike(s) \subseteq ToolStates
         /\ s \in LooksLike(s) /\ (s # "healthy" => "blocked" \in LooksLike(s))
BY DEF LooksLike, ToolStates

LEMMA StatusInvInit == StatusInit => StatusInv
<1> SUFFICES ASSUME StatusInit PROVE StatusInv
  OBVIOUS
<1>1. probeCache \in [says : {"none", "healthy", "blocked"}, at : Nat]
  BY DEF StatusInit, Forgotten
<1>2. /\ statusClock \in Nat /\ tool \in ToolStates
      /\ statusPc \in [Askers -> StatusPcs]
      /\ toolSeen \in [Askers -> ToolStates \union {"none"}]
      /\ mayReport \in [Askers -> SUBSET (ToolStates \union {"none"})]
  BY DEF StatusInit, ToolStates, StatusPcs
<1>3. ReportInv
  BY DEF StatusInit, ReportInv
<1> QED BY <1>1, <1>2, <1>3 DEF StatusInv, StatusTypeOK

-----------------------------------------------------------------------------
(***************************************************************************)
(* The tool changes, and a request begins                                  *)
(***************************************************************************)

LEMMA ToolChangesStep ==
  ASSUME StatusInv, NEW s \in ToolStates, ToolChanges(s)
  PROVE  StatusInv'
<1>1. /\ tool' = s /\ probeCache' = probeCache /\ statusPc' = statusPc
      /\ toolSeen' = toolSeen /\ statusClock' = statusClock
      /\ mayReport' = [t \in Askers |-> IF statusPc[t] = "idle" THEN {}
                                        ELSE mayReport[t] \union LooksLike(s)]
  BY DEF ToolChanges
<1>2. StatusTypeOK'
  BY <1>1, LooksLikeType DEF StatusInv, StatusTypeOK
<1>3. ASSUME NEW t \in Askers, statusPc[t] # "idle"
      PROVE  mayReport'[t] = mayReport[t] \union LooksLike(s)
  BY <1>1, <1>3
<1>4. ReportInv'
  BY <1>1, <1>3 DEF StatusInv, ReportInv
<1> QED BY <1>2, <1>4 DEF StatusInv

LEMMA BeginStep ==
  ASSUME StatusInv, NEW t \in Askers,
         NEW accepted \in SUBSET (ToolStates \union {"none"}), Begin(t, accepted),
         \/ probeCache' = Forgotten
         \/ probeCache' = probeCache /\ accepted = {probeCache.says}
  PROVE  StatusInv'
<1> DEFINE may == LooksLike(tool) \union OnItsWay \union accepted
<1>1. /\ statusPc[t] = "idle"
      /\ statusPc' = [statusPc EXCEPT ![t] = "look"]
      /\ mayReport' = [mayReport EXCEPT ![t] = may]
      /\ statusClock' = statusClock /\ tool' = tool /\ toolSeen' = toolSeen
  BY DEF Begin
<1>2. /\ statusPc \in [Askers -> StatusPcs]
      /\ toolSeen \in [Askers -> ToolStates \union {"none"}]
      /\ mayReport \in [Askers -> SUBSET (ToolStates \union {"none"})]
      /\ tool \in ToolStates
  BY DEF StatusInv, StatusTypeOK
<1>3. \A u \in Askers : statusPc[u] = "store" => toolSeen[u] \in OnItsWay
  BY DEF OnItsWay
<1>4. may \in SUBSET (ToolStates \union {"none"})
  <2>1. OnItsWay \subseteq ToolStates \union {"none"}
    BY <1>2 DEF OnItsWay
  <2> QED BY <1>2, <2>1, LooksLikeType
<1>5. probeCache' \in [says : {"none", "healthy", "blocked"}, at : Nat]
  BY DEF StatusInv, StatusTypeOK, Forgotten
<1>6. StatusTypeOK'
  BY <1>1, <1>2, <1>4, <1>5 DEF StatusTypeOK, StatusInv, StatusPcs
<1>7. \/ probeCache'.says = "none"
      \/ probeCache' = probeCache /\ probeCache.says \in may
  BY DEF Forgotten
<1>8. ASSUME NEW u \in Askers
      PROVE  /\ u # t => statusPc'[u] = statusPc[u] /\ mayReport'[u] = mayReport[u]
             /\ u = t => statusPc'[u] = "look" /\ mayReport'[u] = may
             /\ statusPc'[u] = "store" => statusPc[u] = "store"
  BY <1>1, <1>2
<1> HIDE DEF may
<1>9. LooksLike(tool) \subseteq may /\ OnItsWay \subseteq may
  BY DEF may
<1>10. ReportInv'
  BY <1>1, <1>3, <1>7, <1>8, <1>9 DEF StatusInv, ReportInv
<1> QED BY <1>6, <1>10 DEF StatusInv

-----------------------------------------------------------------------------
(***************************************************************************)
(* A request goes on                                                       *)
(***************************************************************************)

LEMMA ReadStep ==
  ASSUME StatusInv, NEW t \in Askers, ReadProbeCache(t)
  PROVE  StatusInv'
<1>1. /\ statusPc[t] = "look" /\ mayReport' = mayReport
      /\ statusClock' = statusClock /\ tool' = tool /\ probeCache' = probeCache
  BY DEF ReadProbeCache
<1>2. CASE /\ probeCache.says # "none"
           /\ toolSeen' = [toolSeen EXCEPT ![t] = probeCache.says]
           /\ statusPc' = [statusPc EXCEPT ![t] = "told"]
  <2>1. probeCache.says \in ToolStates /\ probeCache.says \in mayReport[t]
    BY <1>1, <1>2 DEF StatusInv, StatusTypeOK, ReportInv, ToolStates
  <2>2. StatusTypeOK'
    BY <1>1, <1>2, <2>1 DEF StatusInv, StatusTypeOK, StatusPcs
  <2>3. ReportInv'
    BY <1>1, <1>2, <2>1 DEF StatusInv, StatusTypeOK, ReportInv
  <2> QED BY <2>2, <2>3 DEF StatusInv
<1>3. CASE statusPc' = [statusPc EXCEPT ![t] = "probe"] /\ toolSeen' = toolSeen
  <2>1. StatusTypeOK'
    BY <1>1, <1>3 DEF StatusInv, StatusTypeOK, StatusPcs
  <2>2. ReportInv'
    BY <1>1, <1>3 DEF StatusInv, StatusTypeOK, ReportInv
  <2> QED BY <2>1, <2>2 DEF StatusInv
<1> QED BY <1>2, <1>3 DEF ReadProbeCache

LEMMA FindStep ==
  ASSUME StatusInv, NEW t \in Askers, FindTool(t)
  PROVE  StatusInv'
<1>1. /\ statusPc[t] = "probe" /\ mayReport' = mayReport
      /\ statusClock' = statusClock /\ tool' = tool /\ probeCache' = probeCache
  BY DEF FindTool
<1>2. CASE /\ tool = "missing"
           /\ toolSeen' = [toolSeen EXCEPT ![t] = "missing"]
           /\ statusPc' = [statusPc EXCEPT ![t] = "told"]
  <2>1. "missing" \in ToolStates /\ "missing" \in mayReport[t]
    BY <1>1, <1>2, LooksLikeType DEF StatusInv, StatusTypeOK, ReportInv, ToolStates
  <2>2. StatusTypeOK'
    BY <1>1, <1>2, <2>1 DEF StatusInv, StatusTypeOK, StatusPcs
  <2>3. ReportInv'
    BY <1>1, <1>2, <2>1 DEF StatusInv, StatusTypeOK, ReportInv
  <2> QED BY <2>2, <2>3 DEF StatusInv
<1>3. CASE statusPc' = [statusPc EXCEPT ![t] = "run"] /\ toolSeen' = toolSeen
  <2>1. StatusTypeOK'
    BY <1>1, <1>3 DEF StatusInv, StatusTypeOK, StatusPcs
  <2>2. ReportInv'
    BY <1>1, <1>3 DEF StatusInv, StatusTypeOK, ReportInv
  <2> QED BY <2>1, <2>2 DEF StatusInv
<1> QED BY <1>2, <1>3 DEF FindTool

\* What a probe has found is true at that moment, so every request under way
\* may report it.
LEMMA ProbeStep ==
  ASSUME StatusInv, NEW t \in Askers, ProbeTool(t)
  PROVE  StatusInv'
<1> DEFINE found == IF tool = "healthy" THEN tool ELSE "blocked"
<1>1. /\ statusPc[t] = "run" /\ mayReport' = mayReport
      /\ statusClock' = statusClock /\ tool' = tool /\ probeCache' = probeCache
      /\ toolSeen' = [toolSeen EXCEPT ![t] = found]
      /\ statusPc' = [statusPc EXCEPT ![t] = "store"]
  BY DEF ProbeTool
<1>2. found \in {"healthy", "blocked"} /\ found \in LooksLike(tool)
  BY LooksLikeType DEF StatusInv, StatusTypeOK
<1> HIDE DEF found
<1>3. StatusTypeOK'
  BY <1>1, <1>2 DEF StatusInv, StatusTypeOK, StatusPcs, ToolStates
<1>4. ASSUME NEW u \in Askers
      PROVE  /\ u # t => statusPc'[u] = statusPc[u] /\ toolSeen'[u] = toolSeen[u]
             /\ u = t => statusPc'[u] = "store" /\ toolSeen'[u] = found
  BY <1>1 DEF StatusInv, StatusTypeOK
<1>5. ReportInv'
  BY <1>1, <1>2, <1>4 DEF StatusInv, ReportInv
<1> QED BY <1>3, <1>5 DEF StatusInv

LEMMA StoreStep ==
  ASSUME StatusInv, NEW t \in Askers, StoreStatus(t)
  PROVE  StatusInv'
<1>1. /\ statusPc[t] = "store" /\ mayReport' = mayReport
      /\ statusClock' = statusClock /\ tool' = tool /\ toolSeen' = toolSeen
      /\ probeCache' = [says |-> toolSeen[t], at |-> statusClock]
      /\ statusPc' = [statusPc EXCEPT ![t] = "told"]
  BY DEF StoreStatus
<1>2. toolSeen[t] \in {"healthy", "blocked"}
  BY <1>1 DEF StatusInv, ReportInv
<1>3. probeCache' \in [says : {"none", "healthy", "blocked"}, at : Nat]
  BY <1>1, <1>2 DEF StatusInv, StatusTypeOK
<1>4. StatusTypeOK'
  BY <1>1, <1>3 DEF StatusInv, StatusTypeOK, StatusPcs
<1>5. ASSUME NEW u \in Askers
      PROVE  /\ u # t => statusPc'[u] = statusPc[u]
             /\ u = t => statusPc'[u] = "told"
  BY <1>1 DEF StatusInv, StatusTypeOK
<1>6. ReportInv'
  BY <1>1, <1>5 DEF StatusInv, ReportInv
<1> QED BY <1>4, <1>6 DEF StatusInv

LEMMA ReturnStep ==
  ASSUME StatusInv, NEW t \in Askers, ReturnStatus(t)
  PROVE  StatusInv'
<1>1. /\ statusPc[t] = "told"
      /\ statusClock' = statusClock /\ tool' = tool /\ probeCache' = probeCache
      /\ statusPc' = [statusPc EXCEPT ![t] = "idle"]
      /\ toolSeen' = [toolSeen EXCEPT ![t] = "none"]
      /\ mayReport' = [mayReport EXCEPT ![t] = {}]
  BY DEF ReturnStatus
<1>2. StatusTypeOK'
  BY <1>1 DEF StatusInv, StatusTypeOK, StatusPcs
<1>3. ASSUME NEW u \in Askers
      PROVE  /\ u # t => /\ statusPc'[u] = statusPc[u]
                         /\ toolSeen'[u] = toolSeen[u]
                         /\ mayReport'[u] = mayReport[u]
             /\ u = t => statusPc'[u] = "idle"
  BY <1>1 DEF StatusInv, StatusTypeOK
<1>4. ReportInv'
  BY <1>1, <1>3 DEF StatusInv, ReportInv
<1> QED BY <1>2, <1>4 DEF StatusInv

-----------------------------------------------------------------------------
LEMMA StatusInvariant == StatusSpec => []StatusInv
<1>1. ASSUME StatusInv, [StatusNext]_statusVars
      PROVE  StatusInv'
  <2>1. CASE UNCHANGED statusVars
    BY <1>1, <2>1 DEF statusVars, StatusInv, StatusTypeOK, ReportInv
  <2>2. ASSUME NEW s \in ToolStates \ {tool}, ToolChanges(s)
        PROVE  StatusInv'
    BY <1>1, <2>2, ToolChangesStep
  <2>3. CASE StatusTick
    BY <1>1, <2>3 DEF StatusTick, StatusInv, StatusTypeOK, ReportInv
  <2>4. ASSUME NEW t \in Snapshotters, BeginSnapshot(t)
        PROVE  StatusInv'
    BY <1>1, <2>4, BeginStep DEF BeginSnapshot, Askers
  <2>5. ASSUME NEW t \in Callers, AskStatus(t)
        PROVE  StatusInv'
    <3>1. {probeCache.says} \in SUBSET (ToolStates \union {"none"})
      BY <1>1 DEF StatusInv, StatusTypeOK, ToolStates
    <3> QED BY <1>1, <2>5, <3>1, BeginStep DEF AskStatus, Askers
  <2>6. ASSUME NEW t \in Askers,
               \/ ReadProbeCache(t) \/ FindTool(t) \/ ProbeTool(t)
               \/ StoreStatus(t) \/ ReturnStatus(t)
        PROVE  StatusInv'
    BY <1>1, <2>6, ReadStep, FindStep, ProbeStep, StoreStep, ReturnStep
  <2> QED BY <1>1, <2>1, <2>2, <2>3, <2>4, <2>5, <2>6 DEF StatusNext
<1>2. StatusInv /\ [StatusNext]_statusVars => StatusInv'
  BY <1>1
<1> QED BY <1>2, StatusInvInit, PTL DEF StatusSpec

\* A tool that is not installed is never remembered by _agy_cli_status.
THEOREM StatusTypeCorrect == StatusSpec => []StatusTypeOK
<1>1. StatusInv => StatusTypeOK
  BY DEF StatusInv
<1> QED BY <1>1, StatusInvariant, PTL

\* However many snapshots and callers share the cache of _agy_cli_status, and
\* whenever their probes come back, a snapshot reports nothing that was only
\* waiting in the cache when it began.
THEOREM SnapshotsAreCurrent == StatusSpec => []StatusCurrent
<1>1. StatusInv => StatusCurrent
  BY DEF StatusInv, ReportInv, StatusCurrent
<1> QED BY <1>1, StatusInvariant, PTL

-----------------------------------------------------------------------------
(***************************************************************************)
(* The cached quota                                                        *)
(*                                                                         *)
(* While snapshots do not overlap, the one that has asked the source is the*)
(* only one under way: what it has read of the cache is still there when it*)
(* writes its own.                                                         *)
(***************************************************************************)

\* A snapshot has asked the source and has not kept its answer yet.
Answered(t) == quotaPc[t] \in {"previous", "keep"}

\* What is cached is what the last fetch left.
CacheAgrees ==
    /\ quotaCache.at = lastFetch.good
    /\ quotaCache.at # -1 =>
          quotaCache.freshness = (IF lastFetch.up THEN "fresh" ELSE "stale")

QuotaInv ==
    /\ QuotaTypeOK
    /\ ~overlapped =>
        /\ \A t, u \in Viewers :
              quotaPc[t] # "idle" /\ quotaPc[u] # "idle" => t = u
        /\ (\A t \in Viewers : ~Answered(t)) => CacheAgrees
        /\ \A t \in Viewers : Answered(t) =>
              /\ fetched[t] = lastFetch.up
              /\ fetched[t] => lastFetch.good = started[t]
              /\ ~fetched[t] => quotaCache.at = lastFetch.good
              /\ quotaPc[t] = "keep" => previous[t] = quotaCache
-----------------------------------------------------------------------------
LEMMA QuotaInvInit == QuotaInit => QuotaInv
<1> SUFFICES ASSUME QuotaInit PROVE QuotaInv
  OBVIOUS
<1>1. NoQuota \in Quotas
  BY DEF NoQuota, Quotas
<1>2. QuotaTypeOK
  BY <1>1 DEF QuotaInit, QuotaTypeOK, QuotaPcs
<1> QED BY <1>2 DEF QuotaInit, QuotaInv, CacheAgrees, Answered, NoQuota

\* What is kept is a quota; kept over a failure, it keeps its time.
LEMMA KeptQuota ==
  ASSUME QuotaTypeOK, NEW t \in Viewers
  PROVE  /\ QuotaToKeep(t) \in Quotas
         /\ fetched[t] => QuotaToKeep(t) = [freshness |-> "fresh", at |-> started[t]]
         /\ ~fetched[t] => /\ QuotaToKeep(t).at = previous[t].at
                           /\ QuotaToKeep(t).at # -1 =>
                                 QuotaToKeep(t).freshness = "stale"
<1>1. previous[t] \in Quotas /\ started[t] \in Nat
  BY DEF QuotaTypeOK
<1>2. CASE fetched[t]
  BY <1>1, <1>2 DEF QuotaToKeep, Quotas
<1>3. CASE ~fetched[t]
  BY <1>1, <1>3 DEF QuotaToKeep, Quotas, NoQuota, Unavailable
<1> QED BY <1>2, <1>3

LEMMA TickStep ==
  ASSUME QuotaInv, QuotaTick
  PROVE  QuotaInv'
BY DEF QuotaTick, QuotaInv, QuotaTypeOK, CacheAgrees, Answered

LEMMA TakeSnapshotStep ==
  ASSUME QuotaInv, NEW t \in Viewers, NEW forced \in BOOLEAN, TakeSnapshot(t, forced)
  PROVE  QuotaInv'
<1>1. QuotaTypeOK'
  BY DEF TakeSnapshot, QuotaInv, QuotaTypeOK, QuotaPcs
<1>2. /\ \A u \in Viewers : u # t => quotaPc'[u] = quotaPc[u]
      /\ quotaPc'[t] = "quota" /\ quotaPc[t] = "idle"
      /\ overlapped' = (overlapped \/ \E u \in Viewers : quotaPc[u] # "idle")
      /\ \A u \in Viewers : u # t => started'[u] = started[u]
      /\ fetched' = fetched /\ previous' = previous
      /\ quotaCache' = quotaCache /\ lastFetch' = lastFetch
  BY DEF TakeSnapshot, QuotaInv, QuotaTypeOK
<1> QED BY <1>1, <1>2 DEF QuotaInv, CacheAgrees, Answered

LEMMA NoteAttemptStep ==
  ASSUME QuotaInv, NEW t \in Viewers, NoteAttempt(t)
  PROVE  QuotaInv'
<1>1. QuotaTypeOK'
  BY DEF NoteAttempt, QuotaInv, QuotaTypeOK, QuotaPcs
<1>2. /\ \A u \in Viewers : u # t => quotaPc'[u] = quotaPc[u]
      /\ quotaPc'[t] = "fetch" /\ quotaPc[t] = "quota"
  BY DEF NoteAttempt, QuotaInv, QuotaTypeOK
<1> QED BY <1>1, <1>2 DEF NoteAttempt, QuotaInv, CacheAgrees, Answered

LEMMA FetchQuotaStep ==
  ASSUME QuotaInv, NEW t \in Viewers, NEW up \in BOOLEAN, FetchQuota(t, up)
  PROVE  QuotaInv'
<1>1. QuotaTypeOK'
  BY DEF FetchQuota, QuotaInv, QuotaTypeOK, QuotaPcs
<1>2. /\ \A u \in Viewers : u # t => quotaPc'[u] = quotaPc[u]
      /\ quotaPc'[t] = "previous" /\ quotaPc[t] = "fetch"
      /\ overlapped' = overlapped /\ started' = started
      /\ quotaCache' = quotaCache
  BY DEF FetchQuota, QuotaInv, QuotaTypeOK
<1>3. fetched'[t] = up
  BY DEF FetchQuota, QuotaInv, QuotaTypeOK
<1>4. lastFetch'.up = up
  BY DEF FetchQuota
<1>5. lastFetch'.good = IF up THEN started[t] ELSE lastFetch.good
  BY DEF FetchQuota
<1>6. ~overlapped => \A u \in Viewers : u # t => quotaPc[u] = "idle"
  BY <1>2 DEF QuotaInv
<1>7. ~overlapped => CacheAgrees
  BY <1>2, <1>6 DEF QuotaInv, Answered
<1> QED BY <1>1, <1>2, <1>3, <1>4, <1>5, <1>6, <1>7
        DEF QuotaInv, CacheAgrees, Answered

LEMMA ReadPreviousStep ==
  ASSUME QuotaInv, NEW t \in Viewers, ReadPrevious(t)
  PROVE  QuotaInv'
<1>1. QuotaTypeOK'
  BY DEF ReadPrevious, QuotaInv, QuotaTypeOK, QuotaPcs
<1>2. /\ \A u \in Viewers : u # t => /\ quotaPc'[u] = quotaPc[u]
                                     /\ previous'[u] = previous[u]
      /\ quotaPc'[t] = "keep" /\ quotaPc[t] = "previous"
      /\ previous'[t] = quotaCache
  BY DEF ReadPrevious, QuotaInv, QuotaTypeOK
<1>3. UNCHANGED <<quotaCache, started, fetched, overlapped, lastFetch>>
  BY DEF ReadPrevious
<1> QED BY <1>1, <1>2, <1>3 DEF QuotaInv, CacheAgrees, Answered

\* A snapshot that ends changes only what belongs to itself.
LEMMA EndOfSnapshot ==
  ASSUME QuotaTypeOK, NEW t \in Viewers, EndSnapshot(t)
  PROVE  /\ \A u \in Viewers : u # t =>
               /\ quotaPc'[u] = quotaPc[u] /\ started'[u] = started[u]
               /\ fetched'[u] = fetched[u] /\ previous'[u] = previous[u]
         /\ quotaPc'[t] = "idle"
         /\ overlapped' = overlapped /\ lastFetch' = lastFetch
         /\ quotaPc' \in [Viewers -> QuotaPcs] /\ force' \in [Viewers -> BOOLEAN]
         /\ started' \in [Viewers -> Nat] /\ fetched' \in [Viewers -> BOOLEAN]
         /\ previous' \in [Viewers -> Quotas]
<1>1. NoQuota \in Quotas
  BY DEF NoQuota, Quotas
<1> QED BY <1>1 DEF EndSnapshot, QuotaTypeOK, QuotaPcs

LEMMA AnswerFromCacheStep ==
  ASSUME QuotaInv, NEW t \in Viewers, AnswerFromCache(t)
  PROVE  QuotaInv'
<1>1. EndSnapshot(t) /\ quotaPc[t] = "quota"
      /\ UNCHANGED <<quotaCache, lastAttempt, quotaClock>>
  BY DEF AnswerFromCache, EndSnapshot
<1>2. QuotaTypeOK'
  BY <1>1, EndOfSnapshot DEF QuotaInv, QuotaTypeOK
<1> QED BY <1>1, <1>2, EndOfSnapshot DEF QuotaInv, CacheAgrees, Answered

\* With nobody else under way, what is kept is what the fetch has left.
LEMMA KeepQuotaStep ==
  ASSUME QuotaInv, NEW t \in Viewers, KeepQuota(t)
  PROVE  QuotaInv'
<1>1. /\ EndSnapshot(t) /\ quotaPc[t] = "keep" /\ quotaCache' = QuotaToKeep(t)
      /\ UNCHANGED <<lastAttempt, quotaClock>>
  BY DEF KeepQuota, EndSnapshot
<1>2. QuotaTypeOK'
  BY <1>1, EndOfSnapshot, KeptQuota DEF QuotaInv, QuotaTypeOK
<1>3. ~overlapped => \A u \in Viewers : u # t => quotaPc[u] = "idle"
  BY <1>1 DEF QuotaInv
<1>4. ASSUME ~overlapped PROVE CacheAgrees'
  <2>1. /\ fetched[t] = lastFetch.up
        /\ fetched[t] => lastFetch.good = started[t]
        /\ ~fetched[t] => quotaCache.at = lastFetch.good
        /\ previous[t] = quotaCache
    BY <1>1, <1>4 DEF QuotaInv, Answered
  <2>2. lastFetch' = lastFetch /\ fetched[t] \in BOOLEAN
    BY <1>1, EndOfSnapshot DEF QuotaInv, QuotaTypeOK
  <2>3. CASE fetched[t]
    BY <1>1, <2>1, <2>2, <2>3, KeptQuota DEF QuotaInv, CacheAgrees
  <2>4. CASE ~fetched[t]
    BY <1>1, <2>1, <2>2, <2>4, KeptQuota DEF QuotaInv, CacheAgrees
  <2> QED BY <2>3, <2>4
<1>5. \A u \in Viewers : u # t => quotaPc'[u] = quotaPc[u]
  BY <1>1, EndOfSnapshot DEF QuotaInv
<1>6. quotaPc'[t] = "idle" /\ overlapped' = overlapped
  BY <1>1, EndOfSnapshot DEF QuotaInv
<1> QED BY <1>2, <1>3, <1>4, <1>5, <1>6 DEF QuotaInv, Answered

LEMMA QuotaInvNext ==
  ASSUME QuotaInv, [QuotaNext]_quotaVars
  PROVE  QuotaInv'
<1>1. CASE QuotaTick
  BY <1>1, TickStep
<1>2. ASSUME NEW t \in Viewers, NEW forced \in BOOLEAN, TakeSnapshot(t, forced)
      PROVE  QuotaInv'
  BY <1>2, TakeSnapshotStep
<1>3. ASSUME NEW t \in Viewers, AnswerFromCache(t) PROVE QuotaInv'
  BY <1>3, AnswerFromCacheStep
<1>4. ASSUME NEW t \in Viewers, NoteAttempt(t) PROVE QuotaInv'
  BY <1>4, NoteAttemptStep
<1>5. ASSUME NEW t \in Viewers, NEW up \in BOOLEAN, FetchQuota(t, up) PROVE QuotaInv'
  BY <1>5, FetchQuotaStep
<1>6. ASSUME NEW t \in Viewers, ReadPrevious(t) PROVE QuotaInv'
  BY <1>6, ReadPreviousStep
<1>7. ASSUME NEW t \in Viewers, KeepQuota(t) PROVE QuotaInv'
  BY <1>7, KeepQuotaStep
<1>8. CASE UNCHANGED quotaVars
  BY <1>8 DEF quotaVars, QuotaInv, QuotaTypeOK, CacheAgrees, Answered
<1> QED BY <1>1, <1>2, <1>3, <1>4, <1>5, <1>6, <1>7, <1>8 DEF QuotaNext

LEMMA QuotaInvariant == QuotaSpec => []QuotaInv
BY QuotaInvInit, QuotaInvNext, PTL DEF QuotaSpec

\* The cached quota, the snapshots and what they remember have their types.
THEOREM QuotaTypeCorrect == QuotaSpec => []QuotaTypeOK
<1>1. QuotaInv => QuotaTypeOK
  BY DEF QuotaInv
<1> QED BY <1>1, QuotaInvariant, PTL

\* Snapshots that do not overlap keep a quota over every failure of its source,
\* and call it fresh exactly while the last fetch succeeded.
THEOREM StaleAfterFailure == QuotaSpec => []FailureMarksStale
<1>1. QuotaInv => FailureMarksStale
  BY DEF QuotaInv, FailureMarksStale, CacheAgrees, Answered
<1> QED BY <1>1, QuotaInvariant, PTL
=============================================================================
