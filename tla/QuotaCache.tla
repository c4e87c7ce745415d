----------------------------- MODULE QuotaCache -----------------------------
(***************************************************************************)
(* HarnessTelemetryProvider._cached_quota: the quota of a harness is asked *)
(* for at most once per refresh_seconds unless a snapshot is forced, and   *)
(* kept over failures of its source.  Snapshots run in threads of their    *)
(* own (server_legacy: asyncio.to_thread) and nothing locks the cache.     *)
(* The time a snapshot stamps on what it fetches is the one it began at.   *)
(*                                                                         *)
(*   idle   between two snapshots      previous  reads the cached quota    *)
(*   quota  looks at the cache         keep      writes the new one        *)
(*   fetch  asks the quota source                                          *)
(***************************************************************************)
EXTENDS Integers

CONSTANTS
    Viewers,        \* threads that take snapshots
    RefreshTime,    \* refresh_seconds
    MaxQuotaClock   \* bound on the clock

ASSUME QuotaTimesAssumption == RefreshTime \in Nat /\ MaxQuotaClock \in Nat

VARIABLES
    quotaClock,
    quotaCache,     \* what is cached: freshness, and when it was fetched (-1
                    \* for none, which is what an unavailable quota has)
    lastAttempt,    \* _last_attempt; -1 before the first
    quotaPc, force, started,    \* per thread: place, argument, its "now"
    fetched,        \* per thread: whether the source answered
    previous,       \* per thread: the cached quota, as it read it
    overlapped,     \* history: two snapshots have been under way at once
    lastFetch       \* history: whether the source answered last, and the
                    \* time of the last snapshot it answered

quotaVars == <<quotaClock, quotaCache, lastAttempt, quotaPc, force, started,
               fetched, previous, overlapped, lastFetch>>

NoQuota == [freshness |-> "none", at |-> -1]
Unavailable == [freshness |-> "unknown", at |-> -1]
QuotaPcs == {"idle", "quota", "fetch", "previous", "keep"}

QuotaInit ==
    /\ quotaClock = 0 /\ quotaCache = NoQuota /\ lastAttempt = -1
    /\ quotaPc = [t \in Viewers |-> "idle"]
    /\ force = [t \in Viewers |-> FALSE]
    /\ started = [t \in Viewers |-> 0]
    /\ fetched = [t \in Viewers |-> FALSE]
    /\ previous = [t \in Viewers |-> NoQuota]
    /\ overlapped = FALSE /\ lastFetch = [up |-> FALSE, good |-> -1]

QuotaTick ==
    /\ quotaClock < MaxQuotaClock
    /\ quotaClock' = quotaClock + 1
    /\ UNCHANGED <<quotaCache, lastAttempt, quotaPc, force, started, fetched,
                   previous, overlapped, lastFetch>>

TakeSnapshot(t, forced) ==
    /\ quotaPc[t] = "idle"
    /\ quotaPc' = [quotaPc EXCEPT ![t] = "quota"]
    /\ force' = [force EXCEPT ![t] = forced]
    /\ started' = [started EXCEPT ![t] = quotaClock]
    /\ overlapped' = (overlapped \/ \E u \in Viewers : quotaPc[u] # "idle")
    /\ UNCHANGED <<quotaClock, quotaCache, lastAttempt, fetched, previous,
                   lastFetch>>

\* The snapshot has its answer and forgets how it came by it.
EndSnapshot(t) ==
    /\ quotaPc' = [quotaPc EXCEPT ![t] = "idle"]
    /\ force' = [force EXCEPT ![t] = FALSE]
    /\ started' = [started EXCEPT ![t] = 0]
    /\ fetched' = [fetched EXCEPT ![t] = FALSE]
    /\ previous' = [previous EXCEPT ![t] = NoQuota]
    /\ UNCHANGED <<quotaClock, overlapped, lastFetch>>

ServedFromCache(t) ==
    /\ ~force[t] /\ lastAttempt # -1 /\ quotaCache # NoQuota
    /\ started[t] - lastAttempt < RefreshTime

AnswerFromCache(t) ==
    /\ quotaPc[t] = "quota" /\ ServedFromCache(t)
    /\ EndSnapshot(t)
    /\ UNCHANGED <<quotaCache, lastAttempt>>

NoteAttempt(t) ==
    /\ quotaPc[t] = "quota" /\ ~ServedFromCache(t)
    /\ lastAttempt' = started[t]
    /\ quotaPc' = [quotaPc EXCEPT ![t] = "fetch"]
    /\ UNCHANGED <<quotaClock, quotaCache, force, started, fetched, previous,
                   overlapped, lastFetch>>

FetchQuota(t, up) ==
    /\ quotaPc[t] = "fetch"
    /\ fetched' = [fetched EXCEPT ![t] = up]
    /\ lastFetch' = [up |-> up, good |-> IF up THEN started[t] ELSE lastFetch.good]
    /\ quotaPc' = [quotaPc EXCEPT ![t] = "previous"]
    /\ UNCHANGED <<quotaClock, quotaCache, lastAttempt, force, started,
                   previous, overlapped>>

ReadPrevious(t) ==
    /\ quotaPc[t] = "previous"
    /\ previous' = [previous EXCEPT ![t] = quotaCache]
    /\ quotaPc' = [quotaPc EXCEPT ![t] = "keep"]
    /\ UNCHANGED <<quotaClock, quotaCache, lastAttempt, force, started,
                   fetched, overlapped, lastFetch>>

\* A common error: what is cached is served on as it is.
BugQuotaToKeep(t) ==
    IF fetched[t] THEN [freshness |-> "fresh", at |-> started[t]]
    ELSE IF previous[t] = NoQuota THEN Unavailable
    ELSE previous[t]

QuotaToKeep(t) ==
    IF fetched[t] THEN [freshness |-> "fresh", at |-> started[t]]
    ELSE IF previous[t] = NoQuota THEN Unavailable
    ELSE [previous[t] EXCEPT !.freshness = "stale"]

KeepQuota(t) ==
    /\ quotaPc[t] = "keep"
    /\ quotaCache' = QuotaToKeep(t)
    /\ EndSnapshot(t)
    /\ UNCHANGED lastAttempt

QuotaNext ==
    \/ QuotaTick
    \/ \E t \in Viewers :
          \/ \E forced \in BOOLEAN : TakeSnapshot(t, forced)
          \/ AnswerFromCache(t) \/ NoteAttempt(t)
          \/ \E up \in BOOLEAN : FetchQuota(t, up)
          \/ ReadPrevious(t) \/ KeepQuota(t)

QuotaSpec == QuotaInit /\ [][QuotaNext]_quotaVars

-----------------------------------------------------------------------------
Quotas == [freshness : {"none", "unknown", "fresh", "stale"},
           at : Nat \union {-1}]

QuotaTypeOK ==
    /\ quotaClock \in Nat
    /\ quotaCache \in Quotas /\ lastAttempt \in Nat \union {-1}
    /\ quotaPc \in [Viewers -> QuotaPcs] /\ force \in [Viewers -> BOOLEAN]
    /\ started \in [Viewers -> Nat]
    /\ fetched \in [Viewers -> BOOLEAN] /\ previous \in [Viewers -> Quotas]
    /\ overlapped \in BOOLEAN
    /\ lastFetch \in [up : BOOLEAN, good : Nat \union {-1}]

(***************************************************************************)
(* Snapshots that do not overlap tell the truth about the quota: a value   *)
(* once fetched is kept through any number of failures, it is fresh        *)
(* exactly while the last fetch succeeded, and then it is what that fetch  *)
(* brought.                                                                *)
(***************************************************************************)
FailureMarksStale ==
    ~overlapped /\ (\A t \in Viewers : quotaPc[t] = "idle") =>
        /\ quotaCache.at = lastFetch.good
        /\ quotaCache.at # -1 =>
              quotaCache.freshness = (IF lastFetch.up THEN "fresh" ELSE "stale")
=============================================================================
