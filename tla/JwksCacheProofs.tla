-------------------------- MODULE JwksCacheProofs --------------------------
(***************************************************************************)
(* Proofs about JwksCache, for every set of requests and key IDs and every *)
(* choice of the periods.                                                  *)
(***************************************************************************)
EXTENDS JwksCache, TLAPS

-----------------------------------------------------------------------------
(* Why withdrawn keys expire and forced fetches are spaced.                 *)

\* The key is published, or was not longer ago than this.
PublishedWithin(k, seconds) == k \in published \/ since[k] <= seconds

(***************************************************************************)
(* The inductive invariant behind WithdrawnKeysExpire and                  *)
(* ForcedFetchesAreSpaced: an answer is no older than its fetch, the cache *)
(* no older than its age and a fetch, and the time of a forced attempt is  *)
(* recorded when its fetch is sent.                                        *)
(***************************************************************************)
IndInv ==
    /\ TypeOK
    /\ lock = "nobody" => fetch = NoFetch
    /\ \A k \in fetch.keys : PublishedWithin(k, fetch.age)
    /\ cache.age <= MaxStaleness =>
            \A k \in cache.keys : PublishedWithin(k, cache.age + FetchTimeout)
    /\ polled = refresh.forcedAge

-----------------------------------------------------------------------------
(* Why refusals are informed, while clients stay connected.                 *)

\* The key is not published, or was not until this many seconds ago.
UnpublishedWithin(k, seconds) == k \notin published \/ since[k] <= seconds

\* An answer with keys says what was not published since it was asked for.
AnswersAreComplete ==
    /\ fetch.answered /\ fetch.keys # {} =>
            \A k \in Kid \ fetch.keys : UnpublishedWithin(k, fetch.age)
    /\ lock # "nobody" /\ AttemptedRecently(refresh.forcedAge) => fetch.age <= refresh.forcedAge

\* What is not cached was not published when the last forced refresh, if it was
\* recent and did not fail, was sent.
RateLimitIsInformed ==
    lock \notin Request /\ AttemptedRecently(refresh.forcedAge) /\ ~refresh.forcedFailed =>
        \A k \in Kid \ cache.keys : UnpublishedWithin(k, refresh.forcedAge)

\* Nor was it for a request that looks at the cache again.
RereadsAreInformed ==
    \A r \in Request :
        caller[r].pc = "reread" /\ ~caller[r].failed /\ caller[r].kid \notin cache.keys =>
            UnpublishedWithin(caller[r].kid, Retry + FetchTimeout)

\* The inductive invariant behind RefusalsAreInformed.
InformedInv == IndInv /\ AnswersAreComplete /\ RateLimitIsInformed /\ RereadsAreInformed

-----------------------------------------------------------------------------
(* Why the replica is ready while the issuer is healthy.                    *)

\* How long ago the loop last found the cache young or had its fetch answered:
\* it sleeps for the retry window, waits for one fetch of a request (for a second
\* one is rate-limited) and then for its own.
SinceCheck ==
    CASE lock = "loop"                                -> Retry + FetchTimeout + fetch.age
      [] lock # "loop" /\ loop > 0                    -> Retry - loop
      [] lock \in Request /\ loop = 0                 -> Retry + fetch.age
      [] lock = "nobody" /\ loop = 0                  ->
            IF AttemptedRecently(refresh.forcedAge) THEN Retry + FetchTimeout ELSE Retry

\* The loop never finds its own attempt recent, and a forced one is as old as
\* the fetch it sent.
AttemptsAreTimed ==
    /\ IF lock = "loop" THEN loop = 0 ELSE refresh.softAge + loop >= Retry
    /\ lock \in Request => refresh.forcedAge = fetch.age

\* Only an unhealthy issuer gives no key.
HealthIsTimed ==
    /\ ~Healthy => healthyFor = 0
    /\ fetch.answered /\ fetch.keys = {} => healthyFor <= fetch.age

\* The cache has always a key, and is as young as the last check made it unless
\* that failed.
ChecksAreTimely ==
    /\ cache.keys # {}
    /\ cache.age < SoftRefresh + SinceCheck \/ healthyFor <= FetchTimeout + SinceCheck

\* The inductive invariant behind ReadyWhileHealthy.
ReadyInv == IndInv /\ AttemptsAreTimed /\ HealthIsTimed /\ ChecksAreTimely

-----------------------------------------------------------------------------
(* Types.                                                                   *)

\* A finished call is a caller's state whatever its result.
LEMMA NoCallType ==
    ASSUME NEW pc \in {"idle"} \cup Verdict
    PROVE  [NoCall EXCEPT !.pc = pc] \in Caller
  <1>1. (CHOOSE k \in Kid : TRUE) \in Kid
    BY PeriodAssumption
  <1> QED
    BY <1>1 DEF NoCall, Caller, Verdict

\* An age that grows by a second stays in its range and grows by at most one.
LEMMA OlderType ==
    ASSUME NEW cap \in Nat, NEW age \in 0 .. cap
    PROVE  /\ Older(age, cap) \in 0 .. cap
           /\ Older(age, cap) <= age + 1
           /\ age < cap => Older(age, cap) = age + 1
           /\ Older(age, cap) < cap => Older(age, cap) = age + 1
  BY DEF Older

\* Nothing is being fetched before the mutex is taken.
LEMMA NoFetchType == NoFetch \in [answered : BOOLEAN, keys : SUBSET Kid, age : 0 .. FetchTimeout]
  BY PeriodAssumption DEF NoFetch

\* The initial state, after warm_up(), satisfies the inductive invariant.
LEMMA InitIndInv == Init => IndInv
  <1> SUFFICES ASSUME Init PROVE IndInv
    OBVIOUS
  <1>1. NoCall \in Caller
    BY NoCallType DEF NoCall, Verdict
  <1>2. TypeOK
    <2>1. cache \in [keys : SUBSET Kid, age : 0 .. HardStale]
      BY PeriodAssumption DEF Init, HardStale
    <2>2. refresh \in [softAge : 0 .. Retry, forcedAge : 0 .. Retry, forcedFailed : BOOLEAN]
      BY PeriodAssumption DEF Init
    <2>3. /\ caller \in [Request -> Caller]
          /\ \A r \in Request : caller[r].pc = "fetch" <=> lock = r
      BY <1>1, PeriodAssumption DEF Init, NoCall
    <2>4. since \in [Kid -> 0 .. KeyMemory] /\ healthyFor \in 0 .. HealthMemory
      BY PeriodAssumption DEF Init
    <2>5. loop \in 0 .. Retry /\ polled \in 0 .. Retry
      BY PeriodAssumption DEF Init
    <2> QED
      BY <2>1, <2>2, <2>3, <2>4, <2>5, NoFetchType DEF Init, TypeOK
  <1>3. cache.keys = published /\ fetch.keys = {} /\ polled = refresh.forcedAge
    BY DEF Init, NoFetch
  <1> QED
    BY <1>2, <1>3 DEF Init, IndInv, PublishedWithin

-----------------------------------------------------------------------------
(* The steps of a caller.                                                   *)

\* A call that only moves its caller outside the fetch keeps the invariant.
LEMMA CallerStep ==
    ASSUME IndInv,
           NEW r \in Request,
           NEW c \in Caller,
           caller' = [caller EXCEPT ![r] = c],
           c.pc # "fetch",
           caller[r].pc # "fetch",
           UNCHANGED <<cache, refresh, lock, fetch, loop, issuer, polled>>
    PROVE  IndInv'
  <1>1. caller' \in [Request -> Caller]
    BY DEF IndInv, TypeOK
  <1>2. (\A q \in Request : caller[q].pc = "fetch" <=> lock = q)'
    BY DEF IndInv, TypeOK
  <1>3. TypeOK'
    BY <1>1, <1>2 DEF IndInv, TypeOK, issuer
  <1> QED
    BY <1>3 DEF IndInv, PublishedWithin, issuer

\* verify() reaches key(kid).
LEMMA VerifyStep ==
    ASSUME IndInv, NEW r \in Request, NEW k \in Kid, Verify(r, k) PROVE IndInv'
  <1> DEFINE c == [pc |-> "read", kid |-> k, failed |-> FALSE]
  <1>1. c \in Caller /\ c.pc # "fetch"
    BY DEF Caller
  <1>2. caller[r].pc # "fetch"
    BY DEF Verify, Verdict
  <1>3. caller' = [caller EXCEPT ![r] = c]
    BY DEF Verify
  <1> HIDE DEF c
  <1> QED
    BY <1>1, <1>2, <1>3, CallerStep DEF Verify

\* What Goto and Return put in place of the caller's state.
LEMMA GotoState ==
    ASSUME IndInv, NEW r \in Request, NEW failed \in BOOLEAN,
           NEW pc \in {"lock", "fetch", "reread"}, Goto(r, pc, failed)
    PROVE  \E c \in Caller : /\ caller' = [caller EXCEPT ![r] = c]
                             /\ c.pc = pc
  <1> DEFINE c == [caller[r] EXCEPT !.pc = pc, !.failed = failed]
  <1>1. caller[r] \in Caller
    BY DEF IndInv, TypeOK
  <1>2. c \in Caller /\ c.pc = pc
    BY <1>1 DEF Caller
  <1>3. caller' = [caller EXCEPT ![r] = c]
    BY <1>1 DEF Goto, IndInv, TypeOK, Caller
  <1> QED
    BY <1>2, <1>3

\* A future that returns leaves its result and no locals.
LEMMA ReturnState ==
    ASSUME IndInv, NEW r \in Request, NEW pc \in {"idle"} \cup Verdict, Return(r, pc)
    PROVE  \E c \in Caller : /\ caller' = [caller EXCEPT ![r] = c]
                             /\ c.pc = pc
  <1> DEFINE c == [NoCall EXCEPT !.pc = pc]
  <1>1. c \in Caller
    BY NoCallType
  <1>2. c.pc = pc
    BY DEF NoCall
  <1> QED
    BY <1>1, <1>2 DEF Return

\* The first look at the cache.
LEMMA KeyStep ==
    ASSUME IndInv, NEW r \in Request, Key(r) PROVE IndInv'
  <1>1. \E c \in Caller : caller' = [caller EXCEPT ![r] = c] /\ c.pc # "fetch"
    <2>1. CASE Return(r, "Ok")
      BY <2>1, ReturnState, "Ok" # "fetch" DEF Verdict
    <2>2. CASE Return(r, "KeysUnavailable")
      BY <2>2, ReturnState, "KeysUnavailable" # "fetch" DEF Verdict
    <2>3. CASE Goto(r, "lock", FALSE)
      BY <2>3, GotoState, "lock" # "fetch"
    <2> QED
      BY <2>1, <2>2, <2>3 DEF Key
  <1>2. caller[r].pc # "fetch"
    BY DEF Key
  <1> QED
    BY <1>1, <1>2, CallerStep DEF Key

\* The second look at the cache.
LEMMA RereadStep ==
    ASSUME IndInv, NEW r \in Request, Reread(r) PROVE IndInv'
  <1>1. PICK v \in Verdict : Return(r, v)
    BY DEF Reread, Verdict
  <1>2. v # "fetch" /\ caller[r].pc # "fetch"
    BY DEF Reread, Verdict
  <1>3. PICK c \in Caller : caller' = [caller EXCEPT ![r] = c] /\ c.pc = v
    BY <1>1, ReturnState
  <1> QED
    BY <1>2, <1>3, CallerStep DEF Reread

\* A request gets the mutex: it goes on at once, or sends a fetch.
LEMMA RefreshForUnknownKidStep ==
    ASSUME IndInv, NEW r \in Request, RefreshForUnknownKid(r) PROVE IndInv'
  <1>0. caller[r].pc = "lock" /\ lock = "nobody" /\ refresh.forcedFailed \in BOOLEAN
    BY DEF RefreshForUnknownKid, IndInv, TypeOK
  <1>1. CASE /\ \E failed \in BOOLEAN : Goto(r, "reread", failed)
             /\ UNCHANGED <<refresh, lock, fetch, polled>>
    <2>1. PICK c \in Caller : caller' = [caller EXCEPT ![r] = c] /\ c.pc = "reread"
      BY <1>1, GotoState
    <2>2. UNCHANGED <<cache, refresh, lock, fetch, loop, issuer, polled>>
      BY <1>1 DEF RefreshForUnknownKid
    <2> QED
      BY <1>0, <2>1, <2>2, CallerStep
  <1>2. CASE /\ StartFetch(r)
             /\ refresh' = [refresh EXCEPT !.forcedAge = 0]
             /\ polled' = 0
             /\ Goto(r, "fetch", FALSE)
    <2>1. PICK c \in Caller : caller' = [caller EXCEPT ![r] = c] /\ c.pc = "fetch"
      BY <1>2, GotoState
    <2>2. UNCHANGED <<cache, loop, published, outage, since, healthyFor>>
      BY DEF RefreshForUnknownKid, issuer
    <2>3. lock' = r /\ fetch' = NoFetch
      BY <1>2 DEF StartFetch
    <2>4. refresh' \in [softAge : 0 .. Retry, forcedAge : 0 .. Retry, forcedFailed : BOOLEAN]
      BY <1>2, PeriodAssumption DEF IndInv, TypeOK
    <2>5. (\A q \in Request : caller[q].pc = "fetch" <=> lock = q)'
      BY <1>0, <2>1, <2>3, PeriodAssumption DEF IndInv, TypeOK
    <2>6. caller' \in [Request -> Caller] /\ polled' \in 0 .. Retry
      BY <1>2, <2>1, PeriodAssumption DEF IndInv, TypeOK
    <2>7. TypeOK'
      BY <2>2, <2>3, <2>4, <2>5, <2>6, NoFetchType DEF IndInv, TypeOK
    <2>8. polled' = refresh'.forcedAge /\ lock' # "nobody" /\ fetch'.keys = {}
      BY <1>2, <2>3, PeriodAssumption DEF IndInv, TypeOK, NoFetch
    <2> QED
      BY <2>2, <2>7, <2>8 DEF IndInv, PublishedWithin
  <1> QED
    BY <1>0, <1>1, <1>2 DEF RefreshForUnknownKid

-----------------------------------------------------------------------------
(* The steps that end a fetch.                                              *)

\* Storing an answer: the fetch took FetchTimeout at most.
LEMMA StoredKeysAreRecent ==
    ASSUME IndInv, StoreKeys, UNCHANGED issuer
    PROVE  /\ cache' \in [keys : SUBSET Kid, age : 0 .. HardStale]
           /\ cache'.age <= MaxStaleness =>
                 (\A k \in cache.keys : PublishedWithin(k, cache.age + FetchTimeout))'
  <1>1. CASE fetch.keys = {}
    BY <1>1 DEF StoreKeys, IndInv, TypeOK, PublishedWithin, issuer
  <1>2. CASE fetch.keys # {}
    <2>1. cache' = [keys |-> fetch.keys, age |-> 0]
      BY <1>2 DEF StoreKeys
    <2>2. fetch.age \in 0 .. FetchTimeout /\ fetch.keys \in SUBSET Kid
      BY DEF IndInv, TypeOK
    <2>3. ASSUME NEW k \in fetch.keys PROVE k \in published \/ since[k] <= FetchTimeout
      <3>1. since[k] \in Nat /\ PublishedWithin(k, fetch.age)
        BY <2>2, PeriodAssumption DEF IndInv, TypeOK
      <3> QED
        BY <3>1, <2>2, PeriodAssumption DEF PublishedWithin
    <2>4. cache' \in [keys : SUBSET Kid, age : 0 .. HardStale]
      BY <2>1, <2>2, PeriodAssumption DEF HardStale
    <2>5. published' = published /\ since' = since
      BY DEF issuer
    <2>6. 0 + FetchTimeout = FetchTimeout
      BY PeriodAssumption
    <2> QED
      BY <2>1, <2>3, <2>4, <2>5, <2>6 DEF PublishedWithin
  <1> QED
    BY <1>1, <1>2

\* The forced refresh ends.
LEMMA ForcedFetchDoneStep ==
    ASSUME IndInv, NEW r \in Request, ForcedFetchDone(r) PROVE IndInv'
  <1>1. PICK c \in Caller : caller' = [caller EXCEPT ![r] = c] /\ c.pc = "reread"
    BY GotoState, (fetch.keys = {}) \in BOOLEAN DEF ForcedFetchDone
  <1>2. lock = r /\ lock' = "nobody" /\ fetch' = NoFetch /\ "nobody" \notin Request
    BY PeriodAssumption DEF ForcedFetchDone, StoreKeys
  <1>3. UNCHANGED <<loop, published, outage, since, healthyFor, polled>>
    BY DEF ForcedFetchDone, issuer
  <1>4. /\ refresh' \in [softAge : 0 .. Retry, forcedAge : 0 .. Retry, forcedFailed : BOOLEAN]
        /\ refresh'.forcedAge = refresh.forcedAge
    BY (fetch.keys = {}) \in BOOLEAN DEF ForcedFetchDone, IndInv, TypeOK
  <1>5. (\A q \in Request : caller[q].pc = "fetch" <=> lock = q)'
    BY <1>1, <1>2 DEF IndInv, TypeOK
  <1>6. caller' \in [Request -> Caller]
    BY <1>1 DEF IndInv, TypeOK
  <1>7. /\ cache' \in [keys : SUBSET Kid, age : 0 .. HardStale]
        /\ cache'.age <= MaxStaleness =>
              (\A k \in cache.keys : PublishedWithin(k, cache.age + FetchTimeout))'
    BY StoredKeysAreRecent DEF ForcedFetchDone
  <1>8. TypeOK'
    BY <1>2, <1>3, <1>4, <1>5, <1>6, <1>7, NoFetchType DEF IndInv, TypeOK
  <1>9. fetch'.keys = {} /\ polled' = refresh'.forcedAge
    BY <1>2, <1>3, <1>4 DEF IndInv, NoFetch
  <1>10. fetch' = NoFetch'
    BY <1>2 DEF NoFetch
  <1> QED
    BY <1>7, <1>8, <1>9, <1>10 DEF IndInv

\* The soft refresh ends.
LEMMA SoftFetchDoneStep ==
    ASSUME IndInv, SoftFetchDone PROVE IndInv'
  <1>2. lock = "loop" /\ lock' = "nobody" /\ fetch' = NoFetch /\ loop' = Retry
    BY DEF SoftFetchDone, StoreKeys
  <1>3. UNCHANGED <<refresh, caller, published, outage, since, healthyFor, polled>>
    BY DEF SoftFetchDone, issuer
  <1>5. (\A q \in Request : caller[q].pc = "fetch" <=> lock = q)'
    BY <1>2, <1>3, PeriodAssumption DEF IndInv, TypeOK
  <1>7. /\ cache' \in [keys : SUBSET Kid, age : 0 .. HardStale]
        /\ cache'.age <= MaxStaleness =>
              (\A k \in cache.keys : PublishedWithin(k, cache.age + FetchTimeout))'
    BY StoredKeysAreRecent DEF SoftFetchDone
  <1>8. TypeOK'
    BY <1>2, <1>3, <1>5, <1>7, NoFetchType, PeriodAssumption DEF IndInv, TypeOK
  <1>9. fetch'.keys = {} /\ polled' = refresh'.forcedAge
    BY <1>2, <1>3 DEF IndInv, NoFetch
  <1>10. fetch' = NoFetch'
    BY <1>2 DEF NoFetch
  <1> QED
    BY <1>7, <1>8, <1>9, <1>10 DEF IndInv

\* A client goes away, perhaps in the middle of a fetch.
LEMMA DisconnectStep ==
    ASSUME IndInv, NEW r \in Request, Disconnect(r) PROVE IndInv'
  <1>1. PICK c \in Caller : caller' = [caller EXCEPT ![r] = c] /\ c.pc = "idle"
    BY ReturnState DEF Disconnect
  <1>2. UNCHANGED <<cache, refresh, loop, published, outage, since, healthyFor, polled>>
    BY DEF Disconnect, issuer
  <1>3. /\ lock' = IF lock = r THEN "nobody" ELSE lock
        /\ fetch' = IF lock = r THEN NoFetch ELSE fetch
    BY DEF Disconnect
  <1>4. (\A q \in Request : caller[q].pc = "fetch" <=> lock = q)'
    BY <1>1, <1>3, PeriodAssumption DEF IndInv, TypeOK
  <1>5. caller' \in [Request -> Caller]
    BY <1>1 DEF IndInv, TypeOK
  <1>6. fetch' \in [answered : BOOLEAN, keys : SUBSET Kid, age : 0 .. FetchTimeout]
    BY <1>3, NoFetchType DEF IndInv, TypeOK
  <1>7. lock' \in Request \cup {"loop", "nobody"}
    BY <1>3 DEF IndInv, TypeOK
  <1>8. TypeOK'
    BY <1>2, <1>4, <1>5, <1>6, <1>7 DEF IndInv, TypeOK
  <1>9. (lock = "nobody" => fetch = NoFetch)'
    BY <1>3 DEF IndInv, NoFetch
  <1>10. (\A k \in fetch.keys : PublishedWithin(k, fetch.age))'
    BY <1>2, <1>3 DEF IndInv, NoFetch, PublishedWithin
  <1> QED
    BY <1>2, <1>8, <1>9, <1>10 DEF IndInv, PublishedWithin

-----------------------------------------------------------------------------
(* The loop and the environment.                                            *)

\* The loop wakes: it sleeps again, or sends a fetch.
LEMMA RefreshSoftIfDueStep ==
    ASSUME IndInv, RefreshSoftIfDue PROVE IndInv'
  <1>1. UNCHANGED <<cache, caller, published, outage, since, healthyFor, polled>>
    BY DEF RefreshSoftIfDue, issuer
  <1>2. CASE loop' = Retry /\ UNCHANGED <<refresh, lock, fetch>>
    BY <1>1, <1>2, PeriodAssumption DEF IndInv, TypeOK, PublishedWithin, NoFetch
  <1>3. CASE /\ StartFetch("loop")
             /\ refresh' = [refresh EXCEPT !.softAge = 0]
             /\ UNCHANGED loop
    <2>1. lock = "nobody" /\ lock' = "loop" /\ fetch' = NoFetch
      BY <1>3 DEF StartFetch
    <2>2. /\ refresh' \in [softAge : 0 .. Retry, forcedAge : 0 .. Retry,
                           forcedFailed : BOOLEAN]
          /\ refresh'.forcedAge = refresh.forcedAge
      BY <1>3, PeriodAssumption DEF IndInv, TypeOK
    <2>3. (\A q \in Request : caller[q].pc = "fetch" <=> lock = q)'
      BY <1>1, <2>1, PeriodAssumption DEF IndInv, TypeOK
    <2>4. TypeOK'
      BY <1>1, <1>3, <2>1, <2>2, <2>3, NoFetchType DEF IndInv, TypeOK
    <2>5. fetch'.keys = {} /\ lock' # "nobody" /\ polled' = refresh'.forcedAge
      BY <1>1, <2>1, <2>2 DEF IndInv, NoFetch
    <2> QED
      BY <1>1, <2>4, <2>5 DEF IndInv, PublishedWithin
  <1> QED
    BY <1>2, <1>3 DEF RefreshSoftIfDue

\* The issuer answers with keys it publishes at this moment.
LEMMA AnswerStep ==
    ASSUME IndInv, Answer PROVE IndInv'
  <1>1. UNCHANGED <<cache, refresh, lock, caller, loop, published, outage, since,
                    healthyFor, polled>>
    BY DEF Answer, issuer
  <1>2. fetch' = [fetch EXCEPT !.answered = TRUE,
                               !.keys = IF outage THEN {} ELSE published]
    BY DEF Answer
  <1>3. fetch' \in [answered : BOOLEAN, keys : SUBSET Kid, age : 0 .. FetchTimeout]
    BY <1>2 DEF IndInv, TypeOK
  <1>4. fetch'.keys \subseteq published /\ lock # "nobody"
    BY <1>2 DEF IndInv, TypeOK, Answer
  <1>5. TypeOK'
    BY <1>1, <1>3 DEF IndInv, TypeOK
  <1> QED
    BY <1>1, <1>4, <1>5 DEF IndInv, PublishedWithin

\* A rotation makes no key of an answer or of the cache look older.
LEMMA RotateStep ==
    ASSUME IndInv, Rotate PROVE IndInv'
  <1>1. UNCHANGED <<cache, refresh, lock, fetch, caller, loop, outage, polled>>
    BY DEF Rotate
  <1>2. published' \in SUBSET Kid /\ since' \in [Kid -> 0 .. KeyMemory]
    BY PeriodAssumption DEF Rotate, IndInv, TypeOK
  <1>3. healthyFor' \in 0 .. HealthMemory
    BY PeriodAssumption DEF Rotate, IndInv, TypeOK
  <1>4. TypeOK'
    BY <1>1, <1>2, <1>3 DEF IndInv, TypeOK
  <1>5. ASSUME NEW k \in Kid, NEW s \in Nat, PublishedWithin(k, s)
        PROVE  PublishedWithin(k, s)'
    BY <1>5 DEF PublishedWithin, Rotate
  <1>6. cache.age \in Nat /\ fetch.age \in Nat /\ cache.keys \subseteq Kid /\ fetch.keys \subseteq Kid
    BY PeriodAssumption DEF IndInv, TypeOK, HardStale
  <1>7. cache.age + FetchTimeout \in Nat
    BY <1>6, PeriodAssumption
  <1>8. (\A k \in fetch.keys : PublishedWithin(k, fetch.age))'
    BY <1>1, <1>5, <1>6 DEF IndInv
  <1>9. (cache.age <= MaxStaleness =>
            \A k \in cache.keys : PublishedWithin(k, cache.age + FetchTimeout))'
    BY <1>1, <1>5, <1>6, <1>7 DEF IndInv
  <1>10. (lock = "nobody" => fetch = NoFetch)' /\ polled' = refresh'.forcedAge
    BY <1>1 DEF IndInv, NoFetch
  <1> QED
    BY <1>4, <1>8, <1>9, <1>10 DEF IndInv

\* The beginning or the end of an outage.
LEMMA OutageChangeStep ==
    ASSUME IndInv, OutageChange PROVE IndInv'
  <1>1. outage' \in BOOLEAN
    BY DEF OutageChange, IndInv, TypeOK
  <1>2. TypeOK'
    BY <1>1, PeriodAssumption DEF OutageChange, IndInv, TypeOK
  <1> QED
    BY <1>2 DEF OutageChange, IndInv, PublishedWithin, NoFetch

\* A second passes: every age grows with it.
LEMMA TickStep ==
    ASSUME IndInv, Tick PROVE IndInv'
  <1> USE PeriodAssumption
  <1>1. UNCHANGED <<lock, caller, published, outage>>
    BY DEF Tick
  <1>2. /\ cache \in [keys : SUBSET Kid, age : 0 .. HardStale] /\ HardStale \in Nat
        /\ cache' = [cache EXCEPT !.age = Older(@, HardStale)]
    BY DEF IndInv, TypeOK, Tick, HardStale
  <1>3. /\ cache' \in [keys : SUBSET Kid, age : 0 .. HardStale]
        /\ cache'.keys = cache.keys /\ cache'.age = Older(cache.age, HardStale)
    BY <1>2, OlderType
  <1>4. refresh \in [softAge : 0 .. Retry, forcedAge : 0 .. Retry, forcedFailed : BOOLEAN]
    BY DEF IndInv, TypeOK
  <1>5. /\ refresh' \in [softAge : 0 .. Retry, forcedAge : 0 .. Retry, forcedFailed : BOOLEAN]
        /\ refresh'.forcedAge = Older(refresh.forcedAge, Retry)
    BY <1>4, OlderType DEF Tick
  <1>6. /\ fetch \in [answered : BOOLEAN, keys : SUBSET Kid, age : 0 .. FetchTimeout]
        /\ fetch' = [fetch EXCEPT !.age = IF lock = "nobody" THEN 0 ELSE @ + 1]
        /\ lock # "nobody" => fetch.age < FetchTimeout
    BY DEF IndInv, TypeOK, Tick
  <1>7. /\ fetch' \in [answered : BOOLEAN, keys : SUBSET Kid, age : 0 .. FetchTimeout]
        /\ fetch'.keys = fetch.keys
        /\ lock # "nobody" => fetch'.age = fetch.age + 1
    BY <1>6
  <1>8. loop' \in 0 .. Retry
    BY DEF IndInv, TypeOK, Tick
  <1>9. polled' \in 0 .. Retry /\ polled' = refresh'.forcedAge
    BY <1>5, OlderType DEF IndInv, TypeOK, Tick
  <1>10. ASSUME NEW k \in Kid
         PROVE  /\ since[k] \in 0 .. KeyMemory
                /\ since'[k] \in 0 .. KeyMemory
                /\ since'[k] <= since[k] + 1
    BY OlderType DEF IndInv, TypeOK, Tick
  <1>11. since' \in [Kid -> 0 .. KeyMemory]
    BY <1>10 DEF Tick
  <1>12. healthyFor' \in 0 .. HealthMemory
    BY OlderType DEF IndInv, TypeOK, Tick
  <1>13. TypeOK'
    BY <1>1, <1>3, <1>5, <1>7, <1>8, <1>9, <1>11, <1>12 DEF IndInv, TypeOK
  <1>14. ASSUME NEW k \in Kid, NEW s \in Nat, PublishedWithin(k, s)
         PROVE  k \in published' \/ since'[k] <= s + 1
    BY <1>1, <1>10, <1>14 DEF PublishedWithin
  <1>15. (lock = "nobody" => fetch = NoFetch)'
    <2> SUFFICES ASSUME lock = "nobody" PROVE fetch' = NoFetch
      BY <1>1 DEF NoFetch
    <2>1. fetch = NoFetch
      BY DEF IndInv
    <2> QED
      BY <1>6, <2>1 DEF NoFetch
  <1>16. (\A k \in fetch.keys : PublishedWithin(k, fetch.age))'
    <2>1. CASE lock = "nobody"
      BY <1>1, <1>15, <2>1 DEF NoFetch
    <2>2. CASE lock # "nobody"
      <3>1. fetch.age \in Nat /\ fetch.keys \subseteq Kid
        BY <1>6
      <3> QED
        BY <1>7, <1>14, <2>2, <3>1 DEF IndInv, PublishedWithin
    <2> QED
      BY <2>1, <2>2
  <1>17. (cache.age <= MaxStaleness =>
             \A k \in cache.keys : PublishedWithin(k, cache.age + FetchTimeout))'
    <2> SUFFICES ASSUME cache'.age <= MaxStaleness, NEW k \in cache.keys
                 PROVE  k \in published' \/ since'[k] <= cache'.age + FetchTimeout
      BY <1>3 DEF PublishedWithin
    <2>1. cache.age \in 0 .. HardStale /\ cache.keys \subseteq Kid
      BY <1>2
    <2>2. cache'.age = cache.age + 1 /\ cache.age <= MaxStaleness
      BY <1>2, <1>3, <2>1, OlderType DEF HardStale
    <2>3. PublishedWithin(k, cache.age + FetchTimeout)
      BY <2>2 DEF IndInv
    <2>4. cache.age + FetchTimeout \in Nat
      BY <1>2, <2>1
    <2>5. k \in published' \/ since'[k] <= (cache.age + FetchTimeout) + 1
      BY <1>14, <2>1, <2>3, <2>4
    <2> QED
      BY <1>10, <2>1, <2>2, <2>5
  <1> QED
    BY <1>9, <1>13, <1>15, <1>16, <1>17 DEF IndInv

-----------------------------------------------------------------------------
(* The theorems.                                                            *)

\* Every step of the cache keeps the inductive invariant.
LEMMA NextIndInv == IndInv /\ [Next]_vars => IndInv'
  <1> SUFFICES ASSUME IndInv, [Next]_vars PROVE IndInv'
    OBVIOUS
  <1>1. CASE UNCHANGED vars
    BY <1>1 DEF vars, IndInv, TypeOK, PublishedWithin, NoFetch
  <1>2. ASSUME NEW r \in Request, Step(r) PROVE IndInv'
    BY <1>2, KeyStep, RefreshForUnknownKidStep, ForcedFetchDoneStep, RereadStep DEF Step
  <1>3. ASSUME NEW r \in Request, Disconnect(r) PROVE IndInv'
    BY <1>3, DisconnectStep
  <1>4. ASSUME NEW r \in Request, NEW k \in Kid, Verify(r, k) PROVE IndInv'
    BY <1>4, VerifyStep
  <1>5. CASE LoopStep
    BY <1>5, RefreshSoftIfDueStep, SoftFetchDoneStep DEF LoopStep
  <1>6. CASE Answer \/ Rotate \/ OutageChange \/ Tick
    BY <1>6, AnswerStep, RotateStep, OutageChangeStep, TickStep
  <1> QED
    BY <1>1, <1>2, <1>3, <1>4, <1>5, <1>6 DEF Next

\* The inductive invariant holds in every reachable state of the key cache.
THEOREM CacheInvariant == Spec => []IndInv
  BY InitIndInv, NextIndInv, PTL DEF Spec

\* Every reachable state of the key cache is type-correct, and the refresh
\* mutex is held by exactly the future that is inside a fetch.
THEOREM CacheTypes == Spec => []TypeOK
  <1>1. IndInv => TypeOK
    BY DEF IndInv
  <1> QED
    BY <1>1, CacheInvariant, PTL

\* A step by which key() returns Ok looks at a usable cache that has the key.
LEMMA OkIsFromUsableCache ==
    ASSUME IndInv, [Next]_vars, NEW r \in Request, Returns(r, "Ok")
    PROVE  CacheIsUsable /\ caller[r].kid \in cache.keys
  <1> USE DEF Returns
  <1>0. caller \in [Request -> Caller] /\ caller[r].pc # "Ok" /\ caller'[r].pc = "Ok"
    BY DEF IndInv, TypeOK
  <1>1. ASSUME NEW q \in Request, NEW pc, NEW failed, Goto(q, pc, failed), pc # "Ok" PROVE FALSE
    <2>1. caller'[q].pc = pc \/ caller'[r] = caller[r]
      BY <1>0, <1>1 DEF Goto, Caller
    <2>2. q # r => caller'[r] = caller[r]
      BY <1>0, <1>1 DEF Goto
    <2> QED
      BY <1>0, <1>1, <2>1, <2>2
  <1>2. ASSUME NEW q \in Request, NEW v, Return(q, v) PROVE q = r /\ v = "Ok"
    <2>1. [NoCall EXCEPT !.pc = v].pc = v
      BY DEF NoCall
    <2> QED
      BY <1>0, <1>2, <2>1 DEF Return
  <1>3. ASSUME UNCHANGED caller PROVE FALSE
    BY <1>0, <1>3
  <1>4. ASSUME NEW q \in Request, Key(q) PROVE CacheIsUsable /\ caller[r].kid \in cache.keys
    BY <1>1, <1>2, <1>4, "lock" # "Ok", "KeysUnavailable" # "Ok" DEF Key
  <1>5. ASSUME NEW q \in Request, Reread(q) PROVE CacheIsUsable /\ caller[r].kid \in cache.keys
    BY <1>2, <1>5, "Invalid" # "Ok", "KeysUnavailable" # "Ok" DEF Reread
  <1>6. ASSUME NEW q \in Request, RefreshForUnknownKid(q) \/ ForcedFetchDone(q) PROVE FALSE
    BY <1>1, <1>6, "reread" # "Ok", "fetch" # "Ok" DEF RefreshForUnknownKid, ForcedFetchDone
  <1>7. ASSUME NEW q \in Request, Disconnect(q) PROVE FALSE
    BY <1>2, <1>7, "idle" # "Ok" DEF Disconnect
  <1>8. ASSUME NEW q \in Request, NEW k \in Kid, Verify(q, k) PROVE FALSE
    BY <1>0, <1>8 DEF Verify
  <1>9. ASSUME LoopStep \/ Answer \/ Rotate \/ OutageChange \/ Tick \/ UNCHANGED vars PROVE FALSE
    BY <1>3, <1>9 DEF LoopStep, RefreshSoftIfDue, SoftFetchDone, Answer, Rotate, OutageChange,
                      Tick, vars
  <1> QED
    BY <1>4, <1>5, <1>6, <1>7, <1>8, <1>9 DEF Next, Step

\* A key that key() hands out is published, or was within the hard bound and
\* one fetch, for every timing and number of requests.
THEOREM WithdrawnKeys == Spec => WithdrawnKeysExpire
  <1>1. ASSUME IndInv, [Next]_vars, NEW r \in Request, Returns(r, "Ok")
        PROVE  caller[r].kid \in published \/ since[caller[r].kid] <= MaxStaleness + FetchTimeout
    <2>1. cache.age <= MaxStaleness /\ caller[r].kid \in cache.keys
      BY <1>1, OkIsFromUsableCache DEF CacheIsUsable
    <2>2. PublishedWithin(caller[r].kid, cache.age + FetchTimeout)
      BY <1>1, <2>1 DEF IndInv
    <2>3. cache.age \in Nat /\ caller[r].kid \in Kid
      BY <1>1, <2>1, PeriodAssumption DEF IndInv, TypeOK, HardStale
    <2>4. since[caller[r].kid] \in Nat
      BY <1>1, <2>3, PeriodAssumption DEF IndInv, TypeOK
    <2> QED
      BY <2>1, <2>2, <2>3, <2>4, PeriodAssumption DEF PublishedWithin
  <1>2. IndInv /\ [Next]_vars =>
            [\A r \in Request : Returns(r, "Ok") =>
                \/ caller[r].kid \in published
                \/ since[caller[r].kid] <= MaxStaleness + FetchTimeout]_vars
    BY <1>1
  <1> QED
    BY <1>2, CacheInvariant, PTL DEF Spec, WithdrawnKeysExpire

\* A fetch is sent for a request only when the last one was sent at least the
\* retry window before, for every number of requests and every disconnection.
THEOREM SpacedFetches == Spec => ForcedFetchesAreSpaced
  <1>1. ASSUME IndInv, [Next]_vars, NEW r \in Request, lock # r, lock' = r
        PROVE  polled >= Retry
    <2>1. r # "nobody" /\ r # "loop" /\ lock' # lock
      BY <1>1, PeriodAssumption
    <2>2. ASSUME NEW q \in Request, RefreshForUnknownKid(q) PROVE polled >= Retry
      <3>1. ~AttemptedRecently(refresh.forcedAge)
        BY <2>1, <2>2 DEF RefreshForUnknownKid
      <3> QED
        BY <1>1, <3>1, PeriodAssumption DEF AttemptedRecently, IndInv, TypeOK
    <2>3. ASSUME \/ \E q \in Request : Key(q) \/ ForcedFetchDone(q) \/ Reread(q) \/ Disconnect(q)
                 \/ \E q \in Request, k \in Kid : Verify(q, k)
          PROVE  FALSE
      BY <1>1, <2>1, <2>3 DEF Key, ForcedFetchDone, StoreKeys, Reread, Disconnect, Verify
    <2>4. ASSUME LoopStep \/ Answer \/ Rotate \/ OutageChange \/ Tick \/ UNCHANGED vars
          PROVE  FALSE
      BY <1>1, <2>1, <2>4 DEF LoopStep, RefreshSoftIfDue, StartFetch, SoftFetchDone, StoreKeys,
                              Answer, Rotate, OutageChange, Tick, vars
    <2> QED
      BY <1>1, <2>2, <2>3, <2>4 DEF Next, Step
  <1>2. IndInv /\ [Next]_vars =>
            [\A r \in Request : lock # r /\ lock' = r => polled >= Retry]_vars
    BY <1>1
  <1> QED
    BY <1>2, CacheInvariant, PTL DEF Spec, ForcedFetchesAreSpaced

-----------------------------------------------------------------------------
(* Informed refusals.                                                       *)

\* The types the steps below rely on.
LEMMA CacheShapes ==
    ASSUME IndInv
    PROVE  /\ cache.keys \subseteq Kid /\ cache.age \in Nat
           /\ refresh.forcedAge \in 0 .. Retry /\ refresh.softAge \in 0 .. Retry
           /\ fetch.keys \subseteq Kid /\ fetch.age \in 0 .. FetchTimeout
           /\ caller \in [Request -> Caller] /\ lock \in Request \cup {"loop", "nobody"}
           /\ since \in [Kid -> Nat] /\ healthyFor \in Nat /\ loop \in 0 .. Retry
           /\ Retry \in Nat \ {0} /\ FetchTimeout \in Nat /\ SoftRefresh \in Nat \ {0}
           /\ MaxStaleness \in Nat \ {0}
           /\ "loop" \notin Request /\ "nobody" \notin Request
<1> USE PeriodAssumption
<1>1. cache.keys \subseteq Kid /\ cache.age \in Nat
  BY DEF IndInv, TypeOK, HardStale
<1>2. since \in [Kid -> Nat] /\ healthyFor \in Nat
  BY DEF IndInv, TypeOK
<1> QED
  BY <1>1, <1>2 DEF IndInv, TypeOK

\* Who was told too little for a refusal stays so for longer.
LEMMA UnpublishedLonger ==
    ASSUME IndInv, NEW k \in Kid, NEW s \in Nat, NEW t \in Nat, s <= t, UnpublishedWithin(k, s)
    PROVE  UnpublishedWithin(k, t)
<1>1. since[k] \in Nat
  BY CacheShapes
<1> QED
  BY <1>1 DEF UnpublishedWithin

\* The step of a request that leaves the cache and the fetches alone; one that
\* goes on to look again knows why.
LEMMA InformedCaller ==
    ASSUME InformedInv, IndInv', NEW r \in Request,
           \A q \in Request \ {r} : caller'[q] = caller[q],
           \/ caller'[r].pc # "reread"
           \/ caller'[r].failed
           \/ caller'[r].kid \in cache.keys
           \/ UnpublishedWithin(caller'[r].kid, Retry + FetchTimeout),
           UNCHANGED <<cache, refresh, lock, fetch, published, since>>
    PROVE  InformedInv'
<1>1. AnswersAreComplete' /\ RateLimitIsInformed'
  BY DEF InformedInv, AnswersAreComplete, RateLimitIsInformed, UnpublishedWithin, AttemptedRecently
<1>2. RereadsAreInformed'
  BY DEF InformedInv, RereadsAreInformed, UnpublishedWithin
<1> QED
  BY <1>1, <1>2 DEF InformedInv

\* What a caller is left with.
LEMMA CallerMoves ==
    ASSUME IndInv, NEW r \in Request
    PROVE  /\ \A pc, failed : Goto(r, pc, failed) =>
                 /\ \A q \in Request \ {r} : caller'[q] = caller[q]
                 /\ caller'[r].pc = pc /\ caller'[r].failed = failed
                 /\ caller'[r].kid = caller[r].kid
           /\ \A verdict : Return(r, verdict) =>
                 /\ \A q \in Request \ {r} : caller'[q] = caller[q]
                 /\ caller'[r].pc = verdict
<1>1. caller \in [Request -> Caller] /\ caller[r] \in Caller
  BY CacheShapes
<1>2. ASSUME NEW pc, NEW failed, Goto(r, pc, failed)
      PROVE  /\ \A q \in Request \ {r} : caller'[q] = caller[q]
             /\ caller'[r].pc = pc /\ caller'[r].failed = failed
             /\ caller'[r].kid = caller[r].kid
  BY <1>1, <1>2 DEF Goto, Caller
<1>3. ASSUME NEW verdict, Return(r, verdict)
      PROVE  /\ \A q \in Request \ {r} : caller'[q] = caller[q]
             /\ caller'[r].pc = verdict
  BY <1>1, <1>3 DEF Return, NoCall
<1> QED
  BY <1>2, <1>3

LEMMA InformedLook ==
    ASSUME InformedInv, IndInv', NEW r \in Request,
           Key(r) \/ Reread(r) \/ \E k \in Kid : Verify(r, k)
    PROVE  InformedInv'
<1>1. UNCHANGED <<cache, refresh, lock, fetch, published, since>>
  BY DEF Key, Reread, Verify, issuer
<1>2. IndInv
  BY DEF InformedInv
<1>3. /\ \A q \in Request \ {r} : caller'[q] = caller[q]
      /\ caller'[r].pc \in {"read", "lock"} \cup Verdict
  <2>1. CASE Key(r)
    BY <1>2, <2>1, CallerMoves DEF Key, Verdict
  <2>2. CASE Reread(r)
    BY <1>2, <2>2, CallerMoves DEF Reread, Verdict
  <2>3. CASE \E k \in Kid : Verify(r, k)
    BY <1>2, <2>3, CacheShapes DEF Verify
  <2> QED
    BY <2>1, <2>2, <2>3
<1>4. caller'[r].pc # "reread"
  BY <1>3 DEF Verdict
<1> QED
  BY <1>1, <1>3, <1>4, InformedCaller

\* A request that is rate-limited relies on the refresh before it.
LEMMA InformedRefresh ==
    ASSUME InformedInv, IndInv', NEW r \in Request, RefreshForUnknownKid(r)
    PROVE  InformedInv'
<1>0. IndInv /\ lock = "nobody" /\ UNCHANGED <<cache, published, since>>
  BY DEF InformedInv, RefreshForUnknownKid, issuer
<1>1. caller[r].kid \in Kid
  BY <1>0, CacheShapes DEF Caller
<1>2. CASE /\ caller[r].kid \in cache.keys /\ Goto(r, "reread", FALSE)
           /\ UNCHANGED <<refresh, lock, fetch, polled>>
  BY <1>0, <1>2, CallerMoves, InformedCaller
<1>3. CASE /\ caller[r].kid \notin cache.keys /\ AttemptedRecently(refresh.forcedAge)
           /\ Goto(r, "reread", refresh.forcedFailed) /\ UNCHANGED <<refresh, lock, fetch, polled>>
  <2>1. /\ \A q \in Request \ {r} : caller'[q] = caller[q]
        /\ caller'[r].failed = refresh.forcedFailed /\ caller'[r].kid = caller[r].kid
    BY <1>0, <1>3, CallerMoves
  <2>2. ASSUME ~refresh.forcedFailed PROVE UnpublishedWithin(caller[r].kid, Retry + FetchTimeout)
    <3>1. UnpublishedWithin(caller[r].kid, refresh.forcedAge)
      BY <1>0, <1>1, <1>3, <2>2, CacheShapes DEF InformedInv, RateLimitIsInformed
    <3>2. refresh.forcedAge \in Nat /\ Retry + FetchTimeout \in Nat
          /\ refresh.forcedAge <= Retry + FetchTimeout
      BY <1>0, CacheShapes
    <3> QED
      BY <1>0, <1>1, <3>1, <3>2, UnpublishedLonger
  <2> QED
    BY <1>0, <1>3, <2>1, <2>2, InformedCaller
<1>4. CASE /\ StartFetch(r) /\ refresh' = [refresh EXCEPT !.forcedAge = 0]
           /\ Goto(r, "fetch", FALSE)
  <2>1. /\ \A q \in Request \ {r} : caller'[q] = caller[q]
        /\ caller'[r].pc = "fetch"
    BY <1>0, <1>4, CallerMoves
  <2>2. lock' = r /\ ~fetch'.answered /\ fetch'.age = 0
    BY <1>4 DEF StartFetch, NoFetch
  <2>3. refresh'.forcedAge \in Nat
    BY CacheShapes, <1>0, <1>4 DEF IndInv, TypeOK
  <2>4. AnswersAreComplete' /\ RateLimitIsInformed'
    BY <2>2, <2>3 DEF AnswersAreComplete, RateLimitIsInformed
  <2>5. RereadsAreInformed'
    BY <1>0, <2>1 DEF InformedInv, RereadsAreInformed, UnpublishedWithin
  <2> QED
    BY <2>4, <2>5 DEF InformedInv
<1> QED
  BY <1>0, <1>2, <1>3, <1>4 DEF RefreshForUnknownKid

\* A fetch ends: what is not in the new cache was unpublished while it lasted.
LEMMA InformedStore ==
    ASSUME InformedInv, StoreKeys, UNCHANGED <<published, since>>,
           refresh'.forcedAge = refresh.forcedAge
    PROVE  /\ AnswersAreComplete'
           /\ fetch.keys # {} =>
                /\ AttemptedRecently(refresh.forcedAge) /\ lock # "nobody" =>
                      \A k \in Kid \ cache'.keys : UnpublishedWithin(k, refresh.forcedAge)
                /\ \A k \in Kid \ cache'.keys : UnpublishedWithin(k, Retry + FetchTimeout)
           /\ fetch.keys = {} => cache' = cache
<1>0. IndInv
  BY DEF InformedInv
<1>1. AnswersAreComplete'
  <2>1. lock' = "nobody" /\ ~fetch'.answered
    BY DEF StoreKeys, NoFetch
  <2> QED
    BY <2>1 DEF AnswersAreComplete
<1>2. ASSUME fetch.keys # {}, NEW k \in Kid \ cache'.keys
      PROVE  /\ AttemptedRecently(refresh.forcedAge) /\ lock # "nobody" =>
                    UnpublishedWithin(k, refresh.forcedAge)
             /\ UnpublishedWithin(k, Retry + FetchTimeout)
  <2>1. cache'.keys = fetch.keys /\ fetch.answered
    BY <1>2 DEF StoreKeys
  <2>2. UnpublishedWithin(k, fetch.age)
    BY <1>2, <2>1 DEF InformedInv, AnswersAreComplete
  <2>3. /\ fetch.age \in Nat /\ refresh.forcedAge \in Nat /\ Retry + FetchTimeout \in Nat
        /\ fetch.age <= Retry + FetchTimeout
    BY <1>0, CacheShapes
  <2>4. AttemptedRecently(refresh.forcedAge) /\ lock # "nobody" => fetch.age <= refresh.forcedAge
    BY DEF InformedInv, AnswersAreComplete
  <2> QED
    BY <1>0, <2>2, <2>3, <2>4, UnpublishedLonger
<1>3. fetch.keys = {} => cache' = cache
  BY DEF StoreKeys
<1> QED
  BY <1>1, <1>2, <1>3

LEMMA InformedForcedDone ==
    ASSUME InformedInv, IndInv', NEW r \in Request, ForcedFetchDone(r)
    PROVE  InformedInv'
<1>0. IndInv /\ lock = r /\ UNCHANGED <<published, since>> /\ StoreKeys
  BY DEF InformedInv, ForcedFetchDone, issuer
<1>1. refresh'.forcedAge = refresh.forcedAge /\ refresh'.forcedFailed = (fetch.keys = {})
  BY <1>0 DEF ForcedFetchDone, IndInv, TypeOK
<1>2. /\ \A q \in Request \ {r} : caller'[q] = caller[q]
      /\ caller'[r].failed = (fetch.keys = {})
  BY <1>0, CallerMoves DEF ForcedFetchDone
<1>3. lock # "nobody"
  BY <1>0, CacheShapes
<1>4. AnswersAreComplete'
  BY <1>0, <1>1, InformedStore
<1>5. RateLimitIsInformed'
  <2>1. CASE fetch.keys = {}
    BY <1>1, <2>1 DEF RateLimitIsInformed
  <2>2. CASE fetch.keys # {}
    BY <1>0, <1>1, <1>3, <2>2, InformedStore DEF RateLimitIsInformed, UnpublishedWithin, AttemptedRecently
  <2> QED
    BY <2>1, <2>2
<1>6. RereadsAreInformed'
  <2>1. CASE fetch.keys = {}
    <3>1. cache' = cache
      BY <1>0, <2>1 DEF StoreKeys
    <3>2. caller'[r].failed
      BY <1>2, <2>1
    <3> QED
      BY <1>0, <1>2, <3>1, <3>2 DEF InformedInv, RereadsAreInformed, UnpublishedWithin
  <2>2. CASE fetch.keys # {}
    <3>1. \A k \in Kid \ cache'.keys : UnpublishedWithin(k, Retry + FetchTimeout)
      BY <1>0, <1>1, <2>2, InformedStore
    <3>2. \A q \in Request : caller'[q].kid \in Kid
      BY DEF IndInv, TypeOK, Caller
    <3> QED
      BY <1>0, <3>1, <3>2 DEF RereadsAreInformed, UnpublishedWithin
  <2> QED
    BY <2>1, <2>2
<1> QED
  BY <1>4, <1>5, <1>6 DEF InformedInv

LEMMA InformedSoftDone ==
    ASSUME InformedInv, IndInv', SoftFetchDone
    PROVE  InformedInv'
<1>0. /\ IndInv /\ lock = "loop" /\ UNCHANGED <<published, since, refresh, caller>> /\ StoreKeys
      /\ refresh'.forcedAge = refresh.forcedAge
  BY DEF InformedInv, SoftFetchDone, issuer
<1>1. lock # "nobody" /\ lock \notin Request
  BY <1>0, CacheShapes
<1>2. AnswersAreComplete'
  BY <1>0, InformedStore
<1>3. CASE fetch.keys = {}
  <2>1. cache' = cache
    BY <1>0, <1>3 DEF StoreKeys
  <2> QED
    BY <1>0, <1>1, <1>2, <2>1
    DEF InformedInv, RateLimitIsInformed, RereadsAreInformed, UnpublishedWithin, AttemptedRecently
<1>4. CASE fetch.keys # {}
  <2>1. /\ AttemptedRecently(refresh.forcedAge) =>
              \A k \in Kid \ cache'.keys : UnpublishedWithin(k, refresh.forcedAge)
        /\ \A k \in Kid \ cache'.keys : UnpublishedWithin(k, Retry + FetchTimeout)
    BY <1>0, <1>1, <1>4, InformedStore
  <2>2. RateLimitIsInformed'
    BY <1>0, <2>1 DEF RateLimitIsInformed, UnpublishedWithin, AttemptedRecently
  <2>3. \A q \in Request : caller[q].kid \in Kid
    BY <1>0, CacheShapes DEF Caller
  <2>4. RereadsAreInformed'
    BY <1>0, <2>1, <2>3 DEF RereadsAreInformed, UnpublishedWithin
  <2> QED
    BY <1>2, <2>2, <2>4 DEF InformedInv
<1> QED
  BY <1>3, <1>4

LEMMA InformedSoftRefresh ==
    ASSUME InformedInv, IndInv', RefreshSoftIfDue
    PROVE  InformedInv'
<1>0. IndInv /\ lock = "nobody" /\ UNCHANGED <<cache, caller, published, since>>
  BY DEF InformedInv, RefreshSoftIfDue, issuer
<1>1. RereadsAreInformed'
  BY <1>0 DEF InformedInv, RereadsAreInformed, UnpublishedWithin
<1>2. CASE UNCHANGED <<refresh, lock, fetch>>
  BY <1>0, <1>1, <1>2
  DEF InformedInv, AnswersAreComplete, RateLimitIsInformed, UnpublishedWithin, AttemptedRecently
<1>3. CASE StartFetch("loop") /\ refresh' = [refresh EXCEPT !.softAge = 0]
  <2>1. ~fetch'.answered /\ fetch'.age = 0 /\ lock' = "loop"
    BY <1>3 DEF StartFetch, NoFetch
  <2>2. /\ refresh'.forcedAge = refresh.forcedAge /\ refresh'.forcedFailed = refresh.forcedFailed
        /\ refresh.forcedAge \in Nat
    BY <1>0, <1>3, CacheShapes DEF IndInv, TypeOK
  <2>3. AnswersAreComplete'
    BY <2>1, <2>2 DEF AnswersAreComplete
  <2>4. RateLimitIsInformed'
    BY <1>0, <2>2, CacheShapes DEF InformedInv, RateLimitIsInformed, UnpublishedWithin, AttemptedRecently
  <2> QED
    BY <1>1, <2>3, <2>4 DEF InformedInv
<1> QED
  BY <1>2, <1>3 DEF RefreshSoftIfDue

LEMMA InformedIssuer ==
    ASSUME InformedInv, IndInv', Answer \/ Rotate \/ OutageChange
    PROVE  InformedInv'
<1>0. IndInv /\ UNCHANGED <<cache, refresh, lock, caller>>
  BY DEF InformedInv, Answer, Rotate, OutageChange
<1>1. ASSUME NEW k \in Kid, NEW s \in Nat, UnpublishedWithin(k, s) PROVE UnpublishedWithin(k, s)'
  <2>1. CASE Rotate
    BY <1>1, <2>1, CacheShapes DEF Rotate, UnpublishedWithin
  <2>2. CASE Answer \/ OutageChange
    BY <1>1, <2>2 DEF Answer, OutageChange, issuer, UnpublishedWithin
  <2> QED
    BY <2>1, <2>2
<1>2. refresh.forcedAge \in Nat /\ Retry + FetchTimeout \in Nat /\ fetch.age \in Nat
  BY <1>0, CacheShapes
<1>3. RateLimitIsInformed'
  BY <1>0, <1>1, <1>2 DEF InformedInv, RateLimitIsInformed, AttemptedRecently
<1>4. \A q \in Request : caller[q].kid \in Kid
  BY <1>0, CacheShapes DEF Caller
<1>5. RereadsAreInformed'
  BY <1>0, <1>1, <1>2, <1>4 DEF InformedInv, RereadsAreInformed
<1>6. AnswersAreComplete'
  <2>1. CASE Answer
    <3>1. /\ fetch'.age = fetch.age /\ UNCHANGED <<published, since>>
          /\ fetch'.keys = IF outage THEN {} ELSE published
      BY <1>0, <2>1 DEF Answer, issuer, IndInv, TypeOK
    <3> QED
      BY <1>0, <3>1 DEF InformedInv, AnswersAreComplete, UnpublishedWithin, AttemptedRecently
  <2>2. CASE Rotate \/ OutageChange
    <3>1. fetch' = fetch
      BY <2>2 DEF Rotate, OutageChange
    <3> QED
      BY <1>0, <1>1, <1>2, <3>1 DEF InformedInv, AnswersAreComplete, AttemptedRecently
  <2> QED
    BY <2>1, <2>2
<1> QED
  BY <1>3, <1>5, <1>6 DEF InformedInv

\* How the ages grow in a second.
LEMMA TickAges ==
    ASSUME IndInv, Tick
    PROVE  /\ UNCHANGED <<lock, caller, published, outage>>
           /\ cache'.keys = cache.keys /\ cache'.age <= cache.age + 1
           /\ refresh'.forcedFailed = refresh.forcedFailed
           /\ refresh'.forcedAge = Older(refresh.forcedAge, Retry)
           /\ refresh'.softAge = Older(refresh.softAge, Retry)
           /\ fetch'.keys = fetch.keys /\ fetch'.answered = fetch.answered
           /\ fetch'.age = IF lock = "nobody" THEN 0 ELSE fetch.age + 1
           /\ \A k \in Kid : since'[k] \in Nat /\ since'[k] <= since[k] + 1
           /\ healthyFor' <= healthyFor + 1
<1> USE PeriodAssumption
<1>1. /\ cache \in [keys : SUBSET Kid, age : 0 .. HardStale] /\ HardStale \in Nat
      /\ refresh \in [softAge : 0 .. Retry, forcedAge : 0 .. Retry, forcedFailed : BOOLEAN]
      /\ fetch \in [answered : BOOLEAN, keys : SUBSET Kid, age : 0 .. FetchTimeout]
      /\ since \in [Kid -> 0 .. KeyMemory] /\ healthyFor \in 0 .. HealthMemory
  BY DEF IndInv, TypeOK, HardStale
<1>2. UNCHANGED <<lock, caller, published, outage>>
  BY DEF Tick
<1>3. cache'.keys = cache.keys /\ cache'.age = Older(cache.age, HardStale)
  BY <1>1 DEF Tick
<1>4. cache'.age <= cache.age + 1
  <2>1. cache.age \in 0 .. HardStale
    BY <1>1
  <2> QED
    BY <1>1, <1>3, <2>1 DEF Older
<1>5. /\ refresh'.forcedFailed = refresh.forcedFailed
      /\ refresh'.forcedAge = Older(refresh.forcedAge, Retry)
      /\ refresh'.softAge = Older(refresh.softAge, Retry)
  BY <1>1 DEF Tick
<1>6. /\ fetch'.keys = fetch.keys /\ fetch'.answered = fetch.answered
      /\ fetch'.age = IF lock = "nobody" THEN 0 ELSE fetch.age + 1
  BY <1>1 DEF Tick
<1>7. ASSUME NEW k \in Kid PROVE since'[k] \in Nat /\ since'[k] <= since[k] + 1
  BY <1>1, OlderType DEF Tick
<1>8. healthyFor' <= healthyFor + 1
  BY <1>1, OlderType DEF Tick
<1> QED
  BY <1>2, <1>3, <1>4, <1>5, <1>6, <1>7, <1>8

LEMMA InformedTick ==
    ASSUME InformedInv, IndInv', Tick
    PROVE  InformedInv'
<1>0. IndInv
  BY DEF InformedInv
<1>2. ASSUME AttemptedRecently(refresh.forcedAge)'
      PROVE  AttemptedRecently(refresh.forcedAge) /\ refresh'.forcedAge = refresh.forcedAge + 1
  <2>1. refresh'.forcedAge = Older(refresh.forcedAge, Retry) /\ refresh.forcedAge \in 0 .. Retry
        /\ Retry \in Nat
    BY <1>0, TickAges, CacheShapes
  <2>2. refresh'.forcedAge < Retry
    BY <1>2 DEF AttemptedRecently
  <2> QED
    BY <2>1, <2>2 DEF AttemptedRecently, Older
<1>3. AnswersAreComplete'
  <2>1. ASSUME fetch'.answered, fetch'.keys # {}, NEW k \in Kid \ fetch'.keys
        PROVE  UnpublishedWithin(k, fetch.age)'
    <3>1. lock # "nobody"
      <4>1. fetch.keys # {}
        BY <1>0, <2>1, TickAges
      <4>2. lock = "nobody" => fetch.keys = {}
        BY <1>0 DEF IndInv, NoFetch
      <4> QED
        BY <4>1, <4>2
    <3>2. fetch'.age = fetch.age + 1 /\ fetch.age \in Nat
      BY <1>0, <3>1, TickAges, CacheShapes
    <3>3. UnpublishedWithin(k, fetch.age)
      BY <1>0, <2>1, TickAges DEF InformedInv, AnswersAreComplete
    <3> QED
      BY <1>0, <3>2, <3>3, TickAges, CacheShapes DEF UnpublishedWithin
  <2>2. ASSUME lock' # "nobody", AttemptedRecently(refresh.forcedAge)'
        PROVE  fetch'.age <= refresh'.forcedAge
    <3>1. lock # "nobody" /\ fetch'.age = fetch.age + 1
      BY <1>0, <2>2, TickAges
    <3>2. fetch.age <= refresh.forcedAge /\ refresh'.forcedAge = refresh.forcedAge + 1
      BY <1>2, <2>2, <3>1 DEF InformedInv, AnswersAreComplete
    <3> QED
      BY <1>0, <3>1, <3>2, CacheShapes
  <2> QED
    BY <2>1, <2>2 DEF AnswersAreComplete
<1>4. RateLimitIsInformed'
  <2> SUFFICES ASSUME lock' \notin Request, AttemptedRecently(refresh.forcedAge)',
                      ~refresh'.forcedFailed, NEW k \in Kid \ cache'.keys
               PROVE  UnpublishedWithin(k, refresh.forcedAge)'
    BY DEF RateLimitIsInformed
  <2>1. UnpublishedWithin(k, refresh.forcedAge)
    BY <1>0, <1>2, TickAges DEF InformedInv, RateLimitIsInformed
  <2>2. refresh.forcedAge \in Nat /\ refresh'.forcedAge = refresh.forcedAge + 1
    BY <1>0, <1>2, CacheShapes
  <2> QED
    BY <1>0, <2>1, <2>2, TickAges, CacheShapes DEF UnpublishedWithin
<1>5. RereadsAreInformed'
  <2>1. \A q \in Request : caller[q].pc # "reread" /\ caller' = caller
    BY DEF Tick, Runnable
  <2> QED
    BY <2>1 DEF RereadsAreInformed
<1> QED
  BY <1>3, <1>4, <1>5 DEF InformedInv

\* A step by which key() returns Invalid looks at the cache again, and the
\* refresh it relies on did not fail.
LEMMA InvalidIsFromReread ==
    ASSUME IndInv, Next, NEW r \in Request, Returns(r, "Invalid")
    PROVE  caller[r].pc = "reread" /\ ~caller[r].failed /\ caller[r].kid \notin cache.keys
<1>0. caller \in [Request -> Caller] /\ caller[r].pc # "Invalid" /\ caller'[r].pc = "Invalid"
  BY CacheShapes DEF Returns
<1>1. ASSUME NEW q \in Request, NEW pc, NEW failed, Goto(q, pc, failed), pc # "Invalid" PROVE FALSE
  BY <1>0, <1>1, CallerMoves
<1>2. ASSUME NEW q \in Request, NEW v, Return(q, v) PROVE q = r /\ v = "Invalid"
  BY <1>0, <1>2, CallerMoves
<1>3. ASSUME UNCHANGED caller PROVE FALSE
  BY <1>0, <1>3
<1>4. ASSUME NEW q \in Request, Key(q) PROVE FALSE
  BY <1>1, <1>2, <1>4, "lock" # "Invalid", "KeysUnavailable" # "Invalid", "Ok" # "Invalid" DEF Key
<1>5. ASSUME NEW q \in Request, Reread(q)
      PROVE  caller[r].pc = "reread" /\ ~caller[r].failed /\ caller[r].kid \notin cache.keys
  BY <1>2, <1>5, "Ok" # "Invalid", "KeysUnavailable" # "Invalid" DEF Reread
<1>6. ASSUME NEW q \in Request, RefreshForUnknownKid(q) \/ ForcedFetchDone(q) PROVE FALSE
  BY <1>1, <1>6, "reread" # "Invalid", "fetch" # "Invalid" DEF RefreshForUnknownKid, ForcedFetchDone
<1>7. ASSUME NEW q \in Request, Disconnect(q) PROVE FALSE
  BY <1>2, <1>7, "idle" # "Invalid" DEF Disconnect
<1>8. ASSUME NEW q \in Request, NEW k \in Kid, Verify(q, k) PROVE FALSE
  BY <1>0, <1>8 DEF Verify
<1>9. ASSUME LoopStep \/ Answer \/ Rotate \/ OutageChange \/ Tick PROVE FALSE
  BY <1>3, <1>9 DEF LoopStep, RefreshSoftIfDue, SoftFetchDone, Answer, Rotate, OutageChange, Tick
<1> QED
  BY <1>4, <1>5, <1>6, <1>7, <1>8, <1>9 DEF Next, Step

(***************************************************************************)
(* While clients stay connected, a rate-limited or shared refresh never    *)
(* turns a key that has been published for longer than the retry window    *)
(* and a fetch into a denial, for every number of requests and every       *)
(* timing.  (A request that is dropped during its fetch leaves the time of *)
(* its attempt behind, and not that it has failed.)                        *)
(***************************************************************************)
THEOREM InformedDenials ==
    ASSUME ~Disconnects
    PROVE  Spec => RefusalsAreInformed
<1>1. Init => InformedInv
  <2> SUFFICES ASSUME Init PROVE InformedInv
    OBVIOUS
  <2>1. ~fetch.answered /\ lock = "nobody" /\ ~AttemptedRecently(refresh.forcedAge)
        /\ \A r \in Request : caller[r].pc # "reread"
    BY PeriodAssumption DEF Init, NoFetch, NoCall, AttemptedRecently
  <2> QED
    BY <2>1, InitIndInv
    DEF InformedInv, AnswersAreComplete, RateLimitIsInformed, RereadsAreInformed
<1>2. InformedInv /\ [Next]_vars => InformedInv'
  <2> SUFFICES ASSUME InformedInv, [Next]_vars PROVE InformedInv'
    OBVIOUS
  <2>1. IndInv'
    BY NextIndInv DEF InformedInv
  <2>2. CASE UNCHANGED vars
    BY <2>1, <2>2 DEF vars, InformedInv, AnswersAreComplete, RateLimitIsInformed,
                      RereadsAreInformed, UnpublishedWithin, AttemptedRecently
  <2>3. ASSUME NEW r \in Request, Step(r) \/ \E k \in Kid : Verify(r, k) PROVE InformedInv'
    BY <2>1, <2>3, InformedLook, InformedRefresh, InformedForcedDone DEF Step
  <2>4. \A r \in Request : ~Disconnect(r)
    BY DEF Disconnect
  <2>5. CASE LoopStep
    BY <2>1, <2>5, InformedSoftRefresh, InformedSoftDone DEF LoopStep
  <2>6. CASE Answer \/ Rotate \/ OutageChange \/ Tick
    BY <2>1, <2>6, InformedIssuer, InformedTick
  <2> QED
    BY <2>2, <2>3, <2>4, <2>5, <2>6 DEF Next
<1>3. InformedInv /\ [Next]_vars =>
        [\A r \in Request : Returns(r, "Invalid") =>
            \/ caller[r].kid \notin published
            \/ since[caller[r].kid] <= Retry + FetchTimeout]_vars
  <2> SUFFICES ASSUME InformedInv, Next, NEW r \in Request, Returns(r, "Invalid")
               PROVE  UnpublishedWithin(caller[r].kid, Retry + FetchTimeout)
    BY DEF UnpublishedWithin
  <2>1. caller[r].pc = "reread" /\ ~caller[r].failed /\ caller[r].kid \notin cache.keys
    BY InvalidIsFromReread DEF InformedInv
  <2> QED
    BY <2>1 DEF InformedInv, RereadsAreInformed
<1> QED
  BY <1>1, <1>2, <1>3, PTL DEF Spec, RefusalsAreInformed

-----------------------------------------------------------------------------
(* Readiness while the issuer is healthy.                                   *)

\* Where the loop stands.
SinceCheckIs ==
    /\ lock = "loop" => SinceCheck = Retry + FetchTimeout + fetch.age
    /\ lock # "loop" /\ loop > 0 => SinceCheck = Retry - loop
    /\ lock \in Request /\ loop = 0 => SinceCheck = Retry + fetch.age
    /\ lock = "nobody" /\ loop = 0 /\ AttemptedRecently(refresh.forcedAge) =>
          SinceCheck = Retry + FetchTimeout
    /\ lock = "nobody" /\ loop = 0 /\ ~AttemptedRecently(refresh.forcedAge) =>
          SinceCheck = Retry
    /\ SinceCheck \in 0 .. Retry + 2 * FetchTimeout
    /\ cache.age \in Nat /\ healthyFor \in Nat /\ loop \in 0 .. Retry

LEMMA SinceCheckCases == IndInv => SinceCheckIs
<1> SUFFICES ASSUME IndInv PROVE SinceCheckIs
  OBVIOUS
<1>1. lock \in Request \cup {"loop", "nobody"} /\ "loop" \notin Request /\ "nobody" \notin Request
      /\ loop \in 0 .. Retry /\ fetch.age \in 0 .. FetchTimeout /\ Retry \in Nat /\ FetchTimeout \in Nat
  BY CacheShapes
<1>2. lock = "loop" => SinceCheck = Retry + FetchTimeout + fetch.age
  BY <1>1 DEF SinceCheck
<1>3. lock # "loop" /\ loop > 0 => SinceCheck = Retry - loop
  BY <1>1 DEF SinceCheck
<1>4. lock \in Request /\ loop = 0 => SinceCheck = Retry + fetch.age
  BY <1>1 DEF SinceCheck
<1>5. lock = "nobody" /\ loop = 0 =>
        SinceCheck = IF AttemptedRecently(refresh.forcedAge) THEN Retry + FetchTimeout ELSE Retry
  BY <1>1 DEF SinceCheck
<1>6. SinceCheck \in 0 .. Retry + 2 * FetchTimeout
  BY <1>1, <1>2, <1>3, <1>4, <1>5
<1> QED
  BY <1>2, <1>3, <1>4, <1>5, <1>6, CacheShapes DEF SinceCheckIs

\* The same after a step.
LEMMA SinceCheckNext == IndInv' => SinceCheckIs'
BY SinceCheckCases, PTL

\* The loop falls behind no faster than time passes.
LEMMA TimelyGrows ==
    ASSUME IndInv, IndInv', ChecksAreTimely, NEW d \in {0, 1},
           SinceCheck' >= SinceCheck + d, cache'.age <= cache.age + d,
           healthyFor' <= healthyFor + d, cache'.keys # {}
    PROVE  ChecksAreTimely'
<1>1. /\ SinceCheck \in Nat /\ SinceCheck' \in Nat /\ cache.age \in Nat /\ cache'.age \in Nat
      /\ healthyFor \in Nat /\ healthyFor' \in Nat /\ SoftRefresh \in Nat /\ FetchTimeout \in Nat
  BY SinceCheckCases, SinceCheckNext, CacheShapes DEF SinceCheckIs
<1>2. CASE cache.age < SoftRefresh + SinceCheck
  <2>1. cache'.age < SoftRefresh + SinceCheck'
    BY <1>1, <1>2
  <2> QED
    BY <2>1 DEF ChecksAreTimely
<1>3. CASE healthyFor <= FetchTimeout + SinceCheck
  <2>1. PICK s \in Nat, t \in Nat : s = SinceCheck /\ t = SinceCheck'
    BY <1>1
  <2>2. healthyFor <= FetchTimeout + s /\ t >= s + d
    BY <1>3, <2>1
  <2>3. healthyFor' <= FetchTimeout + t
    BY <1>1, <2>2
  <2> QED
    BY <2>1, <2>3 DEF ChecksAreTimely
<1> QED
  BY <1>2, <1>3 DEF ChecksAreTimely

\* A check is made and leaves a young cache, or a sick issuer.
LEMMA TimelyAgain ==
    ASSUME IndInv, IndInv', cache'.keys # {},
           cache'.age < SoftRefresh \/ healthyFor' <= FetchTimeout
    PROVE  ChecksAreTimely'
<1>1. /\ SinceCheck' \in Nat /\ cache'.age \in Nat /\ healthyFor' \in Nat
      /\ SoftRefresh \in Nat /\ FetchTimeout \in Nat
  BY SinceCheckNext, CacheShapes DEF SinceCheckIs
<1>0. \A x, a, b \in Nat : (x < a => x < a + b) /\ (x <= a => x <= a + b)
  OBVIOUS
<1>2. cache'.age < SoftRefresh => cache'.age < SoftRefresh + SinceCheck'
  BY <1>0, <1>1, Zenon
<1>3. healthyFor' <= FetchTimeout => healthyFor' <= FetchTimeout + SinceCheck'
  BY <1>0, <1>1, Zenon
<1> QED
  BY <1>2, <1>3 DEF ChecksAreTimely

\* The steps of a request that leave the fetches alone.
LEMMA ReadyLook ==
    ASSUME ReadyInv, IndInv',
           UNCHANGED <<cache, refresh, lock, fetch, loop, published, outage, healthyFor>>
    PROVE  ReadyInv'
BY DEF ReadyInv, AttemptsAreTimed, HealthIsTimed, ChecksAreTimely, SinceCheck, Healthy,
       AttemptedRecently

\* A request sends its fetch, before the loop perhaps.
LEMMA ReadyForcedFetch ==
    ASSUME ReadyInv, IndInv', NEW r \in Request, StartFetch(r),
           refresh' = [refresh EXCEPT !.forcedAge = 0], ~AttemptedRecently(refresh.forcedAge),
           UNCHANGED <<cache, loop, published, outage, healthyFor>>
    PROVE  ReadyInv'
<1>0. IndInv
  BY DEF ReadyInv
<1>1. /\ lock = "nobody" /\ lock' = r /\ fetch'.age = 0 /\ ~fetch'.answered
      /\ refresh'.forcedAge = 0 /\ refresh'.softAge = refresh.softAge
      /\ r # "loop" /\ r # "nobody"
  BY <1>0, CacheShapes DEF StartFetch, NoFetch, IndInv, TypeOK
<1>2. AttemptsAreTimed'
  BY <1>1 DEF ReadyInv, AttemptsAreTimed
<1>3. HealthIsTimed'
  BY <1>1 DEF ReadyInv, HealthIsTimed, Healthy
<1>4. SinceCheck' >= SinceCheck + 0
  <2>1. /\ loop > 0 => SinceCheck = Retry - loop /\ SinceCheck' = Retry - loop
        /\ loop = 0 => SinceCheck = Retry /\ SinceCheck' = Retry + 0
    BY <1>0, <1>1, SinceCheckCases, SinceCheckNext DEF SinceCheckIs
  <2>2. loop \in Nat /\ Retry \in Nat
    BY <1>0, CacheShapes
  <2> QED
    BY <2>1, <2>2
<1>5. ChecksAreTimely'
  <2>1. cache'.age <= cache.age + 0 /\ healthyFor' <= healthyFor + 0 /\ cache'.keys # {}
    BY <1>0, CacheShapes DEF ReadyInv, ChecksAreTimely
  <2> QED
    BY <1>0, <1>4, <2>1, TimelyGrows DEF ReadyInv
<1> QED
  BY <1>2, <1>3, <1>5 DEF ReadyInv

\* The fetch of a request ends or is dropped: the next one is rate-limited.
LEMMA ReadyForcedEnd ==
    ASSUME ReadyInv, IndInv', lock \in Request, lock' = "nobody", fetch' = NoFetch,
           refresh'.forcedAge = refresh.forcedAge, refresh'.softAge = refresh.softAge,
           cache' = cache \/ (cache'.age = 0 /\ cache'.keys # {}),
           UNCHANGED <<loop, published, outage, healthyFor>>
    PROVE  ReadyInv'
<1>0. IndInv
  BY DEF ReadyInv
<1>1. ~fetch'.answered /\ lock # "loop" /\ lock' # "loop" /\ lock' \notin Request
  BY <1>0, CacheShapes DEF NoFetch
<1>2. AttemptsAreTimed'
  BY <1>1 DEF ReadyInv, AttemptsAreTimed
<1>3. HealthIsTimed'
  BY <1>1 DEF ReadyInv, HealthIsTimed, Healthy
<1>4. AttemptedRecently(refresh.forcedAge)'
  <2>1. refresh.forcedAge = fetch.age /\ fetch.age \in 0 .. FetchTimeout
    BY <1>0, CacheShapes DEF ReadyInv, AttemptsAreTimed
  <2> QED
    BY <2>1, PeriodAssumption, StalenessAssumption DEF AttemptedRecently
<1>5. SinceCheck' >= SinceCheck + 0
  <2>1. /\ loop > 0 => SinceCheck = Retry - loop /\ SinceCheck' = Retry - loop
        /\ loop = 0 => SinceCheck = Retry + fetch.age /\ SinceCheck' = Retry + FetchTimeout
    BY <1>0, <1>1, <1>4, SinceCheckCases, SinceCheckNext DEF SinceCheckIs
  <2>2. loop \in Nat /\ Retry \in Nat /\ FetchTimeout \in Nat /\ fetch.age \in 0 .. FetchTimeout
    BY <1>0, CacheShapes
  <2> QED
    BY <2>1, <2>2
<1>6. ChecksAreTimely'
  <2>1. cache'.age <= cache.age + 0 /\ healthyFor' <= healthyFor + 0 /\ cache'.keys # {}
    BY <1>0, CacheShapes DEF ReadyInv, ChecksAreTimely
  <2> QED
    BY <1>0, <1>5, <2>1, TimelyGrows DEF ReadyInv
<1> QED
  BY <1>2, <1>3, <1>6 DEF ReadyInv

\* The loop wakes: it finds the cache young, or sends its fetch.
LEMMA ReadySoftRefresh ==
    ASSUME ReadyInv, IndInv', RefreshSoftIfDue
    PROVE  ReadyInv'
<1>0. /\ IndInv /\ loop = 0 /\ lock = "nobody"
      /\ UNCHANGED <<cache, published, outage, healthyFor>>
  BY DEF ReadyInv, RefreshSoftIfDue, issuer
<1>1. ~AttemptedRecently(refresh.softAge)
  BY <1>0, CacheShapes DEF ReadyInv, AttemptsAreTimed, AttemptedRecently
<1>2. cache.keys # {}
  BY DEF ReadyInv, ChecksAreTimely
<1>3. CASE cache.age < SoftRefresh /\ loop' = Retry /\ UNCHANGED <<refresh, lock, fetch>>
  <2>1. AttemptsAreTimed'
    BY <1>0, <1>3, CacheShapes DEF AttemptsAreTimed
  <2>2. HealthIsTimed'
    BY <1>0, <1>3 DEF ReadyInv, HealthIsTimed, Healthy
  <2>3. ChecksAreTimely'
    BY <1>0, <1>2, <1>3, TimelyAgain
  <2> QED
    BY <2>1, <2>2, <2>3 DEF ReadyInv
<1>4. CASE StartFetch("loop") /\ refresh' = [refresh EXCEPT !.softAge = 0] /\ UNCHANGED loop
  <2>1. lock' = "loop" /\ fetch'.age = 0 /\ ~fetch'.answered
    BY <1>4 DEF StartFetch, NoFetch
  <2>2. AttemptsAreTimed'
    BY <1>0, <1>4, <2>1, CacheShapes DEF AttemptsAreTimed
  <2>3. HealthIsTimed'
    BY <1>0, <2>1 DEF ReadyInv, HealthIsTimed, Healthy
  <2>4. SinceCheck' >= SinceCheck + 0
    <3>1. SinceCheck \in {Retry, Retry + FetchTimeout} /\ SinceCheck' = Retry + FetchTimeout + 0
      BY <1>0, <2>1, SinceCheckCases, SinceCheckNext DEF SinceCheckIs
    <3>2. Retry \in Nat /\ FetchTimeout \in Nat
      BY <1>0, CacheShapes
    <3> QED
      BY <3>1, <3>2
  <2>5. ChecksAreTimely'
    <3>1. cache'.age <= cache.age + 0 /\ healthyFor' <= healthyFor + 0
      BY <1>0, CacheShapes
    <3> QED
      BY <1>0, <1>2, <2>4, <3>1, TimelyGrows DEF ReadyInv
  <2> QED
    BY <2>2, <2>3, <2>5 DEF ReadyInv
<1> QED
  BY <1>1, <1>3, <1>4 DEF RefreshSoftIfDue

\* The loop's fetch ends: the cache is new, or the issuer was sick meanwhile.
LEMMA ReadySoftDone ==
    ASSUME ReadyInv, IndInv', SoftFetchDone
    PROVE  ReadyInv'
<1>0. /\ IndInv /\ lock = "loop" /\ loop' = Retry /\ lock' = "nobody" /\ fetch' = NoFetch
      /\ UNCHANGED <<refresh, published, outage, healthyFor>> /\ fetch.answered
  BY DEF ReadyInv, SoftFetchDone, StoreKeys, issuer
<1>1. AttemptsAreTimed'
  BY <1>0, CacheShapes DEF AttemptsAreTimed
<1>2. HealthIsTimed'
  BY <1>0 DEF ReadyInv, HealthIsTimed, Healthy, NoFetch
<1>3. CASE fetch.keys = {}
  <2>1. cache' = cache
    BY <1>3 DEF SoftFetchDone, StoreKeys
  <2>2. healthyFor <= fetch.age
    BY <1>0, <1>3 DEF ReadyInv, HealthIsTimed
  <2>3. healthyFor' <= FetchTimeout
    BY <1>0, <2>2, CacheShapes
  <2>4. cache'.keys # {}
    BY <2>1 DEF ReadyInv, ChecksAreTimely
  <2> QED
    BY <1>0, <1>1, <1>2, <2>3, <2>4, TimelyAgain DEF ReadyInv
<1>4. CASE fetch.keys # {}
  <2>1. cache' = [keys |-> fetch.keys, age |-> 0]
    BY <1>4 DEF SoftFetchDone, StoreKeys
  <2>2. cache'.age < SoftRefresh /\ cache'.keys # {}
    BY <1>0, <1>4, <2>1, CacheShapes
  <2> QED
    BY <1>0, <1>1, <1>2, <2>2, TimelyAgain DEF ReadyInv
<1> QED
  BY <1>3, <1>4

LEMMA ReadyIssuer ==
    ASSUME ReadyInv, IndInv', Answer \/ Rotate \/ OutageChange
    PROVE  ReadyInv'
<1>0. IndInv /\ UNCHANGED <<cache, refresh, lock, loop>> /\ fetch'.age = fetch.age
  BY DEF ReadyInv, Answer, Rotate, OutageChange, IndInv, TypeOK
<1>1. AttemptsAreTimed'
  BY <1>0 DEF ReadyInv, AttemptsAreTimed
<1>2. healthyFor' \in Nat /\ healthyFor' <= healthyFor /\ (~Healthy' => healthyFor' = 0)
  <2>1. CASE Answer
    BY <1>0, <2>1, CacheShapes DEF Answer, issuer, ReadyInv, HealthIsTimed, Healthy
  <2>2. CASE Rotate
    BY <1>0, <2>2, CacheShapes DEF Rotate
  <2>3. CASE OutageChange
    BY <1>0, <2>3, CacheShapes DEF OutageChange
  <2> QED
    BY <2>1, <2>2, <2>3
<1>3. ASSUME fetch'.answered, fetch'.keys = {} PROVE healthyFor' <= fetch'.age
  <2>1. CASE Answer
    <3>1. /\ fetch'.keys = IF outage THEN {} ELSE published
          /\ healthyFor' = healthyFor
      BY <1>0, <2>1 DEF Answer, issuer, IndInv, TypeOK
    <3>2. healthyFor = 0
      BY <1>3, <3>1 DEF ReadyInv, HealthIsTimed, Healthy
    <3> QED
      BY <1>0, <3>1, <3>2, CacheShapes
  <2>2. CASE Rotate \/ OutageChange
    <3>1. fetch' = fetch
      BY <2>2 DEF Rotate, OutageChange
    <3>2. healthyFor <= fetch.age
      BY <1>3, <3>1 DEF ReadyInv, HealthIsTimed
    <3> QED
      BY <1>0, <1>2, <3>1, <3>2, CacheShapes
  <2> QED
    BY <2>1, <2>2
<1>4. HealthIsTimed'
  BY <1>2, <1>3 DEF HealthIsTimed
<1>5. SinceCheck' = SinceCheck
  BY <1>0 DEF SinceCheck, AttemptedRecently
<1>6. ChecksAreTimely'
  <2>1. SinceCheck' >= SinceCheck + 0 /\ cache'.age <= cache.age + 0 /\ healthyFor' <= healthyFor + 0
    BY <1>0, <1>2, <1>5, CacheShapes, SinceCheckCases DEF SinceCheckIs
  <2>2. cache'.keys # {}
    BY <1>0 DEF ReadyInv, ChecksAreTimely
  <2> QED
    BY <1>0, <2>1, <2>2, TimelyGrows DEF ReadyInv
<1> QED
  BY <1>1, <1>4, <1>6 DEF ReadyInv

LEMMA ReadyTick ==
    ASSUME ReadyInv, IndInv', Tick
    PROVE  ReadyInv'
<1>0. IndInv /\ UNCHANGED <<lock, published, outage>>
  BY DEF ReadyInv, Tick
<1>1. /\ lock = "nobody" => loop > 0
      /\ lock # "nobody" => fetch.age < FetchTimeout
      /\ loop' = IF loop > 0 THEN loop - 1 ELSE 0
  BY DEF Tick
<1>2. /\ refresh.softAge \in 0 .. Retry /\ refresh.forcedAge \in 0 .. Retry /\ loop \in 0 .. Retry
      /\ fetch.age \in 0 .. FetchTimeout /\ Retry \in Nat /\ FetchTimeout \in Nat /\ FetchTimeout < Retry
  BY <1>0, CacheShapes, StalenessAssumption
<1>3. /\ refresh'.softAge = Older(refresh.softAge, Retry)
      /\ refresh'.forcedAge = Older(refresh.forcedAge, Retry)
      /\ fetch'.age = IF lock = "nobody" THEN 0 ELSE fetch.age + 1
  BY <1>0, TickAges
<1>4. AttemptsAreTimed'
  <2>1. IF lock' = "loop" THEN loop' = 0 ELSE refresh'.softAge + loop' >= Retry
    BY <1>0, <1>1, <1>2, <1>3 DEF ReadyInv, AttemptsAreTimed, Older
  <2>2. ASSUME lock' \in Request PROVE refresh'.forcedAge = fetch'.age
    <3>1. lock # "nobody" /\ refresh.forcedAge = fetch.age
      BY <1>0, <2>2, CacheShapes DEF ReadyInv, AttemptsAreTimed
    <3> QED
      BY <1>1, <1>2, <1>3, <3>1 DEF Older
  <2> QED
    BY <2>1, <2>2 DEF AttemptsAreTimed
<1>5. HealthIsTimed'
  <2>1. ~Healthy' => healthyFor' = 0
    BY <1>0 DEF Tick, Healthy
  <2>2. ASSUME fetch'.answered, fetch'.keys = {} PROVE healthyFor' <= fetch'.age
    <3>1. fetch.answered /\ fetch.keys = {}
      BY <1>0, <2>2, TickAges
    <3>2. lock # "nobody"
      BY <1>0, <3>1 DEF IndInv, NoFetch
    <3>3. healthyFor <= fetch.age
      BY <3>1 DEF ReadyInv, HealthIsTimed
    <3>4. healthyFor' <= healthyFor + 1 /\ healthyFor \in Nat /\ healthyFor' \in Nat
      BY <1>0, TickAges, SinceCheckCases, SinceCheckNext DEF SinceCheckIs
    <3> QED
      BY <1>2, <1>3, <3>2, <3>3, <3>4
  <2> QED
    BY <2>1, <2>2 DEF HealthIsTimed
<1>6. SinceCheck' >= SinceCheck + 1
  <2>1. lock \in Request \cup {"loop", "nobody"} /\ "loop" \notin Request /\ "nobody" \notin Request
    BY <1>0, CacheShapes
  <2>2. CASE lock = "loop"
    <3>1. /\ SinceCheck = Retry + FetchTimeout + fetch.age
          /\ SinceCheck' = Retry + FetchTimeout + (fetch.age + 1)
      BY <1>0, <1>3, <2>2, SinceCheckCases, SinceCheckNext DEF SinceCheckIs
    <3> QED
      BY <1>2, <3>1
  <2>3. CASE lock # "loop" /\ loop > 1
    <3>1. SinceCheck = Retry - loop /\ SinceCheck' = Retry - (loop - 1)
      BY <1>0, <1>1, <1>2, <2>3, SinceCheckCases, SinceCheckNext DEF SinceCheckIs
    <3> QED
      BY <1>2, <3>1
  <2>4. CASE lock # "loop" /\ loop = 1
    <3>1. SinceCheck = Retry - 1 /\ loop' = 0
      BY <1>0, <1>1, <1>2, <2>4, SinceCheckCases DEF SinceCheckIs
    <3>2. SinceCheck' \in {Retry, Retry + FetchTimeout, Retry + fetch'.age}
      BY <1>0, <2>1, <2>4, <3>1, SinceCheckNext DEF SinceCheckIs
    <3>3. fetch'.age \in Nat
      BY <1>2, <1>3
    <3> QED
      BY <1>2, <3>1, <3>2, <3>3
  <2>5. CASE lock # "loop" /\ loop = 0
    <3>1. lock \in Request /\ loop' = 0 /\ fetch'.age = fetch.age + 1
      BY <1>1, <1>2, <1>3, <2>1, <2>5
    <3>2. SinceCheck = Retry + fetch.age /\ SinceCheck' = Retry + (fetch.age + 1)
      BY <1>0, <2>5, <3>1, SinceCheckCases, SinceCheckNext DEF SinceCheckIs
    <3> QED
      BY <1>2, <3>2
  <2> QED
    BY <1>2, <2>2, <2>3, <2>4, <2>5
<1>7. ChecksAreTimely'
  <2>1. cache'.age <= cache.age + 1 /\ healthyFor' <= healthyFor + 1 /\ cache'.keys # {}
    BY <1>0, TickAges DEF ReadyInv, ChecksAreTimely
  <2> QED
    BY <1>0, <1>6, <2>1, TimelyGrows DEF ReadyInv
<1> QED
  BY <1>4, <1>5, <1>7 DEF ReadyInv

(***************************************************************************)
(* The loop keeps the replica ready, for every number of requests, dropped *)
(* or not, and every timing: once the issuer has been healthy for as long  *)
(* as a failing fetch, the loop's sleep and two more fetches take, the     *)
(* cache is usable and younger than the hard-staleness bound.              *)
(***************************************************************************)
THEOREM ReadyReplica == Spec => []ReadyWhileHealthy
<1>1. Init => ReadyInv
  <2> SUFFICES ASSUME Init PROVE ReadyInv
    OBVIOUS
  <2>1. IndInv
    BY InitIndInv
  <2>2. AttemptsAreTimed /\ HealthIsTimed
    BY PeriodAssumption DEF Init, AttemptsAreTimed, HealthIsTimed, NoFetch
  <2>3. ChecksAreTimely
    BY <2>1, SinceCheckCases, PeriodAssumption DEF Init, ChecksAreTimely, SinceCheckIs
  <2> QED
    BY <2>1, <2>2, <2>3 DEF ReadyInv
<1>2. ReadyInv /\ [Next]_vars => ReadyInv'
  <2> SUFFICES ASSUME ReadyInv, [Next]_vars PROVE ReadyInv'
    OBVIOUS
  <2>0. IndInv /\ IndInv'
    BY NextIndInv DEF ReadyInv
  <2>1. CASE UNCHANGED vars
    BY <2>0, <2>1, ReadyLook DEF vars
  <2>2. ASSUME NEW r \in Request, Key(r) \/ Reread(r) \/ \E k \in Kid : Verify(r, k) PROVE ReadyInv'
    BY <2>0, <2>2, ReadyLook DEF Key, Reread, Verify, issuer
  <2>3. ASSUME NEW r \in Request, RefreshForUnknownKid(r) PROVE ReadyInv'
    <3>1. CASE UNCHANGED <<refresh, lock, fetch>>
      BY <2>0, <2>3, <3>1, ReadyLook DEF RefreshForUnknownKid, issuer
    <3>2. CASE /\ StartFetch(r) /\ ~AttemptedRecently(refresh.forcedAge)
               /\ refresh' = [refresh EXCEPT !.forcedAge = 0]
      BY <2>0, <2>3, <3>2, ReadyForcedFetch DEF RefreshForUnknownKid, issuer
    <3> QED
      BY <2>3, <3>1, <3>2 DEF RefreshForUnknownKid
  <2>4. ASSUME NEW r \in Request, ForcedFetchDone(r) PROVE ReadyInv'
    <3>1. /\ refresh'.forcedAge = refresh.forcedAge /\ refresh'.softAge = refresh.softAge
          /\ lock \in Request /\ lock' = "nobody" /\ fetch' = NoFetch
          /\ UNCHANGED <<loop, published, outage, healthyFor>>
      BY <2>0, <2>4 DEF ForcedFetchDone, StoreKeys, issuer, IndInv, TypeOK
    <3>2. cache' = cache \/ (cache'.age = 0 /\ cache'.keys # {})
      BY <2>4 DEF ForcedFetchDone, StoreKeys
    <3> QED
      BY <2>0, <3>1, <3>2, ReadyForcedEnd
  <2>5. ASSUME NEW r \in Request, Disconnect(r) PROVE ReadyInv'
    <3>1. UNCHANGED <<cache, refresh, loop, published, outage, healthyFor>>
      BY <2>5 DEF Disconnect, issuer
    <3>2. CASE lock = r
      BY <2>0, <2>5, <3>1, <3>2, ReadyForcedEnd DEF Disconnect
    <3>3. CASE lock # r
      BY <2>0, <2>5, <3>1, <3>3, ReadyLook DEF Disconnect
    <3> QED
      BY <3>2, <3>3
  <2>6. CASE LoopStep
    BY <2>0, <2>6, ReadySoftRefresh, ReadySoftDone DEF LoopStep
  <2>7. CASE Answer \/ Rotate \/ OutageChange \/ Tick
    BY <2>0, <2>7, ReadyIssuer, ReadyTick
  <2> QED
    BY <2>1, <2>2, <2>3, <2>4, <2>5, <2>6, <2>7 DEF Next, Step
<1>3. ReadyInv => ReadyWhileHealthy
  <2> SUFFICES ASSUME ReadyInv, healthyFor >= Recovery
               PROVE  /\ cache.keys # {} /\ cache.age <= MaxStaleness
                      /\ cache.age <= SoftRefresh + Retry + 2 * FetchTimeout
    BY DEF ReadyWhileHealthy, CheckReady, CacheIsUsable
  <2>1. /\ SinceCheck \in 0 .. Retry + 2 * FetchTimeout /\ cache.age \in Nat /\ healthyFor \in Nat
        /\ Retry \in Nat /\ FetchTimeout \in Nat /\ SoftRefresh \in Nat /\ MaxStaleness \in Nat
    BY SinceCheckCases, CacheShapes DEF ReadyInv, SinceCheckIs
  <2>2. ~(healthyFor <= FetchTimeout + SinceCheck)
    BY <2>1 DEF Recovery
  <2>3. cache.keys # {} /\ cache.age < SoftRefresh + SinceCheck
    BY <2>2 DEF ReadyInv, ChecksAreTimely
  <2> QED
    BY <2>1, <2>3, StalenessAssumption
<1> QED
  BY <1>1, <1>2, <1>3, PTL DEF Spec

-----------------------------------------------------------------------------
(* The cache mirrors the issuer.                                            *)

\* An answer has every key that was published all the time since it was asked
\* for.
AnswerHasAll ==
    fetch.answered /\ fetch.keys # {} =>
        \A k \in Kid \ fetch.keys : UnpublishedWithin(k, fetch.age)

\* And so has the cache, as of a fetch before fetched_at.
CacheHasAll ==
    cache.age <= MaxStaleness =>
        \A k \in Kid \ cache.keys : UnpublishedWithin(k, cache.age + FetchTimeout)

\* The inductive invariant behind CacheMirrorsIssuer; IndInv is the other half,
\* that nothing is in the cache which was not published.
MirrorInv == IndInv /\ AnswerHasAll /\ CacheHasAll

\* Steps that leave the cache and the issuer's keys alone, and begin, drop or
\* keep a fetch.
LEMMA MirrorQuiet ==
    ASSUME MirrorInv, IndInv', UNCHANGED <<cache, published, since>>,
           fetch' = fetch \/ fetch' = NoFetch
    PROVE  MirrorInv'
<1>1. CacheHasAll'
  BY DEF MirrorInv, CacheHasAll, UnpublishedWithin
<1>2. AnswerHasAll'
  BY DEF MirrorInv, AnswerHasAll, UnpublishedWithin, NoFetch
<1> QED
  BY <1>1, <1>2 DEF MirrorInv

\* An answer is stored within FetchTimeout of its question.
LEMMA MirrorStore ==
    ASSUME MirrorInv, IndInv', StoreKeys, UNCHANGED issuer
    PROVE  MirrorInv'
<1>0. IndInv /\ fetch.answered /\ fetch' = NoFetch /\ UNCHANGED <<published, since>>
  BY DEF MirrorInv, StoreKeys, issuer
<1>1. CASE fetch.keys = {}
  BY <1>0, <1>1, MirrorQuiet DEF StoreKeys
<1>2. CASE fetch.keys # {}
  <2>1. cache'.keys = fetch.keys /\ cache'.age = 0
    BY <1>2 DEF StoreKeys
  <2>2. fetch.age \in 0 .. FetchTimeout /\ FetchTimeout \in Nat /\ 0 + FetchTimeout = FetchTimeout
    BY <1>0, CacheShapes
  <2>3. \A k \in Kid \ fetch.keys : UnpublishedWithin(k, FetchTimeout)
    BY <1>0, <1>2, <2>2, UnpublishedLonger DEF MirrorInv, AnswerHasAll
  <2>4. CacheHasAll'
    BY <1>0, <2>1, <2>2, <2>3 DEF CacheHasAll, UnpublishedWithin
  <2>5. AnswerHasAll'
    BY <1>0 DEF AnswerHasAll, NoFetch
  <2> QED
    BY <2>4, <2>5 DEF MirrorInv
<1> QED
  BY <1>1, <1>2

\* The issuer answers with all it publishes, or with nothing.
LEMMA MirrorAnswer ==
    ASSUME MirrorInv, IndInv', Answer
    PROVE  MirrorInv'
<1>1. /\ IndInv /\ UNCHANGED <<cache, published, since>>
      /\ fetch'.keys = IF outage THEN {} ELSE published
  BY DEF MirrorInv, Answer, issuer, IndInv, TypeOK
<1>2. CacheHasAll'
  BY <1>1 DEF MirrorInv, CacheHasAll, UnpublishedWithin
<1>3. AnswerHasAll'
  BY <1>1 DEF AnswerHasAll, UnpublishedWithin
<1> QED
  BY <1>2, <1>3 DEF MirrorInv

\* A key whose publication changes has changed just now.
LEMMA MirrorRotate ==
    ASSUME MirrorInv, IndInv', Rotate
    PROVE  MirrorInv'
<1>0. IndInv /\ UNCHANGED <<cache, fetch>>
  BY DEF MirrorInv, Rotate
<1>1. ASSUME NEW k \in Kid, NEW s \in Nat, UnpublishedWithin(k, s) PROVE UnpublishedWithin(k, s)'
  BY <1>0, <1>1, CacheShapes DEF Rotate, UnpublishedWithin
<1>2. fetch.age \in Nat /\ cache.age + FetchTimeout \in Nat
  BY <1>0, CacheShapes
<1>3. CacheHasAll'
  BY <1>0, <1>1, <1>2 DEF MirrorInv, CacheHasAll
<1>4. AnswerHasAll'
  BY <1>0, <1>1, <1>2 DEF MirrorInv, AnswerHasAll
<1> QED
  BY <1>3, <1>4 DEF MirrorInv

\* In a second everything grows older by the same.
LEMMA MirrorTick ==
    ASSUME MirrorInv, IndInv', Tick
    PROVE  MirrorInv'
<1>0. IndInv
  BY DEF MirrorInv
<1>1. ASSUME NEW k \in Kid, NEW s \in Nat, UnpublishedWithin(k, s)
      PROVE  k \notin published' \/ since'[k] <= s + 1
  BY <1>0, <1>1, TickAges, CacheShapes DEF UnpublishedWithin
<1>2. AnswerHasAll'
  <2> SUFFICES ASSUME fetch'.answered, fetch'.keys # {}, NEW k \in Kid \ fetch'.keys
               PROVE  UnpublishedWithin(k, fetch.age)'
    BY DEF AnswerHasAll
  <2>1. fetch.answered /\ fetch.keys # {} /\ k \notin fetch.keys
    BY <1>0, TickAges
  <2>2. lock # "nobody"
    BY <1>0, <2>1 DEF IndInv, NoFetch
  <2>3. fetch'.age = fetch.age + 1 /\ fetch.age \in Nat
    BY <1>0, <2>2, TickAges, CacheShapes
  <2>4. UnpublishedWithin(k, fetch.age)
    BY <2>1 DEF MirrorInv, AnswerHasAll
  <2>5. k \notin published' \/ since'[k] <= fetch.age + 1
    BY <1>1, <2>3, <2>4
  <2> QED
    BY <2>3, <2>5 DEF UnpublishedWithin
<1>3. CacheHasAll'
  <2> SUFFICES ASSUME cache'.age <= MaxStaleness, NEW k \in Kid \ cache'.keys
               PROVE  UnpublishedWithin(k, cache.age + FetchTimeout)'
    BY DEF CacheHasAll
  <2>1. cache'.age = Older(cache.age, HardStale)
    BY <1>0 DEF Tick, IndInv, TypeOK
  <2>2. cache.age \in Nat /\ MaxStaleness \in Nat /\ FetchTimeout \in Nat
    BY <1>0, CacheShapes
  <2>3. cache'.age = cache.age + 1 /\ cache.age <= MaxStaleness
    BY <2>1, <2>2 DEF Older, HardStale
  <2>4. k \notin cache.keys
    BY <1>0, TickAges
  <2>5. UnpublishedWithin(k, cache.age + FetchTimeout)
    BY <2>3, <2>4 DEF MirrorInv, CacheHasAll
  <2>6. k \notin published' \/ since'[k] <= (cache.age + FetchTimeout) + 1
    BY <1>1, <2>2, <2>5
  <2>7. cache'.age + FetchTimeout = (cache.age + FetchTimeout) + 1
    BY <2>2, <2>3
  <2> QED
    BY <2>6, <2>7 DEF UnpublishedWithin
<1> QED
  BY <1>2, <1>3 DEF MirrorInv

\* Every step of the requests, the loop and the issuer keeps the mirror.
LEMMA MirrorStep == MirrorInv /\ [Next]_vars => MirrorInv'
<1> SUFFICES ASSUME MirrorInv, [Next]_vars PROVE MirrorInv'
  OBVIOUS
<1>0. IndInv'
  BY NextIndInv DEF MirrorInv
<1>1. CASE UNCHANGED vars
  BY <1>0, <1>1, MirrorQuiet DEF vars
<1>2. ASSUME NEW r \in Request, Key(r) \/ Reread(r) \/ Disconnect(r) \/ \E k \in Kid : Verify(r, k)
      PROVE  MirrorInv'
  BY <1>0, <1>2, MirrorQuiet DEF Key, Reread, Disconnect, Verify, issuer
<1>3. ASSUME NEW r \in Request, RefreshForUnknownKid(r) PROVE MirrorInv'
  BY <1>0, <1>3, MirrorQuiet DEF RefreshForUnknownKid, StartFetch, issuer
<1>4. ASSUME NEW r \in Request, ForcedFetchDone(r) PROVE MirrorInv'
  BY <1>0, <1>4, MirrorStore DEF ForcedFetchDone
<1>5. CASE LoopStep
  <2>1. CASE RefreshSoftIfDue
    BY <1>0, <2>1, MirrorQuiet DEF RefreshSoftIfDue, StartFetch, issuer
  <2>2. CASE SoftFetchDone
    BY <1>0, <2>2, MirrorStore DEF SoftFetchDone
  <2> QED
    BY <1>5, <2>1, <2>2 DEF LoopStep
<1>6. CASE OutageChange
  BY <1>0, <1>6, MirrorQuiet DEF OutageChange
<1>7. CASE Answer \/ Rotate \/ Tick
  BY <1>0, <1>7, MirrorAnswer, MirrorRotate, MirrorTick
<1> QED
  BY <1>1, <1>2, <1>3, <1>4, <1>5, <1>6, <1>7 DEF Next, Step

\* The cache of a replica shows its issuer as it was a fetch before fetched_at at
\* most, for any number of requests, dropped or not, and any rotation.
THEOREM MirroredIssuer == Spec => []CacheMirrorsIssuer
<1>1. Init => MirrorInv
  <2> SUFFICES ASSUME Init PROVE MirrorInv
    OBVIOUS
  <2>1. CacheHasAll /\ AnswerHasAll
    BY DEF Init, CacheHasAll, AnswerHasAll, UnpublishedWithin, NoFetch
  <2> QED
    BY <2>1, InitIndInv DEF MirrorInv
<1>2. MirrorInv => CacheMirrorsIssuer
  <2> SUFFICES ASSUME MirrorInv, cache.age <= MaxStaleness, NEW k \in Kid,
                      since[k] > cache.age + FetchTimeout
               PROVE  k \in cache.keys <=> k \in published
    BY DEF CacheMirrorsIssuer
  <2>1. cache.age + FetchTimeout \in Nat /\ since[k] \in Nat
    BY CacheShapes DEF MirrorInv
  <2>2. ~(since[k] <= cache.age + FetchTimeout)
    BY <2>1
  <2>3. k \in cache.keys => k \in published
    BY <2>2 DEF MirrorInv, IndInv, PublishedWithin
  <2>4. k \notin cache.keys => k \notin published
    BY <2>2 DEF MirrorInv, CacheHasAll, UnpublishedWithin
  <2> QED
    BY <2>3, <2>4
<1> QED
  BY <1>1, <1>2, MirrorStep, PTL DEF Spec

(***************************************************************************)
(* A change of the issuer's keys has reached the cache when the soft age,  *)
(* a turn of run_refresh_loop and a fetch have passed, if the issuer was   *)
(* healthy for long enough: what SettlesOnPublishedKeys says will happen   *)
(* some day, with the time by which it does.                               *)
(***************************************************************************)
THEOREM CurrentKeys == Spec => []KeysAreCurrent
<1>1. IndInv /\ ReadyWhileHealthy /\ CacheMirrorsIssuer => KeysAreCurrent
  <2> SUFFICES ASSUME IndInv, ReadyWhileHealthy, CacheMirrorsIssuer, healthyFor >= Recovery,
                      NEW k \in Kid, since[k] > SoftRefresh + Retry + 3 * FetchTimeout
               PROVE  k \in cache.keys <=> k \in published
    BY DEF KeysAreCurrent
  <2>1. /\ cache.age \in Nat /\ since[k] \in Nat /\ SoftRefresh \in Nat /\ Retry \in Nat
        /\ FetchTimeout \in Nat /\ MaxStaleness \in Nat
    BY CacheShapes
  <2>2. cache.age <= MaxStaleness /\ cache.age <= SoftRefresh + Retry + 2 * FetchTimeout
    BY DEF ReadyWhileHealthy, CheckReady, CacheIsUsable
  <2>3. since[k] > cache.age + FetchTimeout
    BY <2>1, <2>2
  <2> QED
    BY <2>2, <2>3 DEF CacheMirrorsIssuer
<1> QED
  BY <1>1, CacheInvariant, ReadyReplica, MirroredIssuer, PTL
=============================================================================
