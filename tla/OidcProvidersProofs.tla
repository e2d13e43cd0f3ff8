------------------------ MODULE OidcProvidersProofs ------------------------
(***************************************************************************)
(* Proofs about OidcProviders, for every set of providers, requests and    *)
(* key IDs and every choice of the periods.                                *)
(***************************************************************************)
EXTENDS OidcProviders, TLAPS

-----------------------------------------------------------------------------
(* Why a healthy provider is ready whatever the others do.                  *)

\* The longest the refresh of a provider can have taken.
Elapsed(p) == IF fetch[p].stage = "discovery" THEN fetch[p].age ELSE FetchTimeout + fetch[p].age

\* The longest a round can have lasted that still waits for this provider: for
\* one refresh of a request (a second is rate-limited) and for its own.
RoundAge(p) ==
    IF lock[p] = "nobody"
    THEN IF AttemptedRecently(refresh[p].forcedAge) THEN 2 * FetchTimeout ELSE 0
    ELSE IF lock[p] = "loop" THEN 2 * FetchTimeout + Elapsed(p) ELSE Elapsed(p)

\* An attempt is no older than its refresh, a refresh of the loop no older than
\* the round, and the loop never finds its own attempt recent.
RefreshesAreTimed ==
    \A p \in Provider :
        /\ lock[p] \in Request => refresh[p].forcedAge <= Elapsed(p)
        /\ lock[p] = "loop" => \A q \in loop.pending : fetch[p].age <= RoundAge(q)
        /\ loop.pending = {} => refresh[p].softAge + loop.sleep >= Retry
        /\ p \in loop.pending /\ lock[p] # "loop" => refresh[p].softAge >= Retry

\* Only a provider in trouble gives no key.
TroubleIsTimed ==
    \A p \in Provider :
        /\ ~Healthy(p) => healthyFor[p] = 0
        /\ fetch[p].stage = "store" /\ fetch[p].keys = {} => healthyFor[p] <= fetch[p].age

\* So long ago the loop found the cache young or filled it, or there was trouble.
CheckedWithin(p, seconds) == cache[p].age < SoftRefresh + seconds \/ healthyFor[p] <= seconds

\* A provider was checked in this round, or in the one before and is waited for.
RoundsAreTimely ==
    \A p \in Provider :
        /\ cache[p].keys = {} => cache[p].age = HardStale
        /\ loop.pending = {} => CheckedWithin(p, 4 * FetchTimeout + Retry - loop.sleep)
        /\ p \notin loop.pending => \A q \in loop.pending : CheckedWithin(p, RoundAge(q))
        /\ p \in loop.pending => CheckedWithin(p, 4 * FetchTimeout + Retry + RoundAge(p))

\* The inductive invariant behind ProvidersAreIsolated.
IsolatedInv == IndInv /\ RefreshesAreTimed /\ TroubleIsTimed /\ RoundsAreTimely

-----------------------------------------------------------------------------
(* Types.                                                                   *)

\* Domains of the parts of the state.
Cache == [keys : SUBSET Kid, age : 0 .. HardStale]
RefreshState == [softAge : 0 .. Retry, forcedAge : 0 .. Retry]
Loop == [pending : SUBSET Provider, sleep : 0 .. Retry]

\* The periods are numbers.
LEMMA Periods ==
    /\ SoftRefresh \in Nat /\ Retry \in Nat /\ MaxStaleness \in Nat /\ FetchTimeout \in Nat
    /\ KeyMemory \in Nat /\ HealthMemory \in Nat /\ HardStale \in Nat
    /\ HardStale = MaxStaleness + 1
BY ProviderAssumption, RetryAssumption DEF HardStale

\* A finished call is a caller's state whatever its result.
LEMMA NoCallType ==
    ASSUME NEW pc \in {"idle"} \cup Verdict
    PROVE  [NoCall EXCEPT !.pc = pc] \in Caller /\ [NoCall EXCEPT !.pc = pc].pc = pc
<1>1. (CHOOSE k \in Kid : TRUE) \in Kid /\ (CHOOSE p \in Provider : TRUE) \in Provider
  BY ProviderAssumption
<1> QED
  BY <1>1 DEF NoCall, Caller, Verdict

\* An age that grows by a second stays in its range and grows by at most one.
LEMMA OlderType ==
    ASSUME NEW cap \in Nat, NEW age \in 0 .. cap
    PROVE  /\ Older(age, cap) \in 0 .. cap
           /\ Older(age, cap) <= age + 1
           /\ Older(age, cap) < cap => Older(age, cap) = age + 1
BY DEF Older

\* A fetch that was just sent, and none.
LEMMA FetchTypes ==
    /\ NoFetch \in Fetch /\ NoFetch.stage = "none" /\ NoFetch.keys = {}
    /\ \A stage \in {"discovery", "jwks"} :
          At(stage, {}, 0) \in Fetch /\ At(stage, {}, 0).stage = stage /\ At(stage, {}, 0).keys = {}
BY Periods DEF NoFetch, At, Fetch

\* What the invariant says of the types, with the records named.
LEMMA Shapes ==
    ASSUME TypeOK
    PROVE  /\ cache \in [Provider -> Cache] /\ refresh \in [Provider -> RefreshState]
           /\ lock \in [Provider -> Request \cup {"loop", "nobody"}]
           /\ fetch \in [Provider -> Fetch] /\ caller \in [Request -> Caller]
           /\ loop \in Loop /\ published \in [Provider -> SUBSET Kid]
           /\ polled \in [Provider -> 0 .. Retry]
           /\ since \in [Provider -> [Kid -> 0 .. KeyMemory]]
           /\ LocksAreOwned
BY DEF TypeOK, Cache, RefreshState, Loop

\* The initial state: nothing is cached and nothing is asked for.
LEMMA InitIndInv == Init => IndInv
<1> SUFFICES ASSUME Init PROVE IndInv
  OBVIOUS
<1>1. NoCall \in Caller /\ NoCall.pc = "idle"
  <2>1. (CHOOSE k \in Kid : TRUE) \in Kid /\ (CHOOSE p \in Provider : TRUE) \in Provider
    BY ProviderAssumption
  <2> QED
    BY <2>1 DEF NoCall, Caller
<1>2. cache \in [Provider -> [keys : SUBSET Kid, age : 0 .. HardStale]]
  BY Periods DEF Init
<1>3. refresh \in [Provider -> [softAge : 0 .. Retry, forcedAge : 0 .. Retry]]
  BY Periods DEF Init
<1>4. fetch \in [Provider -> Fetch] /\ caller \in [Request -> Caller]
  BY <1>1, FetchTypes DEF Init
<1>5. /\ polled \in [Provider -> 0 .. Retry] /\ since \in [Provider -> [Kid -> 0 .. KeyMemory]]
      /\ healthyFor \in [Provider -> 0 .. HealthMemory]
  BY Periods DEF Init
<1>6. loop \in [pending : SUBSET Provider, sleep : 0 .. Retry]
  BY Periods DEF Init
<1>7. /\ published \in [Provider -> SUBSET Kid] /\ lock \in [Provider -> Request \cup {"loop", "nobody"}]
      /\ issuer \in [Provider -> {"up", "down", "misconfigured"}]
  BY ProviderAssumption DEF Init
<1>8. LocksAreOwned
  BY <1>1, FetchTypes, ProviderAssumption DEF Init, LocksAreOwned
<1>9. TypeOK
  BY <1>2, <1>3, <1>4, <1>5, <1>6, <1>7, <1>8 DEF TypeOK
<1>10. AnswersAreFresh
  BY FetchTypes DEF Init, AnswersAreFresh
<1>11. CachesAreBounded /\ RereadsAreInformed
  BY <1>1 DEF Init, CachesAreBounded, RereadsAreInformed
<1>12. \A p \in Provider : polled[p] = refresh[p].forcedAge
  BY DEF Init
<1> QED
  BY <1>9, <1>10, <1>11, <1>12 DEF IndInv

-----------------------------------------------------------------------------
(* The steps of a caller.                                                   *)

\* A call that only moves its caller outside the fetch keeps the invariant.
LEMMA CallerStep ==
    ASSUME IndInv, NEW r \in Request, NEW c \in Caller, caller' = [caller EXCEPT ![r] = c],
           c.pc \notin {"fetch", "reread"}, caller[r].pc # "fetch",
           UNCHANGED <<cache, refresh, lock, fetch, loop, environment, polled>>
    PROVE  IndInv'
<1>1. caller \in [Request -> Caller] /\ LocksAreOwned
  BY Shapes DEF IndInv
<1>2. caller' \in [Request -> Caller] /\ caller'[r] = c /\ \A q \in Request \ {r} : caller'[q] = caller[q]
  BY <1>1
<1>3. LocksAreOwned'
  BY <1>1, <1>2 DEF LocksAreOwned
<1>4. TypeOK'
  BY <1>2, <1>3 DEF IndInv, TypeOK, environment
<1>5. RereadsAreInformed'
  BY <1>2 DEF IndInv, RereadsAreInformed, UnpublishedWithin, environment
<1> QED
  BY <1>4, <1>5 DEF IndInv, AnswersAreFresh, CachesAreBounded, PublishedWithin, UnpublishedWithin,
                    environment

\* What Goto and Return put in place of the caller's state.
LEMMA GotoState ==
    ASSUME TypeOK, NEW r \in Request, NEW pc \in {"lock", "fetch", "reread"}, Goto(r, pc)
    PROVE  \E c \in Caller : /\ caller' = [caller EXCEPT ![r] = c]
                             /\ c.pc = pc /\ c.provider = caller[r].provider
<1> DEFINE c == [caller[r] EXCEPT !.pc = pc]
<1>1. caller \in [Request -> Caller] /\ caller[r] \in Caller
  BY DEF TypeOK
<1>2. c \in Caller /\ c.pc = pc /\ c.provider = caller[r].provider
  BY <1>1 DEF Caller
<1>3. caller' = [caller EXCEPT ![r] = c]
  BY <1>1 DEF Goto
<1> QED
  BY <1>2, <1>3

LEMMA ReturnState ==
    ASSUME NEW r \in Request, NEW pc \in {"idle"} \cup Verdict, Return(r, pc)
    PROVE  \E c \in Caller : caller' = [caller EXCEPT ![r] = c] /\ c.pc = pc
BY NoCallType DEF Return

\* verify() reaches key(kid).
LEMMA VerifyStep ==
    ASSUME IndInv, NEW r \in Request, NEW p \in Provider, NEW k \in Kid, Verify(r, p, k)
    PROVE  IndInv'
<1> DEFINE c == [pc |-> "read", provider |-> p, kid |-> k]
<1>1. c \in Caller /\ c.pc \notin {"fetch", "reread"}
  BY DEF Caller
<1>2. caller[r].pc # "fetch" /\ caller' = [caller EXCEPT ![r] = c]
  BY DEF Verify, Verdict
<1> HIDE DEF c
<1> QED
  BY <1>1, <1>2, CallerStep DEF Verify

\* The two looks at the cache.
LEMMA LookStep ==
    ASSUME IndInv, NEW r \in Request, Key(r) \/ Reread(r)
    PROVE  IndInv'
<1>0. TypeOK /\ caller[r].pc # "fetch"
  BY DEF IndInv, Key, Reread
<1>1. \E c \in Caller : caller' = [caller EXCEPT ![r] = c] /\ c.pc \notin {"fetch", "reread"}
  <2>1. CASE \E v \in Verdict : Return(r, v)
    BY <2>1, ReturnState DEF Verdict
  <2>2. CASE Goto(r, "lock")
    BY <1>0, <2>2, GotoState
  <2> QED
    BY <2>1, <2>2 DEF Key, Reread, Verdict
<1> QED
  BY <1>0, <1>1, CallerStep DEF Key, Reread

\* Taking a mutex and sending a fetch keeps what was known of the others.
LEMMA StartFetchStep ==
    ASSUME IndInv, NEW p \in Provider, NEW who \in Request \cup {"loop"}, StartFetch(who, p)
    PROVE  /\ lock' \in [Provider -> Request \cup {"loop", "nobody"}] /\ fetch' \in [Provider -> Fetch]
           /\ lock'[p] = who /\ \A q \in Provider \ {p} : lock'[q] = lock[q]
           /\ fetch'[p].stage = "discovery" /\ \A q \in Provider \ {p} : fetch'[q] = fetch[q]
           /\ UNCHANGED <<published, since>> => AnswersAreFresh'
           /\ \A q \in Provider : lock'[q] = "nobody" <=> fetch'[q].stage = "none"
<1>1. /\ lock \in [Provider -> Request \cup {"loop", "nobody"}] /\ fetch \in [Provider -> Fetch]
      /\ \A q \in Provider : lock[q] = "nobody" <=> fetch[q].stage = "none"
  BY Shapes DEF IndInv, LocksAreOwned
<1>2. /\ lock' \in [Provider -> Request \cup {"loop", "nobody"}]
      /\ lock'[p] = who /\ \A q \in Provider \ {p} : lock'[q] = lock[q]
  BY <1>1 DEF StartFetch
<1>3. /\ fetch' \in [Provider -> Fetch] /\ fetch'[p] = At("discovery", {}, 0)
      /\ \A q \in Provider \ {p} : fetch'[q] = fetch[q]
  BY <1>1, FetchTypes DEF StartFetch
<1>4. fetch'[p].stage = "discovery" /\ fetch'[p].keys = {}
  BY <1>3, FetchTypes
<1>5. ASSUME UNCHANGED <<published, since>> PROVE AnswersAreFresh'
  BY <1>3, <1>4, <1>5 DEF IndInv, AnswersAreFresh, PublishedWithin, UnpublishedWithin
<1>6. \A q \in Provider : lock'[q] = "nobody" <=> fetch'[q].stage = "none"
  BY <1>1, <1>2, <1>3, <1>4, ProviderAssumption
<1> QED
  BY <1>2, <1>3, <1>4, <1>5, <1>6

\* A request gets the mutex: it is turned away, or sends a fetch.
LEMMA RefreshForUnknownKidStep ==
    ASSUME IndInv, NEW r \in Request, RefreshForUnknownKid(r)
    PROVE  IndInv'
<1>0. TypeOK /\ caller[r].pc = "lock"
  BY DEF IndInv, RefreshForUnknownKid
<1>1. caller \in [Request -> Caller] /\ refresh \in [Provider -> RefreshState]
      /\ polled \in [Provider -> 0 .. Retry] /\ LocksAreOwned
  BY <1>0, Shapes
<1>2. PICK p \in Provider : p = caller[r].provider
  BY <1>1 DEF Caller
<1>3. CASE Return(r, "Unavailable") /\ UNCHANGED <<refresh, lock, fetch, polled>>
  <2>1. PICK c \in Caller : caller' = [caller EXCEPT ![r] = c] /\ c.pc = "Unavailable"
    BY <1>3, ReturnState DEF Verdict
  <2> QED
    BY <1>0, <1>3, <2>1, CallerStep DEF RefreshForUnknownKid
<1>4. CASE /\ StartFetch(r, p) /\ refresh' = [refresh EXCEPT ![p].forcedAge = 0]
           /\ polled' = [polled EXCEPT ![p] = 0] /\ Goto(r, "fetch")
  <2>1. PICK c \in Caller : caller' = [caller EXCEPT ![r] = c] /\ c.pc = "fetch" /\ c.provider = p
    BY <1>0, <1>2, <1>4, GotoState
  <2>2. UNCHANGED <<cache, loop, published, issuer, since, healthyFor>>
    BY DEF RefreshForUnknownKid, environment
  <2>3. /\ lock' \in [Provider -> Request \cup {"loop", "nobody"}] /\ fetch' \in [Provider -> Fetch]
        /\ lock'[p] = r /\ \A q \in Provider \ {p} : lock'[q] = lock[q]
        /\ AnswersAreFresh'
        /\ \A q \in Provider : lock'[q] = "nobody" <=> fetch'[q].stage = "none"
    BY <1>4, <2>2, StartFetchStep
  <2>4. lock[p] = "nobody"
    BY <1>4 DEF StartFetch
  <2>5. caller' \in [Request -> Caller] /\ caller'[r] = c /\ \A q \in Request \ {r} : caller'[q] = caller[q]
    BY <1>1, <2>1
  <2>6. LocksAreOwned'
    BY <1>0, <1>1, <2>1, <2>2, <2>3, <2>4, <2>5, ProviderAssumption DEF LocksAreOwned
  <2>7. refresh' = [refresh EXCEPT ![p] = [refresh[p] EXCEPT !.forcedAge = 0]]
    BY <1>1, <1>4
  <2>8. [refresh[p] EXCEPT !.forcedAge = 0] \in RefreshState
    BY <1>1, Periods DEF RefreshState
  <2>9. refresh' \in [Provider -> RefreshState] /\ polled' \in [Provider -> 0 .. Retry]
    BY <1>1, <1>4, <2>7, <2>8, Periods
  <2>10. TypeOK'
    BY <1>0, <2>2, <2>3, <2>5, <2>6, <2>9 DEF TypeOK, RefreshState
  <2>11. \A q \in Provider : polled'[q] = refresh'[q].forcedAge
    BY <1>1, <1>4, <2>7 DEF IndInv, RefreshState
  <2>12. CachesAreBounded'
    BY <2>2 DEF IndInv, CachesAreBounded, PublishedWithin
  <2>13. RereadsAreInformed'
    BY <2>1, <2>2, <2>5 DEF IndInv, RereadsAreInformed, UnpublishedWithin
  <2> QED
    BY <2>3, <2>10, <2>11, <2>12, <2>13 DEF IndInv
<1> QED
  BY <1>2, <1>3, <1>4 DEF RefreshForUnknownKid

\* A client goes away, perhaps in the middle of a fetch.
LEMMA DisconnectStep ==
    ASSUME IndInv, NEW r \in Request, Disconnect(r)
    PROVE  IndInv'
<1>0. TypeOK
  BY DEF IndInv
<1>1. /\ caller \in [Request -> Caller] /\ LocksAreOwned
      /\ lock \in [Provider -> Request \cup {"loop", "nobody"}] /\ fetch \in [Provider -> Fetch]
  BY <1>0, Shapes
<1>2. PICK p \in Provider : p = caller[r].provider
  BY <1>1 DEF Caller
<1>3. PICK c \in Caller : caller' = [caller EXCEPT ![r] = c] /\ c.pc = "idle"
  BY ReturnState DEF Disconnect
<1>4. caller' \in [Request -> Caller] /\ caller'[r] = c /\ \A q \in Request \ {r} : caller'[q] = caller[q]
  BY <1>1, <1>3
<1>5. UNCHANGED <<cache, refresh, loop, published, issuer, since, healthyFor, polled>>
  BY DEF Disconnect, environment
<1>6. /\ lock' = IF lock[p] = r THEN [lock EXCEPT ![p] = "nobody"] ELSE lock
      /\ fetch' = IF lock[p] = r THEN [fetch EXCEPT ![p] = NoFetch] ELSE fetch
  BY <1>2 DEF Disconnect
<1>7. lock' \in [Provider -> Request \cup {"loop", "nobody"}] /\ fetch' \in [Provider -> Fetch]
  BY <1>1, <1>6, FetchTypes
<1>8. /\ \A q \in Provider : lock'[q] = IF lock[q] = r THEN "nobody" ELSE lock[q]
      /\ \A q \in Provider : fetch'[q] = IF lock[q] = r THEN NoFetch ELSE fetch[q]
  BY <1>1, <1>2, <1>6 DEF LocksAreOwned
<1>9. LocksAreOwned'
  BY <1>1, <1>3, <1>4, <1>5, <1>8, FetchTypes, ProviderAssumption DEF LocksAreOwned
<1>10. TypeOK'
  BY <1>0, <1>4, <1>5, <1>7, <1>9 DEF TypeOK
<1>11. AnswersAreFresh'
  BY <1>5, <1>8, FetchTypes DEF IndInv, AnswersAreFresh, PublishedWithin, UnpublishedWithin
<1>12. RereadsAreInformed'
  BY <1>3, <1>4, <1>5 DEF IndInv, RereadsAreInformed, UnpublishedWithin
<1> QED
  BY <1>5, <1>10, <1>11, <1>12 DEF IndInv, CachesAreBounded, PublishedWithin

-----------------------------------------------------------------------------
(* The steps of a refresh.                                                  *)

\* The end of a refresh: the mutex is free, and its holder goes on.
LEMMA EndRefreshStep ==
    ASSUME TypeOK, NEW p \in Provider, NEW result \in Verdict, EndRefresh(p, result)
    PROVE  /\ lock' \in [Provider -> Request \cup {"loop", "nobody"}] /\ fetch' \in [Provider -> Fetch]
           /\ caller' \in [Request -> Caller] /\ loop' \in Loop
           /\ fetch'[p] = NoFetch /\ \A q \in Provider \ {p} : fetch'[q] = fetch[q]
           /\ \A r \in Request : caller'[r].pc = "reread" =>
                 \/ caller'[r] = caller[r]
                 \/ result = "Ok" /\ caller'[r].provider = p
           /\ LocksAreOwned'
<1>1. /\ caller \in [Request -> Caller] /\ LocksAreOwned /\ loop \in Loop
      /\ lock \in [Provider -> Request \cup {"loop", "nobody"}] /\ fetch \in [Provider -> Fetch]
  BY Shapes
<1>2. lock' = [lock EXCEPT ![p] = "nobody"] /\ fetch' = [fetch EXCEPT ![p] = NoFetch]
  BY DEF EndRefresh
<1>3. /\ lock' \in [Provider -> Request \cup {"loop", "nobody"}] /\ fetch' \in [Provider -> Fetch]
      /\ lock'[p] = "nobody" /\ \A q \in Provider \ {p} : lock'[q] = lock[q]
      /\ fetch'[p] = NoFetch /\ \A q \in Provider \ {p} : fetch'[q] = fetch[q]
  BY <1>1, <1>2, FetchTypes
<1>4. \A q \in Provider : lock'[q] = "nobody" <=> fetch'[q].stage = "none"
  BY <1>1, <1>3, FetchTypes DEF LocksAreOwned
<1>5. CASE lock[p] = "loop" /\ Joined(p) /\ UNCHANGED caller
  <2>1. /\ loop' \in Loop /\ loop'.pending = loop.pending \ {p}
    BY <1>1, <1>5, Periods DEF Joined, Loop
  <2>2. LocksAreOwned'
    BY <1>1, <1>3, <1>4, <1>5, <2>1, ProviderAssumption DEF LocksAreOwned
  <2> QED
    BY <1>1, <1>3, <1>5, <2>1, <2>2
<1>6. CASE /\ lock[p] \in Request /\ UNCHANGED loop
           /\ IF result = "Ok" THEN Goto(lock[p], "reread") ELSE Return(lock[p], result)
  <2>1. PICK r \in Request : r = lock[p]
    BY <1>6
  <2>2. caller[r].pc = "fetch" /\ caller[r].provider = p
    BY <1>1, <2>1 DEF LocksAreOwned
  <2>3. PICK c \in Caller : /\ caller' = [caller EXCEPT ![r] = c] /\ c.pc # "fetch"
                            /\ c.pc = "reread" => result = "Ok" /\ c.provider = p
    <3>1. CASE result = "Ok"
      BY <1>6, <2>1, <2>2, <3>1, GotoState
    <3>2. CASE result # "Ok"
      BY <1>6, <2>1, <3>2, ReturnState DEF Verdict
    <3> QED
      BY <3>1, <3>2
  <2>4. caller' \in [Request -> Caller] /\ caller'[r] = c /\ \A q \in Request \ {r} : caller'[q] = caller[q]
    BY <1>1, <2>3
  <2>5. LocksAreOwned'
    BY <1>1, <1>3, <1>4, <1>6, <2>1, <2>2, <2>3, <2>4, ProviderAssumption DEF LocksAreOwned
  <2> QED
    BY <1>1, <1>3, <1>6, <2>3, <2>4, <2>5
<1> QED
  BY <1>5, <1>6 DEF EndRefresh

\* A refresh fails: what is cached stays, and nobody is told to look again.
LEMMA FailedRefreshStep ==
    ASSUME IndInv, NEW p \in Provider, NEW result \in Verdict \ {"Ok"}, EndRefresh(p, result),
           UNCHANGED <<cache, refresh, environment, polled>>
    PROVE  IndInv'
<1>0. TypeOK
  BY DEF IndInv
<1>1. UNCHANGED <<published, issuer, since, healthyFor>>
  BY DEF environment
<1>2. /\ lock' \in [Provider -> Request \cup {"loop", "nobody"}] /\ fetch' \in [Provider -> Fetch]
      /\ caller' \in [Request -> Caller] /\ loop' \in Loop
      /\ fetch'[p] = NoFetch /\ \A q \in Provider \ {p} : fetch'[q] = fetch[q]
      /\ \A r \in Request : caller'[r].pc = "reread" => caller'[r] = caller[r]
      /\ LocksAreOwned'
  BY <1>0, EndRefreshStep
<1>3. TypeOK'
  BY <1>0, <1>1, <1>2 DEF TypeOK, Loop
<1>4. AnswersAreFresh'
  BY <1>1, <1>2, FetchTypes DEF IndInv, AnswersAreFresh, PublishedWithin, UnpublishedWithin
<1>5. RereadsAreInformed'
  BY <1>1, <1>2 DEF IndInv, RereadsAreInformed, UnpublishedWithin
<1> QED
  BY <1>1, <1>3, <1>4, <1>5 DEF IndInv, CachesAreBounded, PublishedWithin

\* The key set is stored: it was asked for FetchTimeout ago at most.
LEMMA StoredKeysStep ==
    ASSUME IndInv, NEW p \in Provider, EndRefresh(p, "Ok"), fetch[p].stage = "store",
           cache' = [cache EXCEPT ![p] = [keys |-> fetch[p].keys, age |-> 0]],
           UNCHANGED <<refresh, environment, polled>>
    PROVE  IndInv'
<1>0. TypeOK /\ "Ok" \in Verdict
  BY DEF IndInv, Verdict
<1>1. UNCHANGED <<published, issuer, since, healthyFor>>
  BY DEF environment
<1>2. /\ lock' \in [Provider -> Request \cup {"loop", "nobody"}] /\ fetch' \in [Provider -> Fetch]
      /\ caller' \in [Request -> Caller] /\ loop' \in Loop
      /\ fetch'[p] = NoFetch /\ \A q \in Provider \ {p} : fetch'[q] = fetch[q]
      /\ \A r \in Request : caller'[r].pc = "reread" =>
            caller'[r] = caller[r] \/ caller'[r].provider = p
      /\ LocksAreOwned'
  BY <1>0, EndRefreshStep
<1>3. cache \in [Provider -> Cache] /\ fetch \in [Provider -> Fetch] /\ caller \in [Request -> Caller]
      /\ since \in [Provider -> [Kid -> 0 .. KeyMemory]]
  BY <1>0, Shapes
<1>4. [keys |-> fetch[p].keys, age |-> 0] \in Cache
  BY <1>3, Periods DEF Fetch, Cache
<1>5. /\ cache' \in [Provider -> Cache] /\ cache'[p] = [keys |-> fetch[p].keys, age |-> 0]
      /\ \A q \in Provider \ {p} : cache'[q] = cache[q]
  BY <1>3, <1>4
<1>6. TypeOK'
  BY <1>0, <1>1, <1>2, <1>5 DEF TypeOK, Loop, Cache
<1>7. AnswersAreFresh'
  BY <1>1, <1>2, FetchTypes DEF IndInv, AnswersAreFresh, PublishedWithin, UnpublishedWithin
<1>8. ASSUME NEW k \in Kid
      PROVE  /\ k \in fetch[p].keys => PublishedWithin(p, k, FetchTimeout)
             /\ k \notin fetch[p].keys => UnpublishedWithin(p, k, FetchTimeout)
  <2>1. since[p][k] \in Int /\ fetch[p].age \in 0 .. FetchTimeout
    BY <1>3, Periods DEF Fetch
  <2> QED
    BY <2>1, Periods DEF IndInv, AnswersAreFresh, PublishedWithin, UnpublishedWithin
<1>9. CachesAreBounded'
  <2>1. ASSUME NEW q \in Provider, cache'[q].age <= MaxStaleness, NEW k \in cache'[q].keys
        PROVE  k \in published[q] \/ since[q][k] <= cache'[q].age + FetchTimeout
    <3>1. CASE q = p
      <4>1. cache'[q].age = 0 /\ k \in fetch[p].keys /\ k \in Kid
        BY <1>3, <1>5, <2>1, <3>1 DEF Fetch
      <4> QED
        BY <1>8, <3>1, <4>1, Periods DEF PublishedWithin
    <3>2. CASE q # p
      BY <1>5, <2>1, <3>2 DEF IndInv, CachesAreBounded, PublishedWithin
    <3> QED
      BY <3>1, <3>2
  <2> QED
    BY <1>1, <2>1 DEF CachesAreBounded, PublishedWithin
<1>10. RereadsAreInformed'
  <2>1. ASSUME NEW r \in Request, caller'[r].pc = "reread",
               NEW k \in Kid \ cache'[caller'[r].provider].keys
        PROVE  \/ k \notin published[caller'[r].provider]
               \/ since[caller'[r].provider][k] <= FetchTimeout
    <3>1. CASE caller'[r].provider = p
      BY <1>5, <1>8, <2>1, <3>1 DEF UnpublishedWithin
    <3>2. CASE caller'[r].provider # p
      <4>1. caller'[r] = caller[r] /\ caller[r].provider \in Provider \ {p}
        BY <1>2, <1>3, <2>1, <3>2 DEF Caller
      <4> QED
        BY <1>5, <2>1, <4>1 DEF IndInv, RereadsAreInformed, UnpublishedWithin
    <3> QED
      BY <3>1, <3>2
  <2> QED
    BY <1>1, <2>1 DEF RereadsAreInformed, UnpublishedWithin
<1> QED
  BY <1>1, <1>6, <1>7, <1>9, <1>10 DEF IndInv

\* An answer on the wire moves the fetch on.
LEMMA FetchMoves ==
    ASSUME IndInv, NEW p \in Provider, NEW f \in Fetch, fetch' = [fetch EXCEPT ![p] = f],
           fetch[p].stage # "none", f.stage # "none",
           \/ f.stage # "store" /\ f.keys = {}
           \/ f.stage = "store" /\ f.keys = published[p],
           UNCHANGED <<cache, refresh, lock, caller, loop, environment, polled>>
    PROVE  IndInv'
<1>1. fetch \in [Provider -> Fetch] /\ LocksAreOwned
  BY Shapes DEF IndInv
<1>2. UNCHANGED <<published, issuer, since, healthyFor>>
  BY DEF environment
<1>3. fetch' \in [Provider -> Fetch] /\ fetch'[p] = f /\ \A q \in Provider \ {p} : fetch'[q] = fetch[q]
  BY <1>1
<1>4. LocksAreOwned'
  BY <1>1, <1>3 DEF LocksAreOwned
<1>5. TypeOK'
  BY <1>2, <1>3, <1>4 DEF IndInv, TypeOK
<1>6. AnswersAreFresh'
  BY <1>2, <1>3 DEF IndInv, AnswersAreFresh, PublishedWithin, UnpublishedWithin
<1> QED
  BY <1>2, <1>5, <1>6 DEF IndInv, CachesAreBounded, RereadsAreInformed, PublishedWithin,
                          UnpublishedWithin

\* A refresh goes on, is answered, or ends.
LEMMA RefreshingStep ==
    ASSUME IndInv, NEW p \in Provider, Refreshing(p)
    PROVE  IndInv'
<1>0. fetch \in [Provider -> Fetch] /\ published \in [Provider -> SUBSET Kid]
  BY Shapes DEF IndInv
<1>1. CASE Discovered(p)
  <2>1. At("jwks", {}, 0) \in Fetch /\ At("jwks", {}, 0).stage = "jwks" /\ At("jwks", {}, 0).keys = {}
    BY FetchTypes
  <2> QED
    BY <1>1, <2>1, FetchMoves DEF Discovered
<1>2. CASE JwksAnswered(p)
  <2> DEFINE f == [fetch[p] EXCEPT !.stage = "store", !.keys = published[p]]
  <2>1. f \in Fetch /\ f.stage = "store" /\ f.keys = published[p]
    BY <1>0 DEF Fetch
  <2>2. fetch' = [fetch EXCEPT ![p] = f]
    BY <1>0, <1>2 DEF JwksAnswered
  <2>3. fetch[p].stage # "none" /\ UNCHANGED <<cache, refresh, lock, caller, loop, environment, polled>>
    BY <1>2 DEF JwksAnswered
  <2> HIDE DEF f
  <2> QED
    BY <2>1, <2>2, <2>3, FetchMoves
<1>3. CASE FetchFailed(p)
  BY <1>3, FailedRefreshStep, "Unavailable" # "Ok", "Invalid" # "Ok" DEF FetchFailed, Verdict
<1>4. CASE StoreKeys(p)
  <2>1. UNCHANGED <<refresh, environment, polled>> /\ fetch[p].stage = "store"
    BY <1>4 DEF StoreKeys
  <2>2. CASE EndRefresh(p, "Unavailable") /\ UNCHANGED cache
    BY <2>1, <2>2, FailedRefreshStep, "Unavailable" # "Ok" DEF Verdict
  <2>3. CASE /\ cache' = [cache EXCEPT ![p] = [keys |-> fetch[p].keys, age |-> 0]]
             /\ EndRefresh(p, "Ok")
    BY <2>1, <2>3, StoredKeysStep
  <2> QED
    BY <1>4, <2>2, <2>3 DEF StoreKeys
<1> QED
  BY <1>1, <1>2, <1>3, <1>4 DEF Refreshing

-----------------------------------------------------------------------------
(* The loop and the environment.                                            *)

\* A round begins.
LEMMA StartRoundStep ==
    ASSUME IndInv, StartRound
    PROVE  IndInv'
<1>1. loop \in Loop /\ LocksAreOwned
  BY Shapes DEF IndInv
<1>2. loop' \in Loop /\ loop'.pending = Provider
  BY <1>1 DEF StartRound, Loop
<1>3. UNCHANGED <<cache, refresh, lock, fetch, caller, published, issuer, since, healthyFor, polled>>
  BY DEF StartRound, environment
<1>4. LocksAreOwned'
  BY <1>1, <1>2, <1>3 DEF LocksAreOwned
<1>5. TypeOK'
  BY <1>2, <1>3, <1>4 DEF IndInv, TypeOK, Loop
<1> QED
  BY <1>3, <1>5 DEF IndInv, AnswersAreFresh, CachesAreBounded, RereadsAreInformed, PublishedWithin,
                    UnpublishedWithin

\* The loop's refresh of a provider: it is joined at once, or sends a fetch.
LEMMA RefreshSoftIfDueStep ==
    ASSUME IndInv, NEW p \in Provider, RefreshSoftIfDue(p)
    PROVE  IndInv'
<1>0. TypeOK
  BY DEF IndInv
<1>1. refresh \in [Provider -> RefreshState] /\ loop \in Loop /\ LocksAreOwned
  BY <1>0, Shapes
<1>2. UNCHANGED <<cache, caller, published, issuer, since, healthyFor, polled>>
  BY DEF RefreshSoftIfDue, environment
<1>3. p \in loop.pending /\ lock[p] = "nobody"
  BY DEF RefreshSoftIfDue
<1>4. CASE Joined(p) /\ UNCHANGED <<refresh, lock, fetch>>
  <2>1. loop' \in Loop /\ loop'.pending = loop.pending \ {p}
    BY <1>1, <1>4, Periods DEF Joined, Loop
  <2>2. LocksAreOwned'
    BY <1>1, <1>2, <1>3, <1>4, <2>1 DEF LocksAreOwned
  <2>3. TypeOK'
    BY <1>0, <1>2, <1>4, <2>1, <2>2 DEF TypeOK, Loop
  <2> QED
    BY <1>2, <1>4, <2>3 DEF IndInv, AnswersAreFresh, CachesAreBounded, RereadsAreInformed,
                            PublishedWithin, UnpublishedWithin
<1>5. CASE /\ StartFetch("loop", p) /\ refresh' = [refresh EXCEPT ![p].softAge = 0]
           /\ UNCHANGED loop
  <2>1. /\ lock' \in [Provider -> Request \cup {"loop", "nobody"}] /\ fetch' \in [Provider -> Fetch]
        /\ lock'[p] = "loop" /\ \A q \in Provider \ {p} : lock'[q] = lock[q]
        /\ AnswersAreFresh'
        /\ \A q \in Provider : lock'[q] = "nobody" <=> fetch'[q].stage = "none"
    BY <1>2, <1>5, StartFetchStep
  <2>2. LocksAreOwned'
    BY <1>1, <1>2, <1>3, <1>5, <2>1, ProviderAssumption DEF LocksAreOwned
  <2>3. refresh' = [refresh EXCEPT ![p] = [refresh[p] EXCEPT !.softAge = 0]]
    BY <1>1, <1>5
  <2>4. [refresh[p] EXCEPT !.softAge = 0] \in RefreshState
        /\ [refresh[p] EXCEPT !.softAge = 0].forcedAge = refresh[p].forcedAge
    BY <1>1, Periods DEF RefreshState
  <2>5. refresh' \in [Provider -> RefreshState]
        /\ \A q \in Provider : refresh'[q].forcedAge = refresh[q].forcedAge
    BY <1>1, <2>3, <2>4
  <2>6. TypeOK'
    BY <1>0, <1>2, <1>5, <2>1, <2>2, <2>5 DEF TypeOK, RefreshState
  <2> QED
    BY <1>2, <2>1, <2>5, <2>6 DEF IndInv, CachesAreBounded, RereadsAreInformed,
                                  PublishedWithin, UnpublishedWithin
<1> QED
  BY <1>4, <1>5 DEF RefreshSoftIfDue

\* A rotation makes nothing that is known of the keys look older.
LEMMA RotateStep ==
    ASSUME IndInv, NEW p \in Provider, Rotate(p)
    PROVE  IndInv'
<1>0. TypeOK
  BY DEF IndInv
<1>1. UNCHANGED <<cache, refresh, lock, fetch, caller, loop, issuer, polled>>
  BY DEF Rotate
<1>2. PICK keys \in SUBSET Kid :
         /\ published' = [published EXCEPT ![p] = keys]
         /\ since' = [since EXCEPT ![p] =
                [k \in Kid |-> IF (k \in keys) = (k \in published[p]) THEN @[k] ELSE 0]]
         /\ healthyFor' = [healthyFor EXCEPT ![p] = IF keys = {} THEN 0 ELSE @]
  BY DEF Rotate
<1>3. /\ cache \in [Provider -> Cache] /\ fetch \in [Provider -> Fetch] /\ caller \in [Request -> Caller]
      /\ since \in [Provider -> [Kid -> 0 .. KeyMemory]] /\ published \in [Provider -> SUBSET Kid]
  BY <1>0, Shapes
<1> DEFINE new == [k \in Kid |-> IF (k \in keys) = (k \in published[p]) THEN since[p][k] ELSE 0]
<1>4. since[p] \in [Kid -> 0 .. KeyMemory]
  BY <1>3
<1>5. new \in [Kid -> 0 .. KeyMemory]
  BY <1>4, Periods
<1>6. since' = [since EXCEPT ![p] = new]
  BY <1>2, <1>3
<1>7. \A k \in Kid : (new[k] = since[p][k] /\ (k \in keys <=> k \in published[p])) \/ new[k] = 0
  OBVIOUS
<1> HIDE DEF new
<1>8. /\ since' \in [Provider -> [Kid -> 0 .. KeyMemory]] /\ published' \in [Provider -> SUBSET Kid]
      /\ since'[p] = new /\ published'[p] = keys
      /\ \A q \in Provider \ {p} : since'[q] = since[q] /\ published'[q] = published[q]
  BY <1>2, <1>3, <1>5, <1>6
<1>9. healthyFor' \in [Provider -> 0 .. HealthMemory]
  BY <1>0, <1>2, Periods DEF TypeOK
<1>10. TypeOK'
  BY <1>0, <1>1, <1>8, <1>9 DEF TypeOK, LocksAreOwned
<1>11. ASSUME NEW q \in Provider, NEW k \in Kid
       PROVE  \/ since'[q][k] = since[q][k] /\ (k \in published'[q] <=> k \in published[q])
              \/ since'[q][k] = 0
  BY <1>7, <1>8
<1>12. ASSUME NEW q \in Provider, NEW k \in Kid, NEW s \in Nat
       PROVE  /\ PublishedWithin(q, k, s) => k \in published'[q] \/ since'[q][k] <= s
              /\ UnpublishedWithin(q, k, s) => k \notin published'[q] \/ since'[q][k] <= s
  BY <1>11 DEF PublishedWithin, UnpublishedWithin
<1>13. \A q \in Provider : fetch[q].age \in Nat /\ cache[q].age + FetchTimeout \in Nat
                           /\ cache[q].keys \subseteq Kid
  BY <1>3, Periods DEF Fetch, Cache
<1>14. AnswersAreFresh'
  BY <1>1, <1>12, <1>13 DEF IndInv, AnswersAreFresh, PublishedWithin, UnpublishedWithin
<1>15. CachesAreBounded'
  BY <1>1, <1>12, <1>13 DEF IndInv, CachesAreBounded, PublishedWithin
<1>16. \A r \in Request : caller[r].provider \in Provider
  BY <1>3 DEF Caller
<1>17. RereadsAreInformed'
  BY <1>1, <1>12, <1>16, Periods DEF IndInv, RereadsAreInformed, UnpublishedWithin
<1> QED
  BY <1>1, <1>10, <1>14, <1>15, <1>17 DEF IndInv

\* An issuer gets into trouble, or out of it.
LEMMA TroubleChangeStep ==
    ASSUME IndInv, NEW p \in Provider, TroubleChange(p)
    PROVE  IndInv'
<1>1. UNCHANGED <<cache, refresh, lock, fetch, caller, loop, published, since, polled>>
  BY DEF TroubleChange
<1>2. issuer' \in [Provider -> {"up", "down", "misconfigured"}]
  BY ProviderAssumption DEF IndInv, TypeOK, TroubleChange
<1>3. healthyFor' \in [Provider -> 0 .. HealthMemory]
  BY Periods DEF IndInv, TypeOK, TroubleChange
<1>4. TypeOK'
  BY <1>1, <1>2, <1>3 DEF IndInv, TypeOK, LocksAreOwned
<1> QED
  BY <1>1, <1>4 DEF IndInv, AnswersAreFresh, CachesAreBounded, RereadsAreInformed, PublishedWithin,
                    UnpublishedWithin

\* A second passes: every age grows with it, and nobody is about to look again.
LEMMA TickStep ==
    ASSUME IndInv, Tick
    PROVE  IndInv'
<1>0. TypeOK
  BY DEF IndInv
<1>1. UNCHANGED <<lock, caller, published, issuer>>
  BY DEF Tick
<1>2. /\ cache \in [Provider -> Cache] /\ fetch \in [Provider -> Fetch]
      /\ refresh \in [Provider -> RefreshState] /\ polled \in [Provider -> 0 .. Retry]
      /\ since \in [Provider -> [Kid -> 0 .. KeyMemory]] /\ loop \in Loop /\ LocksAreOwned
  BY <1>0, Shapes
<1>3. ASSUME NEW p \in Provider
      PROVE  /\ cache'[p] \in Cache /\ cache'[p].keys = cache[p].keys
             /\ cache'[p].age < HardStale => cache'[p].age = cache[p].age + 1
  <2>1. cache[p] \in Cache /\ cache'[p] = [cache[p] EXCEPT !.age = Older(@, HardStale)]
    BY <1>2 DEF Tick
  <2>2. cache[p].age \in 0 .. HardStale
    BY <2>1 DEF Cache
  <2>3. Older(cache[p].age, HardStale) \in 0 .. HardStale
        /\ (Older(cache[p].age, HardStale) < HardStale => Older(cache[p].age, HardStale) = cache[p].age + 1)
    BY <2>2, OlderType, Periods
  <2> QED
    BY <2>1, <2>3 DEF Cache
<1>4. cache' \in [Provider -> Cache]
  BY <1>3 DEF Tick
<1>5. ASSUME NEW p \in Provider
      PROVE  /\ refresh'[p] \in RefreshState /\ polled'[p] \in 0 .. Retry
             /\ polled'[p] = refresh'[p].forcedAge
  <2>1. refresh[p] \in RefreshState /\ polled[p] \in 0 .. Retry /\ polled[p] = refresh[p].forcedAge
    BY <1>2 DEF IndInv
  <2>2. refresh'[p] = [softAge |-> Older(refresh[p].softAge, Retry),
                       forcedAge |-> Older(refresh[p].forcedAge, Retry)]
        /\ polled'[p] = Older(polled[p], Retry)
    BY DEF Tick
  <2>3. Older(refresh[p].softAge, Retry) \in 0 .. Retry /\ Older(refresh[p].forcedAge, Retry) \in 0 .. Retry
    BY <2>1, OlderType, Periods DEF RefreshState
  <2> QED
    BY <2>1, <2>2, <2>3 DEF RefreshState
<1>6. refresh' \in [Provider -> RefreshState] /\ polled' \in [Provider -> 0 .. Retry]
  BY <1>5 DEF Tick
<1>7. ASSUME NEW p \in Provider
      PROVE  /\ fetch'[p] \in Fetch /\ fetch'[p].keys = fetch[p].keys /\ fetch'[p].stage = fetch[p].stage
             /\ lock[p] # "nobody" => fetch'[p].age = fetch[p].age + 1
  <2>1. /\ fetch[p] \in Fetch
        /\ lock[p] # "nobody" => fetch[p].age < FetchTimeout
        /\ fetch'[p] = [fetch[p] EXCEPT !.age = IF lock[p] = "nobody" THEN 0 ELSE @ + 1]
    BY <1>2 DEF Tick
  <2> QED
    BY <2>1, Periods DEF Fetch
<1>8. fetch' \in [Provider -> Fetch]
  BY <1>7 DEF Tick
<1>9. loop' \in Loop /\ loop'.pending = loop.pending
  <2>1. loop.sleep \in 0 .. Retry /\ loop.pending \in SUBSET Provider
    BY <1>2 DEF Loop
  <2>2. (IF loop.sleep > 0 THEN loop.sleep - 1 ELSE 0) \in 0 .. Retry
    BY <2>1, Periods
  <2>3. loop' = [loop EXCEPT !.sleep = IF loop.sleep > 0 THEN loop.sleep - 1 ELSE 0]
    BY DEF Tick
  <2> QED
    BY <1>2, <2>2, <2>3 DEF Loop
<1>10. ASSUME NEW p \in Provider, NEW k \in Kid
       PROVE  since[p][k] \in 0 .. KeyMemory /\ since'[p][k] \in 0 .. KeyMemory
              /\ since'[p][k] <= since[p][k] + 1
  <2>1. since[p][k] \in 0 .. KeyMemory /\ since'[p][k] = Older(since[p][k], KeyMemory)
    BY <1>2 DEF Tick
  <2> QED
    BY <2>1, OlderType, Periods
<1>11. since' \in [Provider -> [Kid -> 0 .. KeyMemory]]
  BY <1>10 DEF Tick
<1>12. healthyFor' \in [Provider -> 0 .. HealthMemory]
  <2>1. \A p \in Provider : healthyFor[p] \in 0 .. HealthMemory
    BY <1>0 DEF TypeOK
  <2>2. \A p \in Provider : (IF Healthy(p) THEN Older(healthyFor[p], HealthMemory) ELSE 0) \in 0 .. HealthMemory
    <3>1. \A p \in Provider : Older(healthyFor[p], HealthMemory) \in 0 .. HealthMemory
      BY <2>1, OlderType, Periods
    <3>2. 0 \in 0 .. HealthMemory
      BY Periods
    <3>3. ASSUME NEW p \in Provider
          PROVE  (IF Healthy(p) THEN Older(healthyFor[p], HealthMemory) ELSE 0) \in 0 .. HealthMemory
      <4>1. CASE Healthy(p)
        BY <3>1, <4>1
      <4>2. CASE ~Healthy(p)
        BY <3>2, <4>2
      <4> QED
        BY <4>1, <4>2
    <3> QED
      BY <3>3
  <2> QED
    BY <2>2 DEF Tick
<1>13. LocksAreOwned'
  BY <1>1, <1>2, <1>7, <1>9 DEF LocksAreOwned
<1>14. TypeOK'
  BY <1>0, <1>1, <1>4, <1>6, <1>8, <1>9, <1>11, <1>12, <1>13 DEF TypeOK, Cache, RefreshState, Loop
<1>15. ASSUME NEW p \in Provider, NEW k \in Kid, NEW s \in Nat
       PROVE  /\ PublishedWithin(p, k, s) => k \in published'[p] \/ since'[p][k] <= s + 1
              /\ UnpublishedWithin(p, k, s) => k \notin published'[p] \/ since'[p][k] <= s + 1
  BY <1>1, <1>10 DEF PublishedWithin, UnpublishedWithin
<1>16. ASSUME NEW p \in Provider
       PROVE  /\ fetch'[p].stage # "store" => fetch'[p].keys = {}
              /\ fetch'[p].stage = "store" => \A k \in Kid :
                    IF k \in fetch'[p].keys THEN k \in published'[p] \/ since'[p][k] <= fetch'[p].age
                    ELSE k \notin published'[p] \/ since'[p][k] <= fetch'[p].age
  <2>1. fetch[p].age \in Nat
    BY <1>2, Periods DEF Fetch
  <2>2. fetch[p].stage = "store" => lock[p] # "nobody"
    BY <1>2 DEF LocksAreOwned
  <2>3. fetch[p].stage # "store" => fetch[p].keys = {}
    BY DEF IndInv, AnswersAreFresh
  <2>4. ASSUME fetch[p].stage = "store", NEW k \in Kid
        PROVE  IF k \in fetch[p].keys THEN k \in published'[p] \/ since'[p][k] <= fetch[p].age + 1
               ELSE k \notin published'[p] \/ since'[p][k] <= fetch[p].age + 1
    BY <1>15, <2>1, <2>4 DEF IndInv, AnswersAreFresh
  <2> QED
    BY <1>7, <2>2, <2>3, <2>4
<1>17. AnswersAreFresh'
  BY <1>16 DEF AnswersAreFresh, PublishedWithin, UnpublishedWithin
<1>18. CachesAreBounded'
  <2> SUFFICES ASSUME NEW p \in Provider, cache'[p].age <= MaxStaleness, NEW k \in cache'[p].keys
               PROVE  k \in published'[p] \/ since'[p][k] <= cache'[p].age + FetchTimeout
    BY DEF CachesAreBounded, PublishedWithin
  <2>1. cache[p].age \in Nat /\ k \in Kid /\ k \in cache[p].keys /\ cache'[p].age \in Nat
    BY <1>2, <1>3, Periods DEF Cache
  <2>2. cache'[p].age = cache[p].age + 1 /\ cache[p].age <= MaxStaleness
    BY <1>3, <2>1, Periods
  <2>3. PublishedWithin(p, k, cache[p].age + FetchTimeout)
    BY <2>1, <2>2 DEF IndInv, CachesAreBounded
  <2>4. k \in published'[p] \/ since'[p][k] <= cache[p].age + FetchTimeout + 1
    BY <1>15, <2>1, <2>3, Periods
  <2> QED
    BY <1>10, <2>1, <2>2, <2>4, Periods
<1>19. RereadsAreInformed'
  BY <1>1 DEF Tick, Runnable, RereadsAreInformed
<1> QED
  BY <1>5, <1>14, <1>17, <1>18, <1>19 DEF IndInv

-----------------------------------------------------------------------------
(* The theorems.                                                            *)

\* Every step of the verifier set keeps the inductive invariant.
LEMMA NextIndInv == IndInv /\ [Next]_vars => IndInv'
<1> SUFFICES ASSUME IndInv, [Next]_vars PROVE IndInv'
  OBVIOUS
<1>1. CASE UNCHANGED vars
  BY <1>1 DEF vars, IndInv, TypeOK, LocksAreOwned, AnswersAreFresh, CachesAreBounded,
              RereadsAreInformed, PublishedWithin, UnpublishedWithin
<1>2. ASSUME NEW r \in Request, Step(r) \/ Disconnect(r) PROVE IndInv'
  BY <1>2, LookStep, RefreshForUnknownKidStep, DisconnectStep DEF Step
<1>3. ASSUME NEW r \in Request, NEW p \in Provider, NEW k \in Kid, Verify(r, p, k) PROVE IndInv'
  BY <1>3, VerifyStep
<1>4. ASSUME NEW p \in Provider, RefreshSoftIfDue(p) \/ Refreshing(p) \/ Rotate(p) \/ TroubleChange(p)
      PROVE  IndInv'
  BY <1>4, RefreshSoftIfDueStep, RefreshingStep, RotateStep, TroubleChangeStep
<1>5. CASE StartRound \/ Tick
  BY <1>5, StartRoundStep, TickStep
<1> QED
  BY <1>1, <1>2, <1>3, <1>4, <1>5 DEF Next

\* In every reachable state each provider's mutex is held by exactly the future
\* inside its refresh, and what is fetched and cached is bounded in age.
THEOREM ProvidersInvariant == Spec => []IndInv
  BY InitIndInv, NextIndInv, PTL DEF Spec

\* Every reachable state is type-correct, mutexes included.
THEOREM ProvidersTypes == Spec => []TypeOK
<1>1. IndInv => TypeOK
  BY DEF IndInv
<1> QED
  BY <1>1, ProvidersInvariant, PTL

\* The verdict of a step: which action it is, and what that saw.
LEMMA VerdictStep ==
    ASSUME IndInv, [Next]_vars, NEW r \in Request, NEW v \in {"Ok", "Invalid"}, Returns(r, v)
    PROVE  LET p == caller[r].provider
           IN  \/ v = "Ok" /\ CacheIsUsable(p) /\ caller[r].kid \in cache[p].keys
               \/ v = "Invalid" /\ caller[r].pc = "reread" /\ caller[r].kid \notin cache[p].keys
               \/ v = "Invalid" /\ issuer[p] = "misconfigured"
<1>0. caller \in [Request -> Caller] /\ caller[r].pc # v /\ caller'[r].pc = v /\ LocksAreOwned
  BY Shapes DEF IndInv, Returns
<1>1. ASSUME NEW q \in Request, NEW pc, Goto(q, pc), pc # v PROVE FALSE
  <2>1. caller'[q].pc = pc
    BY <1>0, <1>1 DEF Goto, Caller
  <2>2. q # r => caller'[r] = caller[r]
    BY <1>0, <1>1 DEF Goto
  <2> QED
    BY <1>0, <1>1, <2>1, <2>2
<1>2. ASSUME NEW q \in Request, NEW w, Return(q, w) PROVE q = r /\ w = v
  <2>1. [NoCall EXCEPT !.pc = w].pc = w
    BY DEF NoCall
  <2> QED
    BY <1>0, <1>2, <2>1 DEF Return
<1>3. ASSUME NEW q \in Request, NEW p \in Provider, NEW k \in Kid, Verify(q, p, k) PROVE FALSE
  BY <1>0, <1>3 DEF Verify
<1>4. ASSUME UNCHANGED caller PROVE FALSE
  BY <1>0, <1>4
<1>5. ASSUME NEW q \in Request, Key(q) \/ Reread(q)
      PROVE  LET p == caller[r].provider
             IN  \/ v = "Ok" /\ CacheIsUsable(p) /\ caller[r].kid \in cache[p].keys
                 \/ v = "Invalid" /\ caller[r].pc = "reread" /\ caller[r].kid \notin cache[p].keys
  <2>1. CASE Key(q)
    BY <1>1, <1>2, <2>1, "lock" # v, "Unavailable" # v DEF Key
  <2>2. CASE Reread(q)
    BY <1>2, <2>2, "Unavailable" # v DEF Reread
  <2> QED
    BY <1>5, <2>1, <2>2
<1>6. ASSUME NEW q \in Request, RefreshForUnknownKid(q) \/ Disconnect(q) PROVE FALSE
  BY <1>1, <1>2, <1>6, "fetch" # v, "Unavailable" # v, "idle" # v DEF RefreshForUnknownKid, Disconnect
<1>7. ASSUME NEW p \in Provider, NEW w, EndRefresh(p, w) PROVE w = v /\ w # "Ok" /\ caller[r].provider = p
  <2>1. lock[p] \in Request
    BY <1>4, <1>7 DEF EndRefresh
  <2>2. w # "Ok" /\ Return(lock[p], w)
    BY <1>1, <1>4, <1>7, <2>1, "reread" # v DEF EndRefresh
  <2>3. lock[p] = r /\ w = v
    BY <1>2, <2>1, <2>2
  <2> QED
    BY <1>0, <2>2, <2>3 DEF LocksAreOwned
<1>8. ASSUME NEW p \in Provider, Refreshing(p)
      PROVE  v = "Invalid" /\ issuer[caller[r].provider] = "misconfigured"
  <2>1. CASE Discovered(p) \/ JwksAnswered(p)
    BY <1>4, <2>1 DEF Discovered, JwksAnswered
  <2>2. CASE FetchFailed(p)
    BY <1>7, <2>2, "Unavailable" # v DEF FetchFailed
  <2>3. CASE StoreKeys(p)
    BY <1>7, <2>3, "Unavailable" # v DEF StoreKeys
  <2> QED
    BY <1>8, <2>1, <2>2, <2>3 DEF Refreshing
<1>9. ASSUME \/ StartRound \/ Tick \/ UNCHANGED vars
             \/ \E p \in Provider : RefreshSoftIfDue(p) \/ Rotate(p) \/ TroubleChange(p)
      PROVE  FALSE
  BY <1>4, <1>9 DEF StartRound, Tick, RefreshSoftIfDue, Rotate, TroubleChange, vars
<1> QED
  BY <1>3, <1>5, <1>6, <1>8, <1>9 DEF Next, Step

\* A key that a provider's verifier hands out is published, or was within the
\* hard bound and one fetch, for every number of providers and requests.
THEOREM ProviderKeysExpire == Spec => WithdrawnKeysExpire
<1>1. ASSUME IndInv, [Next]_vars, NEW r \in Request, Returns(r, "Ok")
      PROVE  PublishedWithin(caller[r].provider, caller[r].kid, MaxStaleness + FetchTimeout)
  <2>1. PICK p \in Provider, k \in Kid : p = caller[r].provider /\ k = caller[r].kid
    BY <1>1, Shapes DEF IndInv, Caller
  <2>2. CacheIsUsable(p) /\ k \in cache[p].keys
    BY <1>1, <2>1, VerdictStep
  <2>3. cache[p].age \in Nat /\ cache[p].age <= MaxStaleness /\ since[p][k] \in Nat
    BY <1>1, <2>2, Shapes, Periods DEF IndInv, CacheIsUsable, Cache
  <2>4. PublishedWithin(p, k, cache[p].age + FetchTimeout)
    BY <1>1, <2>2, <2>3 DEF IndInv, CachesAreBounded
  <2> QED
    BY <2>1, <2>3, <2>4, Periods DEF PublishedWithin
<1>2. IndInv /\ [Next]_vars =>
        [\A r \in Request : Returns(r, "Ok") =>
            PublishedWithin(caller[r].provider, caller[r].kid, MaxStaleness + FetchTimeout)]_vars
  BY <1>1
<1> QED
  BY <1>2, ProvidersInvariant, PTL DEF Spec, WithdrawnKeysExpire

\* key() refuses a key as unknown only on what its issuer said when this very
\* request asked, or because the discovery document is not the provider's.
THEOREM InformedRefusals == Spec => RefusalsAreInformed
<1>1. ASSUME IndInv, [Next]_vars, NEW r \in Request, Returns(r, "Invalid")
      PROVE  \/ caller[r].kid \notin published[caller[r].provider]
             \/ since[caller[r].provider][caller[r].kid] <= FetchTimeout
             \/ issuer[caller[r].provider] = "misconfigured"
  <2>1. caller[r].kid \in Kid
    BY <1>1, Shapes DEF IndInv, Caller
  <2>2. \/ caller[r].pc = "reread" /\ caller[r].kid \notin cache[caller[r].provider].keys
        \/ issuer[caller[r].provider] = "misconfigured"
    BY <1>1, VerdictStep
  <2> QED
    BY <1>1, <2>1, <2>2 DEF IndInv, RereadsAreInformed, UnpublishedWithin
<1>2. IndInv /\ [Next]_vars =>
        [\A r \in Request : Returns(r, "Invalid") =>
          LET p == caller[r].provider
              k == caller[r].kid
          IN  \/ k \notin published[p] \/ since[p][k] <= FetchTimeout
              \/ issuer[p] = "misconfigured"]_vars
  BY <1>1
<1> QED
  BY <1>2, ProvidersInvariant, PTL DEF Spec, RefusalsAreInformed

\* Requests send fetches to one provider at least the retry window apart,
\* however many there are and however many of them are dropped.
THEOREM SpacedProviderFetches == Spec => ForcedFetchesAreSpaced
<1>1. ASSUME IndInv, [Next]_vars, NEW r \in Request, NEW p \in Provider, lock[p] # r, lock'[p] = r
      PROVE  polled[p] >= Retry
  <2>0. lock \in [Provider -> Request \cup {"loop", "nobody"}] /\ polled[p] = refresh[p].forcedAge
        /\ polled[p] \in 0 .. Retry
    BY <1>1, Shapes DEF IndInv
  <2>1. r # "nobody" /\ r # "loop" /\ lock'[p] # lock[p]
    BY <1>1, ProviderAssumption
  <2>2. ASSUME NEW q \in Request, RefreshForUnknownKid(q) PROVE polled[p] >= Retry
    <3>1. StartFetch(q, caller[q].provider) /\ ~AttemptedRecently(refresh[caller[q].provider].forcedAge)
      BY <2>1, <2>2 DEF RefreshForUnknownKid
    <3>2. p = caller[q].provider
      BY <2>0, <2>1, <3>1 DEF StartFetch
    <3> QED
      BY <2>0, <3>1, <3>2, Periods DEF AttemptedRecently
  <2>3. ASSUME NEW q \in Provider, NEW w, lock' = [lock EXCEPT ![q] = w], w \in {"nobody", "loop"} PROVE FALSE
    BY <1>1, <2>0, <2>1, <2>3
  <2>4. ASSUME NEW q \in Request, Key(q) \/ Reread(q) \/ Disconnect(q) PROVE FALSE
    <3>1. caller[q].provider \in Provider
      BY <1>1, Shapes DEF IndInv, Caller
    <3> QED
      BY <2>1, <2>3, <2>4, <3>1 DEF Key, Reread, Disconnect
  <2>5. ASSUME NEW q \in Provider, RefreshSoftIfDue(q) \/ Refreshing(q) PROVE FALSE
    BY <2>1, <2>3, <2>5 DEF RefreshSoftIfDue, StartFetch, Refreshing, Discovered, JwksAnswered,
                            FetchFailed, StoreKeys, EndRefresh
  <2>6. ASSUME \/ StartRound \/ Tick \/ UNCHANGED vars
               \/ \E q \in Provider : Rotate(q) \/ TroubleChange(q)
               \/ \E q \in Request, s \in Provider, k \in Kid : Verify(q, s, k)
        PROVE  FALSE
    BY <2>1, <2>6 DEF StartRound, Tick, Rotate, TroubleChange, Verify, vars
  <2> QED
    BY <1>1, <2>2, <2>4, <2>5, <2>6 DEF Next, Step
<1>2. IndInv /\ [Next]_vars =>
        [\A r \in Request, p \in Provider : lock[p] # r /\ lock'[p] = r => polled[p] >= Retry]_vars
  BY <1>1
<1> QED
  BY <1>2, ProvidersInvariant, PTL DEF Spec, ForcedFetchesAreSpaced

-----------------------------------------------------------------------------
(* Why a healthy provider is ready whatever the others do.                  *)

\* How long the round can have lasted, by the provider it waits for.
Ages == [p \in Provider |-> RoundAge(p)]

\* The cases of RoundAge.
AgesAre ==
    \A p \in Provider :
        /\ Ages[p] \in 0 .. 4 * FetchTimeout
        /\ lock[p] = "nobody" =>
              Ages[p] = IF refresh[p].forcedAge < Retry THEN 2 * FetchTimeout ELSE 0
        /\ lock[p] = "loop" /\ fetch[p].stage = "discovery" =>
              Ages[p] = 2 * FetchTimeout + fetch[p].age
        /\ lock[p] = "loop" /\ fetch[p].stage # "discovery" =>
              Ages[p] = 3 * FetchTimeout + fetch[p].age
        /\ lock[p] \in Request /\ fetch[p].stage = "discovery" => Ages[p] = fetch[p].age
        /\ lock[p] \in Request /\ fetch[p].stage # "discovery" =>
              Ages[p] = FetchTimeout + fetch[p].age

\* RefreshesAreTimed in terms of Ages.
RefreshesAre ==
    \A p \in Provider :
        /\ lock[p] \in Request => refresh[p].forcedAge <= Ages[p]
        /\ lock[p] = "loop" => \A q \in loop.pending : fetch[p].age <= Ages[q]
        /\ loop.pending = {} => refresh[p].softAge + loop.sleep >= Retry
        /\ p \in loop.pending /\ lock[p] # "loop" => refresh[p].softAge >= Retry

\* RoundsAreTimely in terms of Ages.
RoundsAre ==
    \A p \in Provider :
        /\ cache[p].keys = {} => cache[p].age = HardStale
        /\ loop.pending = {} =>
              \/ cache[p].age < SoftRefresh + (4 * FetchTimeout + Retry - loop.sleep)
              \/ healthyFor[p] <= 4 * FetchTimeout + Retry - loop.sleep
        /\ p \notin loop.pending => \A q \in loop.pending :
              cache[p].age < SoftRefresh + Ages[q] \/ healthyFor[p] <= Ages[q]
        /\ p \in loop.pending =>
              \/ cache[p].age < SoftRefresh + (4 * FetchTimeout + Retry + Ages[p])
              \/ healthyFor[p] <= 4 * FetchTimeout + Retry + Ages[p]

\* The numbers of a state that the invariant admits.
Numbers ==
    /\ \A p \in Provider :
          /\ cache[p].age \in Nat /\ healthyFor[p] \in Nat /\ fetch[p].age \in 0 .. FetchTimeout
          /\ refresh[p].softAge \in 0 .. Retry /\ refresh[p].forcedAge \in 0 .. Retry
          /\ lock[p] \in Request \cup {"loop", "nobody"}
    /\ loop.sleep \in 0 .. Retry /\ loop.pending \subseteq Provider

LEMMA NumbersHold == IndInv => Numbers
<1> SUFFICES ASSUME IndInv PROVE Numbers
  OBVIOUS
<1>1. /\ cache \in [Provider -> Cache] /\ refresh \in [Provider -> RefreshState]
      /\ lock \in [Provider -> Request \cup {"loop", "nobody"}] /\ fetch \in [Provider -> Fetch]
      /\ loop \in Loop
  BY Shapes DEF IndInv
<1>2. healthyFor \in [Provider -> 0 .. HealthMemory]
  BY DEF IndInv, TypeOK
<1>3. \A p \in Provider : cache[p].age \in Nat /\ healthyFor[p] \in Nat
  BY <1>1, <1>2, Periods DEF Cache
<1>4. \A p \in Provider : /\ fetch[p].age \in 0 .. FetchTimeout
                          /\ refresh[p].softAge \in 0 .. Retry /\ refresh[p].forcedAge \in 0 .. Retry
  BY <1>1 DEF Fetch, RefreshState
<1>5. loop.sleep \in 0 .. Retry /\ loop.pending \subseteq Provider
  BY <1>1 DEF Loop
<1> QED
  BY <1>1, <1>3, <1>4, <1>5 DEF Numbers

LEMMA NumbersNext == IndInv' => Numbers'
BY NumbersHold, PTL

LEMMA AgesHold == IndInv => AgesAre
<1> SUFFICES ASSUME IndInv, NEW p \in Provider
             PROVE  /\ Ages[p] \in 0 .. 4 * FetchTimeout
                    /\ lock[p] = "nobody" =>
                          Ages[p] = IF refresh[p].forcedAge < Retry THEN 2 * FetchTimeout ELSE 0
                    /\ lock[p] = "loop" /\ fetch[p].stage = "discovery" =>
                          Ages[p] = 2 * FetchTimeout + fetch[p].age
                    /\ lock[p] = "loop" /\ fetch[p].stage # "discovery" =>
                          Ages[p] = 3 * FetchTimeout + fetch[p].age
                    /\ lock[p] \in Request /\ fetch[p].stage = "discovery" => Ages[p] = fetch[p].age
                    /\ lock[p] \in Request /\ fetch[p].stage # "discovery" =>
                          Ages[p] = FetchTimeout + fetch[p].age
  BY DEF AgesAre
<1>1. lock[p] \in Request \cup {"loop", "nobody"} /\ fetch[p].age \in 0 .. FetchTimeout
  BY NumbersHold DEF Numbers
<1>2. Ages[p] = RoundAge(p)
  BY DEF Ages
<1>3. CASE lock[p] = "nobody"
  BY <1>2, <1>3, Periods, ProviderAssumption DEF RoundAge, AttemptedRecently
<1>4. CASE lock[p] = "loop"
  BY <1>1, <1>2, <1>4, Periods, ProviderAssumption DEF RoundAge, Elapsed
<1>5. CASE lock[p] \in Request
  BY <1>1, <1>2, <1>5, Periods, ProviderAssumption DEF RoundAge, Elapsed
<1> QED
  BY <1>1, <1>3, <1>4, <1>5

LEMMA AgesNext == IndInv' => AgesAre'
BY AgesHold, PTL

\* The two parts of the invariant that speak of RoundAge.
LEMMA TimesHold == IndInv => (RefreshesAreTimed <=> RefreshesAre) /\ (RoundsAreTimely <=> RoundsAre)
<1> SUFFICES ASSUME IndInv PROVE (RefreshesAreTimed <=> RefreshesAre) /\ (RoundsAreTimely <=> RoundsAre)
  OBVIOUS
<1>1. /\ \A p \in Provider : Ages[p] = RoundAge(p)
      /\ \A q \in loop.pending : q \in Provider
  BY NumbersHold DEF Ages, Numbers
<1>2. \A p \in Provider : lock[p] \in Request => RoundAge(p) = Elapsed(p)
  BY ProviderAssumption DEF RoundAge
<1>3. RefreshesAreTimed <=> RefreshesAre
  BY <1>1, <1>2 DEF RefreshesAreTimed, RefreshesAre
<1>4. RoundsAreTimely <=> RoundsAre
  BY <1>1 DEF RoundsAreTimely, RoundsAre, CheckedWithin
<1> QED
  BY <1>3, <1>4

LEMMA TimesNext ==
    IndInv' => (RefreshesAreTimed' <=> RefreshesAre') /\ (RoundsAreTimely' <=> RoundsAre')
BY TimesHold, PTL

\* A provider that a step leaves alone keeps its age.
LEMMA AgeKept ==
    ASSUME IndInv, IndInv', NEW q \in Provider, lock'[q] = lock[q], fetch'[q] = fetch[q],
           refresh'[q].forcedAge = refresh[q].forcedAge
    PROVE  Ages'[q] = Ages[q]
<1>1. lock[q] \in Request \cup {"loop", "nobody"}
  BY NumbersHold DEF Numbers
<1>2. AgesAre /\ AgesAre'
  BY AgesHold, AgesNext
<1> QED
  BY <1>1, <1>2 DEF AgesAre

\* While the rounds go on, a provider falls behind no faster than time passes.
LEMMA RoundsGoOn ==
    ASSUME IndInv, IndInv', RoundsAre, NEW d \in {0, 1},
           loop'.pending = loop.pending, loop.pending = {} => loop'.sleep + d = loop.sleep,
           \A p \in loop.pending : Ages'[p] >= Ages[p] + d,
           \A p \in Provider : /\ cache'[p].age <= cache[p].age + d
                               /\ healthyFor'[p] <= healthyFor[p] + d
                               /\ cache'[p].keys = {} => cache'[p].age = HardStale
    PROVE  RoundsAre'
<1>0. Numbers /\ Numbers' /\ AgesAre /\ AgesAre'
  BY NumbersHold, NumbersNext, AgesHold, AgesNext
<1>1. \A p \in Provider : Ages[p] \in Nat /\ Ages'[p] \in Nat
  BY <1>0, Periods DEF AgesAre
<1>2. \A p \in Provider : /\ cache[p].age \in Nat /\ healthyFor[p] \in Nat
                          /\ cache'[p].age \in Nat /\ healthyFor'[p] \in Nat
  BY <1>0 DEF Numbers
<1>3. loop.sleep \in Nat /\ loop'.sleep \in Nat /\ loop.pending \subseteq Provider
  BY <1>0, Periods DEF Numbers
<1>4. ASSUME NEW p \in Provider, NEW x \in Int, NEW y \in Int, y >= x + d,
             cache[p].age < SoftRefresh + x \/ healthyFor[p] <= x
      PROVE  cache'[p].age < SoftRefresh + y \/ healthyFor'[p] <= y
  <2>1. /\ cache[p].age \in Nat /\ healthyFor[p] \in Nat /\ cache'[p].age \in Nat /\ healthyFor'[p] \in Nat
        /\ cache'[p].age <= cache[p].age + d /\ healthyFor'[p] <= healthyFor[p] + d
    BY <1>2
  <2> QED
    BY <1>4, <2>1, Periods
<1>5. ASSUME NEW p \in Provider, loop.pending = {}
      PROVE  \/ cache'[p].age < SoftRefresh + (4 * FetchTimeout + Retry - loop'.sleep)
             \/ healthyFor'[p] <= 4 * FetchTimeout + Retry - loop'.sleep
  <2>1. PICK x \in Int, y \in Int : /\ x = 4 * FetchTimeout + Retry - loop.sleep
                                    /\ y = 4 * FetchTimeout + Retry - loop'.sleep
    BY <1>3, Periods
  <2>2. y >= x + d
    BY <1>3, <1>5, <2>1, Periods
  <2>3. cache[p].age < SoftRefresh + x \/ healthyFor[p] <= x
    BY <1>5, <2>1 DEF RoundsAre
  <2>4. cache'[p].age < SoftRefresh + y \/ healthyFor'[p] <= y
    BY <1>4, <2>2, <2>3
  <2> QED
    BY <2>1, <2>4
<1>6. ASSUME NEW p \in Provider, p \notin loop.pending, NEW q \in loop.pending
      PROVE  cache'[p].age < SoftRefresh + Ages'[q] \/ healthyFor'[p] <= Ages'[q]
  BY <1>1, <1>3, <1>4, <1>6 DEF RoundsAre
<1>7. ASSUME NEW p \in Provider, p \in loop.pending
      PROVE  \/ cache'[p].age < SoftRefresh + (4 * FetchTimeout + Retry + Ages'[p])
             \/ healthyFor'[p] <= 4 * FetchTimeout + Retry + Ages'[p]
  <2>1. PICK x \in Int, y \in Int : /\ x = 4 * FetchTimeout + Retry + Ages[p]
                                    /\ y = 4 * FetchTimeout + Retry + Ages'[p]
    BY <1>1, Periods
  <2>2. y >= x + d
    BY <1>1, <1>7, <2>1, Periods
  <2>3. cache[p].age < SoftRefresh + x \/ healthyFor[p] <= x
    BY <1>7, <2>1 DEF RoundsAre
  <2>4. cache'[p].age < SoftRefresh + y \/ healthyFor'[p] <= y
    BY <1>4, <2>2, <2>3
  <2> QED
    BY <2>1, <2>4
<1> QED
  BY <1>5, <1>6, <1>7 DEF RoundsAre

\* The attempts of a step within a round, or between two.
LEMMA RefreshesGoOn ==
    ASSUME IndInv, IndInv', RefreshesAre, NEW d \in {0, 1},
           loop'.pending = loop.pending, loop.pending = {} => loop'.sleep + d = loop.sleep,
           \A p \in loop.pending : Ages'[p] >= Ages[p] + d,
           \A p \in Provider :
              /\ lock'[p] \in Request => refresh'[p].forcedAge <= Ages'[p]
              /\ lock'[p] = "loop" => \/ fetch'[p].age = 0
                                      \/ lock[p] = "loop" /\ fetch'[p].age <= fetch[p].age + d
              /\ \/ lock'[p] = "loop" /\ p \in loop.pending
                 \/ /\ lock[p] = "loop" => lock'[p] = "loop"
                    /\ refresh'[p].softAge >= Retry \/ refresh'[p].softAge >= refresh[p].softAge + d
    PROVE  RefreshesAre'
<1>0. Numbers /\ Numbers' /\ AgesAre /\ AgesAre'
  BY NumbersHold, NumbersNext, AgesHold, AgesNext
<1>1. \A p \in Provider : Ages[p] \in Nat /\ Ages'[p] \in Nat
  BY <1>0, Periods DEF AgesAre
<1>2. \A p \in Provider : /\ fetch[p].age \in Nat /\ fetch'[p].age \in Nat
                          /\ refresh[p].softAge \in Nat /\ refresh'[p].softAge \in Nat
  BY <1>0, Periods DEF Numbers
<1>3. loop.sleep \in Nat /\ loop'.sleep \in Nat /\ loop.pending \subseteq Provider
  BY <1>0, Periods DEF Numbers
<1>4. ASSUME NEW p \in Provider, lock'[p] = "loop", NEW q \in loop.pending
      PROVE  fetch'[p].age <= Ages'[q]
  <2>0. q \in Provider
    BY <1>3
  <2>1. CASE fetch'[p].age = 0
    BY <1>1, <2>0, <2>1
  <2>2. CASE lock[p] = "loop" /\ fetch'[p].age <= fetch[p].age + d
    <3>1. fetch[p].age <= Ages[q]
      BY <2>2 DEF RefreshesAre
    <3>2. Ages'[q] >= Ages[q] + d
      OBVIOUS
    <3> QED
      BY <1>1, <1>2, <2>0, <2>2, <3>1, <3>2
  <2> QED
    BY <1>4, <2>1, <2>2
<1>5. ASSUME NEW p \in Provider, loop.pending = {} PROVE refresh'[p].softAge + loop'.sleep >= Retry
  <2>1. refresh[p].softAge + loop.sleep >= Retry /\ loop'.sleep + d = loop.sleep
    BY <1>5 DEF RefreshesAre
  <2>2. refresh'[p].softAge >= Retry \/ refresh'[p].softAge >= refresh[p].softAge + d
    BY <1>5
  <2> QED
    BY <1>2, <1>3, <2>1, <2>2, Periods
<1>6. ASSUME NEW p \in Provider, p \in loop.pending, lock'[p] # "loop" PROVE refresh'[p].softAge >= Retry
  <2>1. lock[p] # "loop"
    BY <1>6
  <2>2. refresh[p].softAge >= Retry
    BY <1>6, <2>1 DEF RefreshesAre
  <2>3. refresh'[p].softAge >= Retry \/ refresh'[p].softAge >= refresh[p].softAge + d
    BY <1>6
  <2> QED
    BY <1>2, <2>2, <2>3, Periods
<1> QED
  BY <1>4, <1>5, <1>6 DEF RefreshesAre

\* The invariant in terms of Ages.
LEMMA IsolatedParts ==
    IsolatedInv <=> IndInv /\ RefreshesAre /\ TroubleIsTimed /\ RoundsAre
BY TimesHold DEF IsolatedInv

LEMMA IsolatedPartsNext ==
    IsolatedInv' <=> IndInv' /\ RefreshesAre' /\ TroubleIsTimed' /\ RoundsAre'
BY IsolatedParts, PTL

\* A step at one provider that takes no time and joins nothing.
LEMMA ProviderStep ==
    ASSUME IsolatedInv, IndInv', NEW p \in Provider,
           UNCHANGED <<loop, published, issuer, healthyFor>>,
           \A q \in Provider \ {p} : /\ lock'[q] = lock[q] /\ fetch'[q] = fetch[q]
                                     /\ refresh'[q] = refresh[q] /\ cache'[q] = cache[q],
           cache'[p].age <= cache[p].age, cache'[p].keys = {} => cache'[p].age = HardStale,
           p \in loop.pending => Ages'[p] >= Ages[p],
           lock'[p] \in Request => refresh'[p].forcedAge <= Ages'[p],
           lock'[p] = "loop" => \/ fetch'[p].age = 0
                                \/ lock[p] = "loop" /\ fetch'[p].age <= fetch[p].age,
           \/ lock'[p] = "loop" /\ p \in loop.pending
           \/ /\ lock[p] = "loop" => lock'[p] = "loop"
              /\ refresh'[p].softAge >= refresh[p].softAge,
           fetch'[p].stage = "store" /\ fetch'[p].keys = {} => healthyFor[p] <= fetch'[p].age
    PROVE  IsolatedInv'
<1>0. IndInv /\ RefreshesAre /\ TroubleIsTimed /\ RoundsAre
  BY IsolatedParts
<1>1. Numbers /\ Numbers' /\ AgesAre /\ AgesAre'
  BY <1>0, NumbersHold, NumbersNext, AgesHold, AgesNext
<1>2. \A q \in Provider \ {p} : Ages'[q] = Ages[q]
  BY <1>0, AgeKept
<1>3. \A q \in Provider : Ages[q] \in Nat /\ Ages'[q] \in Nat
  BY <1>1, Periods DEF AgesAre
<1>4. \A q \in Provider : /\ cache[q].age \in Nat /\ healthyFor[q] \in Nat /\ fetch[q].age \in Nat
                          /\ fetch'[q].age \in Nat /\ refresh[q].softAge \in Nat
                          /\ refresh'[q].softAge \in Nat /\ cache'[q].age \in Nat
  BY <1>1, Periods DEF Numbers
<1>5. loop.sleep \in Nat /\ loop.pending \subseteq Provider
  BY <1>1, Periods DEF Numbers
<1>6. loop'.pending = loop.pending /\ loop'.sleep + 0 = loop.sleep /\ 0 \in {0, 1}
  BY <1>5
<1>7. \A q \in loop.pending : Ages'[q] >= Ages[q] + 0
  BY <1>2, <1>3, <1>5
<1>8. \A q \in Provider : /\ cache'[q].age <= cache[q].age + 0 /\ healthyFor'[q] <= healthyFor[q] + 0
                          /\ cache'[q].keys = {} => cache'[q].age = HardStale
  BY <1>0, <1>4 DEF RoundsAre
<1>9. RoundsAre'
  BY <1>0, <1>6, <1>7, <1>8, RoundsGoOn
<1>10. ASSUME NEW q \in Provider
       PROVE  /\ lock'[q] \in Request => refresh'[q].forcedAge <= Ages'[q]
              /\ lock'[q] = "loop" => \/ fetch'[q].age = 0
                                      \/ lock[q] = "loop" /\ fetch'[q].age <= fetch[q].age + 0
              /\ \/ lock'[q] = "loop" /\ q \in loop.pending
                 \/ /\ lock[q] = "loop" => lock'[q] = "loop"
                    /\ refresh'[q].softAge >= Retry \/ refresh'[q].softAge >= refresh[q].softAge + 0
  <2>1. CASE q = p
    BY <1>4, <2>1
  <2>2. CASE q # p
    BY <1>0, <1>2, <1>4, <2>2 DEF RefreshesAre
  <2> QED
    BY <2>1, <2>2
<1>11. RefreshesAre'
  BY <1>0, <1>6, <1>7, <1>10, RefreshesGoOn
<1>12. TroubleIsTimed'
  BY <1>0 DEF TroubleIsTimed, Healthy
<1> QED
  BY <1>9, <1>11, <1>12, IsolatedPartsNext

\* A request gets the mutex: the provider's last forced fetch is long over.
LEMMA IsolatedRefreshForUnknownKid ==
    ASSUME IsolatedInv, IndInv', NEW r \in Request, RefreshForUnknownKid(r)
    PROVE  IsolatedInv'
<1>0. IndInv /\ RefreshesAre /\ TroubleIsTimed /\ RoundsAre
  BY IsolatedParts
<1>1. Numbers /\ Numbers' /\ AgesAre /\ AgesAre'
  BY <1>0, NumbersHold, NumbersNext, AgesHold, AgesNext
<1>2. /\ caller \in [Request -> Caller] /\ refresh \in [Provider -> RefreshState]
      /\ lock \in [Provider -> Request \cup {"loop", "nobody"}] /\ fetch \in [Provider -> Fetch]
  BY <1>0, Shapes DEF IndInv
<1>3. PICK p \in Provider : p = caller[r].provider
  BY <1>2 DEF Caller
<1>4. UNCHANGED <<cache, loop, published, issuer, healthyFor>> /\ lock[p] = "nobody"
  BY <1>3 DEF RefreshForUnknownKid, environment
<1>5. CASE UNCHANGED <<refresh, lock, fetch, polled>>
  <2>1. Ages' = Ages
    BY <1>5 DEF Ages, RoundAge, Elapsed, AttemptedRecently
  <2>2. RefreshesAre' /\ RoundsAre' /\ TroubleIsTimed'
    BY <1>0, <1>4, <1>5, <2>1 DEF RefreshesAre, RoundsAre, TroubleIsTimed, Healthy
  <2> QED
    BY <2>2, IsolatedPartsNext
<1>6. CASE /\ ~AttemptedRecently(refresh[p].forcedAge) /\ StartFetch(r, p)
           /\ refresh' = [refresh EXCEPT ![p].forcedAge = 0]
  <2>1. refresh' = [refresh EXCEPT ![p] = [refresh[p] EXCEPT !.forcedAge = 0]]
    BY <1>2, <1>6
  <2>2. /\ refresh'[p].forcedAge = 0 /\ refresh'[p].softAge = refresh[p].softAge
        /\ \A q \in Provider \ {p} : refresh'[q] = refresh[q]
    BY <1>2, <2>1 DEF RefreshState
  <2>3. At("discovery", {}, 0).age = 0 /\ At("discovery", {}, 0).stage = "discovery"
    BY DEF At
  <2>4. /\ lock'[p] = r /\ \A q \in Provider \ {p} : lock'[q] = lock[q]
        /\ fetch'[p].age = 0 /\ fetch'[p].stage = "discovery" /\ \A q \in Provider \ {p} : fetch'[q] = fetch[q]
    BY <1>2, <1>6, <2>3 DEF StartFetch
  <2>5. Ages[p] = 0 /\ Ages'[p] = 0
    <3>1. ~(refresh[p].forcedAge < Retry)
      BY <1>6 DEF AttemptedRecently
    <3>2. Ages[p] = 0
      BY <1>1, <1>4, <3>1 DEF AgesAre
    <3>3. Ages'[p] = 0
      BY <1>1, <2>4 DEF AgesAre
    <3> QED
      BY <3>2, <3>3
  <2>6. cache[p].age \in Nat /\ refresh[p].softAge \in Nat
    BY <1>1, Periods DEF Numbers
  <2>7. r # "loop" /\ r # "nobody"
    BY ProviderAssumption
  <2>8. cache'[p].age <= cache[p].age /\ (cache'[p].keys = {} => cache'[p].age = HardStale)
    BY <1>0, <1>4, <2>6 DEF RoundsAre
  <2>9. refresh'[p].softAge >= refresh[p].softAge /\ refresh'[p].forcedAge <= Ages'[p] /\ Ages'[p] >= Ages[p]
    BY <2>2, <2>5, <2>6
  <2> QED
    BY <1>4, <2>2, <2>4, <2>7, <2>8, <2>9, ProviderStep
<1> QED
  BY <1>3, <1>5, <1>6 DEF RefreshForUnknownKid

\* A request lets go of the mutex: none can fetch before the loop's turn.
LEMMA IsolatedRelease ==
    ASSUME IsolatedInv, IndInv', NEW p \in Provider, lock[p] \in Request, lock'[p] = "nobody",
           fetch'[p] = NoFetch,
           \A q \in Provider \ {p} : lock'[q] = lock[q] /\ fetch'[q] = fetch[q] /\ cache'[q] = cache[q],
           cache'[p].age <= cache[p].age, cache'[p].keys = {} => cache'[p].age = HardStale,
           UNCHANGED <<refresh, loop, published, issuer, healthyFor>>
    PROVE  IsolatedInv'
<1>0. IndInv /\ RefreshesAre
  BY IsolatedParts
<1>1. Numbers /\ Numbers' /\ AgesAre /\ AgesAre'
  BY <1>0, NumbersHold, NumbersNext, AgesHold, AgesNext
<1>2. /\ fetch[p].age \in 0 .. FetchTimeout /\ refresh[p].forcedAge \in 0 .. Retry
      /\ refresh[p].softAge \in 0 .. Retry
  BY <1>1 DEF Numbers
<1>3. Ages[p] = fetch[p].age \/ Ages[p] = FetchTimeout + fetch[p].age
  BY <1>1 DEF AgesAre
<1>4. Ages[p] \in Nat /\ Ages[p] <= 2 * FetchTimeout
  BY <1>2, <1>3, Periods
<1>5. refresh[p].forcedAge <= Ages[p]
  BY <1>0 DEF RefreshesAre
<1>6. refresh[p].forcedAge < Retry
  BY <1>2, <1>4, <1>5, Periods, RetryAssumption
<1>7. Ages'[p] = 2 * FetchTimeout
  BY <1>1, <1>6 DEF AgesAre
<1>8. Ages'[p] >= Ages[p]
  BY <1>4, <1>7, Periods
<1>9. lock[p] # "loop" /\ lock'[p] # "loop" /\ lock'[p] \notin Request
  BY ProviderAssumption
<1>10. fetch'[p].stage # "store" /\ refresh'[p].softAge >= refresh[p].softAge
  BY <1>2, FetchTypes
<1> QED
  BY <1>8, <1>9, <1>10, ProviderStep

\* A client goes away: it had the mutex, or nothing of the providers changes.
LEMMA IsolatedDisconnect ==
    ASSUME IsolatedInv, IndInv', NEW r \in Request, Disconnect(r)
    PROVE  IsolatedInv'
<1>0. IndInv /\ RefreshesAre /\ TroubleIsTimed /\ RoundsAre
  BY IsolatedParts
<1>1. Numbers
  BY <1>0, NumbersHold
<1>2. /\ caller \in [Request -> Caller] /\ lock \in [Provider -> Request \cup {"loop", "nobody"}]
      /\ fetch \in [Provider -> Fetch]
  BY <1>0, Shapes DEF IndInv
<1>3. PICK p \in Provider : p = caller[r].provider
  BY <1>2 DEF Caller
<1>4. UNCHANGED <<cache, refresh, loop, published, issuer, healthyFor>>
  BY DEF Disconnect, environment
<1>5. CASE lock[p] = r
  <2>1. lock' = [lock EXCEPT ![p] = "nobody"] /\ fetch' = [fetch EXCEPT ![p] = NoFetch]
    BY <1>3, <1>5 DEF Disconnect
  <2>2. /\ lock'[p] = "nobody" /\ fetch'[p] = NoFetch
        /\ \A q \in Provider \ {p} : lock'[q] = lock[q] /\ fetch'[q] = fetch[q]
    BY <1>2, <2>1
  <2>3. cache'[p].age <= cache[p].age /\ (cache'[p].keys = {} => cache'[p].age = HardStale)
    BY <1>0, <1>1, <1>4 DEF RoundsAre, Numbers
  <2> QED
    BY <1>4, <1>5, <2>2, <2>3, IsolatedRelease
<1>6. CASE lock[p] # r
  <2>1. UNCHANGED <<lock, fetch>>
    BY <1>3, <1>6 DEF Disconnect
  <2>2. Ages' = Ages
    BY <1>4, <2>1 DEF Ages, RoundAge, Elapsed, AttemptedRecently
  <2>3. RefreshesAre' /\ RoundsAre' /\ TroubleIsTimed'
    BY <1>0, <1>4, <2>1, <2>2 DEF RefreshesAre, RoundsAre, TroubleIsTimed, Healthy
  <2> QED
    BY <2>3, IsolatedPartsNext
<1> QED
  BY <1>5, <1>6

\* The answers that move a fetch on.
LEMMA IsolatedAnswers ==
    ASSUME IsolatedInv, IndInv', NEW p \in Provider, Discovered(p) \/ JwksAnswered(p)
    PROVE  IsolatedInv'
<1>0. IndInv /\ RefreshesAre /\ TroubleIsTimed /\ RoundsAre
  BY IsolatedParts
<1>1. Numbers /\ Numbers' /\ AgesAre /\ AgesAre'
  BY <1>0, NumbersHold, NumbersNext, AgesHold, AgesNext
<1>2. /\ fetch \in [Provider -> Fetch] /\ LocksAreOwned /\ fetch[p].age \in 0 .. FetchTimeout
      /\ published \in [Provider -> SUBSET Kid]
  BY <1>0, <1>1, Shapes DEF IndInv, Numbers
<1>3. UNCHANGED <<cache, refresh, lock, loop, published, issuer, healthyFor>>
  BY DEF Discovered, JwksAnswered, environment
<1>4. lock[p] \in Request \cup {"loop"} /\ fetch[p].stage \in {"discovery", "jwks"}
  <2>1. fetch[p].stage \in {"discovery", "jwks"}
    BY DEF Discovered, JwksAnswered
  <2> QED
    BY <1>1, <1>2, <2>1 DEF LocksAreOwned, Numbers
<1>5. cache'[p].age <= cache[p].age /\ (cache'[p].keys = {} => cache'[p].age = HardStale)
  BY <1>0, <1>1, <1>3 DEF RoundsAre, Numbers
<1>6. refresh'[p].softAge >= refresh[p].softAge /\ refresh[p].forcedAge \in Nat
  BY <1>1, <1>3, Periods DEF Numbers
<1>7. ASSUME Ages'[p] >= Ages[p], fetch'[p].age <= fetch[p].age,
             \A q \in Provider \ {p} : fetch'[q] = fetch[q],
             fetch'[p].stage = "store" /\ fetch'[p].keys = {} => healthyFor[p] <= fetch'[p].age
      PROVE  IsolatedInv'
  <2>1. lock'[p] \in Request => refresh'[p].forcedAge <= Ages'[p]
    <3>1. lock[p] \in Request => refresh[p].forcedAge <= Ages[p]
      BY <1>0 DEF RefreshesAre
    <3>2. Ages[p] \in Nat /\ Ages'[p] \in Nat
      BY <1>1, Periods DEF AgesAre
    <3> QED
      BY <1>3, <1>6, <1>7, <3>1, <3>2
  <2> QED
    BY <1>3, <1>5, <1>6, <1>7, <2>1, ProviderStep
<1>8. CASE Discovered(p)
  <2>1. At("jwks", {}, 0).age = 0 /\ At("jwks", {}, 0).stage = "jwks"
    BY DEF At
  <2>2. /\ fetch'[p].age = 0 /\ fetch'[p].stage = "jwks" /\ fetch[p].stage = "discovery"
        /\ \A q \in Provider \ {p} : fetch'[q] = fetch[q]
    BY <1>2, <1>8, <2>1 DEF Discovered
  <2>3. Ages'[p] >= Ages[p]
    <3>1. CASE lock[p] = "loop"
      <4>1. Ages[p] = 2 * FetchTimeout + fetch[p].age /\ Ages'[p] = 3 * FetchTimeout + fetch'[p].age
        BY <1>1, <1>3, <2>2, <3>1 DEF AgesAre
      <4> QED
        BY <1>2, <2>2, <4>1, Periods
    <3>2. CASE lock[p] \in Request
      <4>1. Ages[p] = fetch[p].age /\ Ages'[p] = FetchTimeout + fetch'[p].age
        BY <1>1, <1>3, <2>2, <3>2 DEF AgesAre
      <4> QED
        BY <1>2, <2>2, <4>1, Periods
    <3> QED
      BY <1>4, <3>1, <3>2
  <2> QED
    BY <1>2, <1>7, <2>2, <2>3
<1>9. CASE JwksAnswered(p)
  <2> DEFINE f == [fetch[p] EXCEPT !.stage = "store", !.keys = published[p]]
  <2>1. f.stage = "store" /\ f.keys = published[p] /\ f.age = fetch[p].age
    BY <1>2 DEF Fetch
  <2>2. fetch' = [fetch EXCEPT ![p] = f]
    BY <1>2, <1>9 DEF JwksAnswered
  <2> HIDE DEF f
  <2>3. /\ fetch'[p].stage = "store" /\ fetch'[p].keys = published[p] /\ fetch'[p].age = fetch[p].age
        /\ \A q \in Provider \ {p} : fetch'[q] = fetch[q]
    BY <1>2, <2>1, <2>2
  <2>4. fetch[p].stage = "jwks"
    BY <1>9 DEF JwksAnswered
  <2>5. Ages'[p] >= Ages[p]
    <3>1. Ages[p] \in Nat
      BY <1>1, Periods DEF AgesAre
    <3>2. CASE lock[p] = "loop"
      <4>1. Ages[p] = 3 * FetchTimeout + fetch[p].age /\ Ages'[p] = 3 * FetchTimeout + fetch'[p].age
        BY <1>1, <1>3, <2>3, <2>4, <3>2 DEF AgesAre
      <4> QED
        BY <2>3, <3>1, <4>1
    <3>3. CASE lock[p] \in Request
      <4>1. Ages[p] = FetchTimeout + fetch[p].age /\ Ages'[p] = FetchTimeout + fetch'[p].age
        BY <1>1, <1>3, <2>3, <2>4, <3>3 DEF AgesAre
      <4> QED
        BY <2>3, <3>1, <4>1
    <3> QED
      BY <1>4, <3>2, <3>3
  <2>6. published[p] = {} => healthyFor[p] <= fetch[p].age
    BY <1>0, <1>2, Periods DEF TroubleIsTimed, Healthy
  <2> QED
    BY <1>2, <1>7, <2>3, <2>5, <2>6
<1> QED
  BY <1>8, <1>9

\* The refresh of a provider is joined: it was checked within the round.
LEMMA IsolatedJoined ==
    ASSUME IsolatedInv, IndInv', NEW p \in Provider, p \in loop.pending, Joined(p),
           \A q \in Provider \ {p} : lock'[q] = lock[q] /\ fetch'[q] = fetch[q] /\ cache'[q] = cache[q],
           lock'[p] = "nobody", cache'[p].keys = {} => cache'[p].age = HardStale,
           \/ cache'[p].age < SoftRefresh
           \/ \A q \in loop.pending : healthyFor[p] <= Ages[q],
           UNCHANGED <<refresh, published, issuer, healthyFor>>
    PROVE  IsolatedInv'
<1>0. IndInv /\ RefreshesAre /\ TroubleIsTimed /\ RoundsAre
  BY IsolatedParts
<1>1. Numbers /\ Numbers' /\ AgesAre /\ AgesAre'
  BY <1>0, NumbersHold, NumbersNext, AgesHold, AgesNext
<1>2. loop'.pending = loop.pending \ {p} /\ (loop.pending = {p} => loop'.sleep = Retry)
  BY DEF Joined
<1>3. \A q \in Provider \ {p} : Ages'[q] = Ages[q]
  BY <1>0, AgeKept
<1>4. \A q \in Provider : Ages[q] \in 0 .. 4 * FetchTimeout
  BY <1>1 DEF AgesAre
<1>5. \A q \in Provider : /\ cache[q].age \in Nat /\ cache'[q].age \in Nat /\ healthyFor[q] \in Nat
                          /\ refresh[q].softAge \in Nat
  BY <1>1, Periods DEF Numbers
<1>6. loop.pending \subseteq Provider /\ (loop'.pending = {} => loop.pending = {p})
  BY <1>1, <1>2 DEF Numbers
<1>7. ASSUME NEW q \in Provider, q \notin loop'.pending, NEW s \in loop.pending
      PROVE  cache'[q].age < SoftRefresh + Ages[s] \/ healthyFor[q] <= Ages[s]
  <2>1. Ages[s] \in Nat
    BY <1>4, <1>6, Periods
  <2>2. CASE q = p
    BY <1>5, <2>1, <2>2, Periods
  <2>3. CASE q # p
    <3>1. q \notin loop.pending /\ cache'[q] = cache[q]
      BY <1>2, <1>7, <2>3
    <3> QED
      BY <1>0, <3>1 DEF RoundsAre
  <2> QED
    BY <2>2, <2>3
<1>8. RoundsAre'
  <2> SUFFICES ASSUME NEW q \in Provider
               PROVE  /\ cache'[q].keys = {} => cache'[q].age = HardStale
                      /\ loop'.pending = {} =>
                           \/ cache'[q].age < SoftRefresh + (4 * FetchTimeout + Retry - loop'.sleep)
                           \/ healthyFor'[q] <= 4 * FetchTimeout + Retry - loop'.sleep
                      /\ q \notin loop'.pending => \A s \in loop'.pending :
                           cache'[q].age < SoftRefresh + Ages'[s] \/ healthyFor'[q] <= Ages'[s]
                      /\ q \in loop'.pending =>
                           \/ cache'[q].age < SoftRefresh + (4 * FetchTimeout + Retry + Ages'[q])
                           \/ healthyFor'[q] <= 4 * FetchTimeout + Retry + Ages'[q]
    BY DEF RoundsAre
  <2>1. cache'[q].keys = {} => cache'[q].age = HardStale
    BY <1>0 DEF RoundsAre
  <2>2. ASSUME loop'.pending = {}
        PROVE  \/ cache'[q].age < SoftRefresh + (4 * FetchTimeout + Retry - loop'.sleep)
               \/ healthyFor'[q] <= 4 * FetchTimeout + Retry - loop'.sleep
    <3>1. loop'.sleep = Retry
      BY <1>2, <1>6, <2>2
    <3>2. cache'[q].age < SoftRefresh + Ages[p] \/ healthyFor[q] <= Ages[p]
      BY <1>7, <2>2
    <3>3. Ages[p] \in 0 .. 4 * FetchTimeout
      BY <1>4
    <3>4. cache'[q].age < SoftRefresh + 4 * FetchTimeout \/ healthyFor[q] <= 4 * FetchTimeout
      BY <1>5, <3>2, <3>3, Periods
    <3> QED
      BY <3>1, <3>4, Periods
  <2>3. ASSUME q \notin loop'.pending, NEW s \in loop'.pending
        PROVE  cache'[q].age < SoftRefresh + Ages'[s] \/ healthyFor'[q] <= Ages'[s]
    BY <1>2, <1>3, <1>6, <1>7, <2>3
  <2>4. ASSUME q \in loop'.pending
        PROVE  \/ cache'[q].age < SoftRefresh + (4 * FetchTimeout + Retry + Ages'[q])
               \/ healthyFor'[q] <= 4 * FetchTimeout + Retry + Ages'[q]
    BY <1>0, <1>2, <1>3, <2>4 DEF RoundsAre
  <2> QED
    BY <2>1, <2>2, <2>3, <2>4
<1>9. RefreshesAre'
  <2> SUFFICES ASSUME NEW q \in Provider
               PROVE  /\ lock'[q] \in Request => refresh'[q].forcedAge <= Ages'[q]
                      /\ lock'[q] = "loop" => \A s \in loop'.pending : fetch'[q].age <= Ages'[s]
                      /\ loop'.pending = {} => refresh'[q].softAge + loop'.sleep >= Retry
                      /\ q \in loop'.pending /\ lock'[q] # "loop" => refresh'[q].softAge >= Retry
    BY DEF RefreshesAre
  <2>1. lock'[q] \in Request \cup {"loop"} => q # p /\ lock'[q] = lock[q]
    BY ProviderAssumption
  <2>2. lock'[q] \in Request => refresh'[q].forcedAge <= Ages'[q]
    BY <1>0, <1>3, <2>1 DEF RefreshesAre
  <2>3. ASSUME lock'[q] = "loop", NEW s \in loop'.pending PROVE fetch'[q].age <= Ages'[s]
    BY <1>0, <1>2, <1>3, <1>6, <2>1, <2>3 DEF RefreshesAre
  <2>4. loop'.pending = {} => refresh'[q].softAge + loop'.sleep >= Retry
    BY <1>2, <1>5, <1>6, Periods
  <2>5. q \in loop'.pending /\ lock'[q] # "loop" => refresh'[q].softAge >= Retry
    BY <1>0, <1>2 DEF RefreshesAre
  <2> QED
    BY <2>2, <2>3, <2>4, <2>5
<1>10. fetch'[p].stage # "store"
  <2>1. LocksAreOwned'
    BY DEF IndInv, TypeOK
  <2> QED
    BY <2>1 DEF LocksAreOwned
<1>11. TroubleIsTimed'
  BY <1>0, <1>10 DEF TroubleIsTimed, Healthy
<1> QED
  BY <1>8, <1>9, <1>11, IsolatedPartsNext

\* The loop's turn at a provider: its keys are young, or they are fetched.
LEMMA IsolatedRefreshSoftIfDue ==
    ASSUME IsolatedInv, IndInv', NEW p \in Provider, RefreshSoftIfDue(p)
    PROVE  IsolatedInv'
<1>0. IndInv /\ RefreshesAre /\ TroubleIsTimed /\ RoundsAre
  BY IsolatedParts
<1>1. Numbers /\ Numbers' /\ AgesAre /\ AgesAre'
  BY <1>0, NumbersHold, NumbersNext, AgesHold, AgesNext
<1>2. /\ refresh \in [Provider -> RefreshState] /\ fetch \in [Provider -> Fetch]
      /\ lock \in [Provider -> Request \cup {"loop", "nobody"}]
  BY <1>0, Shapes DEF IndInv
<1>3. UNCHANGED <<cache, published, issuer, healthyFor>> /\ lock[p] = "nobody" /\ p \in loop.pending
  BY DEF RefreshSoftIfDue, environment
<1>4. cache[p].keys = {} => cache[p].age = HardStale
  BY <1>0 DEF RoundsAre
<1>5. ~AttemptedRecently(refresh[p].softAge)
  <2>1. refresh[p].softAge >= Retry /\ refresh[p].softAge \in Nat
    BY <1>0, <1>1, <1>3, Periods DEF RefreshesAre, Numbers
  <2> QED
    BY <2>1, Periods DEF AttemptedRecently
<1>6. cache[p].age \in Nat /\ refresh[p].softAge \in Nat
  BY <1>1, Periods DEF Numbers
<1>7. CASE ~(cache[p].age >= SoftRefresh) /\ Joined(p) /\ UNCHANGED <<refresh, lock, fetch>>
  <2>1. cache'[p].age < SoftRefresh
    BY <1>3, <1>6, <1>7, Periods
  <2> QED
    BY <1>3, <1>4, <1>7, <2>1, IsolatedJoined
<1>8. CASE /\ StartFetch("loop", p) /\ refresh' = [refresh EXCEPT ![p].softAge = 0]
           /\ UNCHANGED loop
  <2>1. refresh' = [refresh EXCEPT ![p] = [refresh[p] EXCEPT !.softAge = 0]]
    BY <1>2, <1>8
  <2>2. \A q \in Provider \ {p} : refresh'[q] = refresh[q]
    BY <1>2, <2>1
  <2>3. At("discovery", {}, 0).age = 0 /\ At("discovery", {}, 0).stage = "discovery"
    BY DEF At
  <2>4. /\ lock'[p] = "loop" /\ \A q \in Provider \ {p} : lock'[q] = lock[q]
        /\ fetch'[p].age = 0 /\ fetch'[p].stage = "discovery"
        /\ \A q \in Provider \ {p} : fetch'[q] = fetch[q]
    BY <1>2, <1>8, <2>3 DEF StartFetch
  <2>5. Ages'[p] = 2 * FetchTimeout
    <3>1. Ages'[p] = 2 * FetchTimeout + fetch'[p].age
      BY <1>1, <2>4 DEF AgesAre
    <3> QED
      BY <2>4, <3>1, Periods
  <2>6. Ages[p] = 2 * FetchTimeout \/ Ages[p] = 0
    BY <1>1, <1>3 DEF AgesAre
  <2>7. Ages'[p] >= Ages[p]
    BY <2>5, <2>6, Periods
  <2>8. lock'[p] \notin Request
    BY <2>4, ProviderAssumption
  <2>9. cache'[p].age <= cache[p].age
    BY <1>3, <1>6
  <2> QED
    BY <1>3, <1>4, <1>8, <2>2, <2>4, <2>7, <2>8, <2>9, ProviderStep
<1> QED
  BY <1>5, <1>7, <1>8 DEF RefreshSoftIfDue

\* A refresh ends, the loop's or a request's.
LEMMA IsolatedEnd ==
    ASSUME IsolatedInv, IndInv', NEW p \in Provider, NEW result, EndRefresh(p, result),
           \A q \in Provider \ {p} : cache'[q] = cache[q],
           cache'[p].age <= cache[p].age, cache'[p].keys = {} => cache'[p].age = HardStale,
           \/ cache'[p].age < SoftRefresh
           \/ lock[p] = "loop" => \A q \in loop.pending : healthyFor[p] <= Ages[q],
           UNCHANGED <<refresh, published, issuer, healthyFor>>
    PROVE  IsolatedInv'
<1>1. IndInv
  BY IsolatedParts
<1>2. /\ lock \in [Provider -> Request \cup {"loop", "nobody"}] /\ fetch \in [Provider -> Fetch]
      /\ LocksAreOwned
  BY <1>1, Shapes DEF IndInv
<1>3. /\ lock'[p] = "nobody" /\ fetch'[p] = NoFetch
      /\ \A q \in Provider \ {p} : lock'[q] = lock[q] /\ fetch'[q] = fetch[q]
  BY <1>2 DEF EndRefresh
<1>4. CASE lock[p] = "loop" /\ Joined(p)
  <2>1. p \in loop.pending
    BY <1>2, <1>4 DEF LocksAreOwned
  <2> QED
    BY <1>3, <1>4, <2>1, IsolatedJoined
<1>5. CASE lock[p] \in Request /\ UNCHANGED loop
  BY <1>3, <1>5, IsolatedRelease
<1> QED
  BY <1>4, <1>5 DEF EndRefresh

LEMMA IsolatedRefreshing ==
    ASSUME IsolatedInv, IndInv', NEW p \in Provider, Refreshing(p)
    PROVE  IsolatedInv'
<1>0. IndInv /\ RefreshesAre /\ TroubleIsTimed /\ RoundsAre
  BY IsolatedParts
<1>1. Numbers /\ AgesAre
  BY <1>0, NumbersHold, AgesHold
<1>2. cache \in [Provider -> Cache] /\ cache[p].age \in Nat /\ fetch[p].age \in Nat /\ healthyFor[p] \in Nat
  BY <1>0, <1>1, Shapes, Periods DEF IndInv, Numbers
<1>3. cache[p].keys = {} => cache[p].age = HardStale
  BY <1>0 DEF RoundsAre
<1>4. \A q \in loop.pending : Ages[q] \in Nat
  BY <1>1, Periods DEF AgesAre, Numbers
<1>5. CASE FetchFailed(p)
  <2>1. UNCHANGED <<cache, refresh, published, issuer, healthyFor>>
    BY <1>5 DEF FetchFailed, environment
  <2>2. healthyFor[p] = 0
    BY <1>0, <1>5 DEF FetchFailed, TroubleIsTimed, Healthy
  <2>3. \A q \in loop.pending : healthyFor[p] <= Ages[q]
    BY <1>4, <2>2
  <2>4. PICK result \in Verdict : EndRefresh(p, result)
    BY <1>5 DEF FetchFailed, Verdict
  <2> QED
    BY <1>2, <1>3, <2>1, <2>3, <2>4, IsolatedEnd
<1>6. CASE StoreKeys(p)
  <2>1. UNCHANGED <<refresh, published, issuer, healthyFor>> /\ fetch[p].stage = "store"
    BY <1>6 DEF StoreKeys, environment
  <2>2. CASE fetch[p].keys = {} /\ EndRefresh(p, "Unavailable") /\ UNCHANGED cache
    <3>1. healthyFor[p] <= fetch[p].age
      BY <1>0, <2>1, <2>2 DEF TroubleIsTimed
    <3>2. lock[p] = "loop" => \A q \in loop.pending : fetch[p].age <= Ages[q]
      BY <1>0 DEF RefreshesAre
    <3>3. lock[p] = "loop" => \A q \in loop.pending : healthyFor[p] <= Ages[q]
      BY <1>2, <1>4, <3>1, <3>2
    <3> QED
      BY <1>2, <1>3, <2>1, <2>2, <3>3, IsolatedEnd
  <2>3. CASE /\ fetch[p].keys # {} /\ EndRefresh(p, "Ok")
             /\ cache' = [cache EXCEPT ![p] = [keys |-> fetch[p].keys, age |-> 0]]
    <3>1. /\ cache'[p].keys = fetch[p].keys /\ cache'[p].age = 0
          /\ \A q \in Provider \ {p} : cache'[q] = cache[q]
      BY <1>2, <2>3
    <3>2. cache'[p].age <= cache[p].age /\ cache'[p].age < SoftRefresh
      BY <1>2, <3>1, ProviderAssumption
    <3> QED
      BY <2>1, <2>3, <3>1, <3>2, IsolatedEnd
  <2> QED
    BY <1>6, <2>2, <2>3 DEF StoreKeys
<1> QED
  BY <1>5, <1>6, IsolatedAnswers DEF Refreshing

\* A round begins: every provider was checked in the last one.
LEMMA IsolatedStartRound ==
    ASSUME IsolatedInv, IndInv', StartRound
    PROVE  IsolatedInv'
<1>0. IndInv /\ RefreshesAre /\ TroubleIsTimed /\ RoundsAre
  BY IsolatedParts
<1>1. Numbers /\ AgesAre
  BY <1>0, NumbersHold, AgesHold
<1>2. /\ loop \in Loop /\ LocksAreOwned /\ loop.pending = {} /\ loop.sleep = 0
  BY <1>0, Shapes DEF IndInv, StartRound
<1>3. loop'.pending = Provider
  BY <1>2 DEF StartRound, Loop
<1>4. UNCHANGED <<cache, refresh, lock, fetch, published, issuer, healthyFor>>
  BY DEF StartRound, environment
<1>5. Ages' = Ages
  BY <1>4 DEF Ages, RoundAge, Elapsed, AttemptedRecently
<1>6. \A p \in Provider : lock[p] # "loop"
  BY <1>2 DEF LocksAreOwned
<1>7. \A p \in Provider : refresh[p].softAge >= Retry
  <2>1. \A p \in Provider : refresh[p].softAge + 0 >= Retry /\ refresh[p].softAge \in Nat
    BY <1>0, <1>1, <1>2, Periods DEF RefreshesAre, Numbers
  <2> QED
    BY <2>1, Periods
<1>8. RefreshesAre'
  BY <1>0, <1>3, <1>4, <1>5, <1>6, <1>7, ProviderAssumption DEF RefreshesAre
<1>9. ASSUME NEW p \in Provider
      PROVE  \/ cache[p].age < SoftRefresh + (4 * FetchTimeout + Retry + Ages[p])
             \/ healthyFor[p] <= 4 * FetchTimeout + Retry + Ages[p]
  <2>1. \/ cache[p].age < SoftRefresh + (4 * FetchTimeout + Retry - 0)
        \/ healthyFor[p] <= 4 * FetchTimeout + Retry - 0
    BY <1>0, <1>2 DEF RoundsAre
  <2>2. Ages[p] \in Nat /\ cache[p].age \in Nat /\ healthyFor[p] \in Nat
    BY <1>1, Periods DEF AgesAre, Numbers
  <2> QED
    BY <2>1, <2>2, Periods
<1>10. RoundsAre'
  BY <1>0, <1>3, <1>4, <1>5, <1>9, ProviderAssumption DEF RoundsAre
<1>11. TroubleIsTimed'
  BY <1>0, <1>4 DEF TroubleIsTimed, Healthy
<1> QED
  BY <1>8, <1>10, <1>11, IsolatedPartsNext

\* A change at an issuer: the providers go on, and trouble starts the count anew.
LEMMA IsolatedEnvironment ==
    ASSUME IsolatedInv, IndInv', UNCHANGED <<cache, refresh, lock, fetch, loop>>,
           \A p \in Provider : healthyFor'[p] <= healthyFor[p],
           \A p \in Provider : ~(issuer'[p] = "up" /\ published'[p] # {}) => healthyFor'[p] = 0
    PROVE  IsolatedInv'
<1>0. IndInv /\ RefreshesAre /\ TroubleIsTimed /\ RoundsAre
  BY IsolatedParts
<1>1. Numbers /\ Numbers' /\ AgesAre
  BY <1>0, NumbersHold, NumbersNext, AgesHold
<1>2. Ages' = Ages
  BY DEF Ages, RoundAge, Elapsed, AttemptedRecently
<1>3. \A p \in Provider : /\ Ages[p] \in Nat /\ cache[p].age \in Nat /\ healthyFor[p] \in Nat
                          /\ fetch[p].age \in Nat /\ healthyFor'[p] \in Nat
  BY <1>1, Periods DEF AgesAre, Numbers
<1>4. loop.sleep \in Nat /\ loop.pending \subseteq Provider
  BY <1>1, Periods DEF Numbers
<1>5. /\ 0 \in {0, 1} /\ loop'.pending = loop.pending /\ loop'.sleep + 0 = loop.sleep
      /\ \A p \in loop.pending : Ages'[p] >= Ages[p] + 0
  BY <1>2, <1>3, <1>4
<1>6. \A p \in Provider : /\ cache'[p].age <= cache[p].age + 0 /\ healthyFor'[p] <= healthyFor[p] + 0
                          /\ cache'[p].keys = {} => cache'[p].age = HardStale
  BY <1>0, <1>3 DEF RoundsAre
<1>7. RoundsAre'
  BY <1>0, <1>5, <1>6, RoundsGoOn
<1>8. RefreshesAre'
  BY <1>0, <1>2 DEF RefreshesAre
<1>9. TroubleIsTimed'
  <2>1. \A p \in Provider : fetch'[p].stage = "store" /\ fetch'[p].keys = {} => healthyFor'[p] <= fetch'[p].age
    BY <1>0, <1>3 DEF TroubleIsTimed
  <2> QED
    BY <2>1 DEF TroubleIsTimed, Healthy
<1> QED
  BY <1>7, <1>8, <1>9, IsolatedPartsNext

LEMMA IsolatedRotate ==
    ASSUME IsolatedInv, IndInv', NEW p \in Provider, Rotate(p) \/ TroubleChange(p)
    PROVE  IsolatedInv'
<1>0. IndInv /\ TroubleIsTimed
  BY IsolatedParts
<1>1. /\ published \in [Provider -> SUBSET Kid] /\ healthyFor \in [Provider -> 0 .. HealthMemory]
      /\ issuer \in [Provider -> {"up", "down", "misconfigured"}]
  BY <1>0 DEF IndInv, TypeOK
<1>2. \A q \in Provider : healthyFor[q] \in Nat
  BY <1>1, Periods
<1>3. \A q \in Provider : ~(issuer[q] = "up" /\ published[q] # {}) => healthyFor[q] = 0
  BY <1>0 DEF TroubleIsTimed, Healthy
<1>4. CASE Rotate(p)
  <2>1. PICK keys \in SUBSET Kid :
           /\ published' = [published EXCEPT ![p] = keys]
           /\ healthyFor' = [healthyFor EXCEPT ![p] = IF keys = {} THEN 0 ELSE healthyFor[p]]
    BY <1>1, <1>4 DEF Rotate
  <2>2. UNCHANGED <<cache, refresh, lock, fetch, loop, issuer>>
    BY <1>4 DEF Rotate
  <2>3. /\ published'[p] = keys /\ healthyFor'[p] = IF keys = {} THEN 0 ELSE healthyFor[p]
        /\ \A q \in Provider \ {p} : published'[q] = published[q] /\ healthyFor'[q] = healthyFor[q]
    BY <1>1, <2>1
  <2>4. \A q \in Provider : healthyFor'[q] <= healthyFor[q]
    BY <1>2, <2>3
  <2>5. \A q \in Provider : ~(issuer'[q] = "up" /\ published'[q] # {}) => healthyFor'[q] = 0
    <3>1. issuer'[p] # "up" => healthyFor'[p] = 0
      BY <1>3, <2>2, <2>3
    <3>2. published'[p] = {} => healthyFor'[p] = 0
      BY <2>3
    <3> QED
      BY <1>3, <2>2, <2>3, <3>1, <3>2
  <2> QED
    BY <2>2, <2>4, <2>5, IsolatedEnvironment
<1>5. CASE TroubleChange(p)
  <2>1. /\ healthyFor'[p] = 0 /\ \A q \in Provider \ {p} : healthyFor'[q] = healthyFor[q]
        /\ \A q \in Provider \ {p} : issuer'[q] = issuer[q]
    BY <1>1, <1>5 DEF TroubleChange
  <2>2. UNCHANGED <<cache, refresh, lock, fetch, loop, published>>
    BY <1>5 DEF TroubleChange
  <2>3. \A q \in Provider : healthyFor'[q] <= healthyFor[q]
    BY <1>2, <2>1
  <2>4. \A q \in Provider : ~(issuer'[q] = "up" /\ published'[q] # {}) => healthyFor'[q] = 0
    BY <1>3, <2>1, <2>2
  <2> QED
    BY <2>2, <2>3, <2>4, IsolatedEnvironment
<1> QED
  BY <1>4, <1>5

\* A second passes, only while every refresh of the round is on its way.
LEMMA IsolatedTick ==
    ASSUME IsolatedInv, IndInv', Tick
    PROVE  IsolatedInv'
<1>0. IndInv /\ RefreshesAre /\ TroubleIsTimed /\ RoundsAre
  BY IsolatedParts
<1>1. Numbers /\ Numbers' /\ AgesAre /\ AgesAre'
  BY <1>0, NumbersHold, NumbersNext, AgesHold, AgesNext
<1>2. /\ cache \in [Provider -> Cache] /\ fetch \in [Provider -> Fetch]
      /\ refresh \in [Provider -> RefreshState] /\ loop \in Loop /\ LocksAreOwned
  BY <1>0, Shapes DEF IndInv
<1>3. UNCHANGED <<lock, published, issuer>> /\ \A p \in loop.pending : lock[p] # "nobody"
  BY DEF Tick
<1>4. ASSUME NEW p \in Provider
      PROVE  /\ cache'[p].keys = cache[p].keys /\ cache'[p].age <= cache[p].age + 1
             /\ cache[p].age = HardStale => cache'[p].age = HardStale
  <2>1. cache[p] \in Cache /\ cache'[p] = [cache[p] EXCEPT !.age = Older(@, HardStale)]
    BY <1>2 DEF Tick
  <2>2. cache[p].age \in 0 .. HardStale
    BY <2>1 DEF Cache
  <2>3. /\ Older(cache[p].age, HardStale) <= cache[p].age + 1
        /\ cache[p].age = HardStale => Older(cache[p].age, HardStale) = HardStale
    BY <2>2, Periods DEF Older
  <2> QED
    BY <2>1, <2>3 DEF Cache
<1>5. ASSUME NEW p \in Provider
      PROVE  /\ fetch'[p].keys = fetch[p].keys /\ fetch'[p].stage = fetch[p].stage
             /\ lock[p] # "nobody" => fetch'[p].age = fetch[p].age + 1
  <2>1. /\ fetch[p] \in Fetch
        /\ fetch'[p] = [fetch[p] EXCEPT !.age = IF lock[p] = "nobody" THEN 0 ELSE @ + 1]
    BY <1>2 DEF Tick
  <2> QED
    BY <2>1 DEF Fetch
<1>6. ASSUME NEW p \in Provider
      PROVE  /\ refresh'[p].forcedAge <= refresh[p].forcedAge + 1
             /\ refresh'[p].softAge >= Retry \/ refresh'[p].softAge >= refresh[p].softAge + 1
  <2>1. refresh[p].softAge \in 0 .. Retry /\ refresh[p].forcedAge \in 0 .. Retry
    BY <1>1 DEF Numbers
  <2>2. refresh'[p].softAge = Older(refresh[p].softAge, Retry)
        /\ refresh'[p].forcedAge = Older(refresh[p].forcedAge, Retry)
    BY DEF Tick
  <2> QED
    BY <2>1, <2>2, Periods DEF Older
<1>7. loop'.pending = loop.pending /\ (loop.pending = {} => loop'.sleep + 1 = loop.sleep)
  <2>1. loop.sleep \in Nat
    BY <1>1, Periods DEF Numbers
  <2>2. loop' = [loop EXCEPT !.sleep = IF loop.sleep > 0 THEN loop.sleep - 1 ELSE 0]
        /\ (loop.pending = {} => loop.sleep > 0)
    BY DEF Tick
  <2> QED
    BY <1>2, <2>1, <2>2 DEF Loop
<1>8. ASSUME NEW p \in Provider
      PROVE  healthyFor'[p] <= healthyFor[p] + 1 /\ (~Healthy(p) => healthyFor'[p] = 0)
  <2>1. healthyFor[p] \in 0 .. HealthMemory
    BY <1>0 DEF IndInv, TypeOK
  <2>2. healthyFor'[p] = IF Healthy(p) THEN Older(healthyFor[p], HealthMemory) ELSE 0
    BY DEF Tick
  <2>3. Older(healthyFor[p], HealthMemory) <= healthyFor[p] + 1
    BY <2>1, OlderType, Periods
  <2>4. CASE Healthy(p)
    BY <2>2, <2>3, <2>4
  <2>5. CASE ~Healthy(p)
    BY <2>1, <2>2, <2>5, Periods
  <2> QED
    BY <2>4, <2>5
<1>9. ASSUME NEW p \in Provider, lock[p] # "nobody" PROVE Ages'[p] = Ages[p] + 1
  <2>1. lock[p] \in Request \cup {"loop"} /\ fetch[p].age \in Nat
    BY <1>1, <1>9, Periods DEF Numbers
  <2>2. fetch'[p].stage = fetch[p].stage /\ fetch'[p].age = fetch[p].age + 1 /\ lock'[p] = lock[p]
    BY <1>3, <1>5, <1>9
  <2>3. CASE lock[p] = "loop" /\ fetch[p].stage = "discovery"
    <3>1. Ages[p] = 2 * FetchTimeout + fetch[p].age /\ Ages'[p] = 2 * FetchTimeout + fetch'[p].age
      BY <1>1, <2>2, <2>3 DEF AgesAre
    <3> QED
      BY <2>1, <2>2, <3>1, Periods
  <2>4. CASE lock[p] = "loop" /\ fetch[p].stage # "discovery"
    <3>1. Ages[p] = 3 * FetchTimeout + fetch[p].age /\ Ages'[p] = 3 * FetchTimeout + fetch'[p].age
      BY <1>1, <2>2, <2>4 DEF AgesAre
    <3> QED
      BY <2>1, <2>2, <3>1, Periods
  <2>5. CASE lock[p] \in Request /\ fetch[p].stage = "discovery"
    <3>1. Ages[p] = fetch[p].age /\ Ages'[p] = fetch'[p].age
      BY <1>1, <2>2, <2>5 DEF AgesAre
    <3> QED
      BY <2>2, <3>1
  <2>6. CASE lock[p] \in Request /\ fetch[p].stage # "discovery"
    <3>1. Ages[p] = FetchTimeout + fetch[p].age /\ Ages'[p] = FetchTimeout + fetch'[p].age
      BY <1>1, <2>2, <2>6 DEF AgesAre
    <3> QED
      BY <2>1, <2>2, <3>1, Periods
  <2> QED
    BY <2>1, <2>3, <2>4, <2>5, <2>6
<1>10. \A p \in Provider : /\ Ages[p] \in Nat /\ Ages'[p] \in Nat /\ cache[p].age \in Nat
                           /\ healthyFor[p] \in Nat /\ healthyFor'[p] \in Nat /\ fetch[p].age \in Nat
                           /\ refresh[p].forcedAge \in Nat /\ refresh'[p].forcedAge \in Nat
  BY <1>1, Periods DEF AgesAre, Numbers
<1>11. \A p \in loop.pending : Ages'[p] >= Ages[p] + 1
  <2>1. loop.pending \subseteq Provider
    BY <1>1 DEF Numbers
  <2> QED
    BY <1>3, <1>9, <1>10, <2>1
<1>12. RoundsAre'
  <2>1. \A p \in Provider : /\ cache'[p].age <= cache[p].age + 1 /\ healthyFor'[p] <= healthyFor[p] + 1
                            /\ cache'[p].keys = {} => cache'[p].age = HardStale
    BY <1>0, <1>4, <1>8 DEF RoundsAre
  <2> QED
    BY <1>0, <1>7, <1>11, <2>1, RoundsGoOn
<1>13. RefreshesAre'
  <2>1. ASSUME NEW p \in Provider
        PROVE  /\ lock'[p] \in Request => refresh'[p].forcedAge <= Ages'[p]
               /\ lock'[p] = "loop" => \/ fetch'[p].age = 0
                                       \/ lock[p] = "loop" /\ fetch'[p].age <= fetch[p].age + 1
               /\ \/ lock'[p] = "loop" /\ p \in loop.pending
                  \/ /\ lock[p] = "loop" => lock'[p] = "loop"
                     /\ refresh'[p].softAge >= Retry \/ refresh'[p].softAge >= refresh[p].softAge + 1
    <3>1. ASSUME lock'[p] \in Request PROVE refresh'[p].forcedAge <= Ages'[p]
      <4>1. lock[p] \in Request /\ lock[p] # "nobody"
        BY <1>3, <3>1, ProviderAssumption
      <4>2. refresh[p].forcedAge <= Ages[p] /\ Ages'[p] = Ages[p] + 1
            /\ refresh'[p].forcedAge <= refresh[p].forcedAge + 1
        BY <1>0, <1>6, <1>9, <4>1 DEF RefreshesAre
      <4> QED
        BY <1>10, <4>2
    <3>2. lock'[p] = "loop" => lock[p] = "loop" /\ fetch'[p].age <= fetch[p].age + 1
      BY <1>3, <1>5, <1>10
    <3> QED
      BY <1>3, <1>6, <3>1, <3>2
  <2> QED
    BY <1>0, <1>7, <1>11, <2>1, RefreshesGoOn
<1>14. TroubleIsTimed'
  <2>1. ASSUME NEW p \in Provider, fetch'[p].stage = "store", fetch'[p].keys = {}
        PROVE  healthyFor'[p] <= fetch'[p].age
    <3>1. fetch[p].stage = "store" /\ fetch[p].keys = {}
      BY <1>5, <2>1
    <3>2. lock[p] # "nobody"
      BY <1>2, <3>1 DEF LocksAreOwned
    <3>3. healthyFor[p] <= fetch[p].age
      BY <1>0, <3>1 DEF TroubleIsTimed
    <3> QED
      BY <1>5, <1>8, <1>10, <3>2, <3>3
  <2>2. \A p \in Provider : ~(issuer'[p] = "up" /\ published'[p] # {}) => healthyFor'[p] = 0
    BY <1>3, <1>8 DEF Healthy
  <2> QED
    BY <2>1, <2>2 DEF TroubleIsTimed, Healthy
<1> QED
  BY <1>12, <1>13, <1>14, IsolatedPartsNext

\* Every step keeps the rounds timely.
LEMMA NextIsolatedInv == IsolatedInv /\ [Next]_vars => IsolatedInv'
<1> SUFFICES ASSUME IsolatedInv, [Next]_vars PROVE IsolatedInv'
  OBVIOUS
<1>0. IndInv'
  BY NextIndInv DEF IsolatedInv
<1>1. ASSUME UNCHANGED <<cache, refresh, lock, fetch, loop, published, issuer, healthyFor>>
      PROVE  IsolatedInv'
  <2>1. Ages' = Ages
    BY <1>1 DEF Ages, RoundAge, Elapsed, AttemptedRecently
  <2>2. RefreshesAre' /\ RoundsAre' /\ TroubleIsTimed'
    BY <1>1, <2>1, IsolatedParts DEF RefreshesAre, RoundsAre, TroubleIsTimed, Healthy
  <2> QED
    BY <1>0, <2>2, IsolatedPartsNext
<1>2. ASSUME NEW r \in Request, \/ Key(r) \/ Reread(r)
                                \/ \E p \in Provider, k \in Kid : Verify(r, p, k)
      PROVE  IsolatedInv'
  BY <1>1, <1>2 DEF Key, Reread, Verify, environment
<1>3. ASSUME NEW r \in Request, RefreshForUnknownKid(r) \/ Disconnect(r) PROVE IsolatedInv'
  BY <1>0, <1>3, IsolatedRefreshForUnknownKid, IsolatedDisconnect
<1>4. ASSUME NEW p \in Provider, RefreshSoftIfDue(p) \/ Refreshing(p) \/ Rotate(p) \/ TroubleChange(p)
      PROVE  IsolatedInv'
  BY <1>0, <1>4, IsolatedRefreshSoftIfDue, IsolatedRefreshing, IsolatedRotate
<1>5. CASE StartRound \/ Tick
  BY <1>0, <1>5, IsolatedStartRound, IsolatedTick
<1>6. CASE UNCHANGED vars
  BY <1>1, <1>6 DEF vars
<1> QED
  BY <1>2, <1>3, <1>4, <1>5, <1>6 DEF Next, Step

\* The initial state: the caches are empty, and every provider counts from zero.
LEMMA InitIsolatedInv == Init => IsolatedInv
<1> SUFFICES ASSUME Init PROVE IsolatedInv
  OBVIOUS
<1>1. IndInv
  BY InitIndInv
<1>2. /\ \A p \in Provider : lock[p] = "nobody" /\ refresh[p].softAge = Retry /\ healthyFor[p] = 0
      /\ \A p \in Provider : cache[p].age = HardStale
      /\ loop.pending = {} /\ loop.sleep = 0
  BY DEF Init
<1>3. TroubleIsTimed
  BY FetchTypes DEF Init, TroubleIsTimed
<1>4. RefreshesAre
  <2>1. Retry + 0 >= Retry
    BY Periods
  <2> QED
    BY <1>2, <2>1, ProviderAssumption DEF RefreshesAre
<1>5. RoundsAre
  <2>1. 0 <= 4 * FetchTimeout + Retry - 0
    BY Periods
  <2> QED
    BY <1>2, <2>1 DEF RoundsAre
<1> QED
  BY <1>1, <1>5, <1>2, <1>3, <1>4, IsolatedParts

\* What the invariant says of a provider that has been healthy for long.
LEMMA IsolatedIsReady ==
    ASSUME IsolatedInv, SoftRefresh + Retry + 8 * FetchTimeout <= MaxStaleness
    PROVE  ProvidersAreIsolated
<1> SUFFICES ASSUME NEW p \in Provider, healthyFor[p] >= Recovery
             PROVE  CacheIsUsable(p) /\ cache[p].age <= SoftRefresh + Retry + 8 * FetchTimeout
  BY DEF ProvidersAreIsolated
<1>0. IndInv /\ RoundsAre
  BY IsolatedParts
<1>1. Numbers /\ AgesAre
  BY <1>0, NumbersHold, AgesHold
<1>2. cache[p].age \in Nat /\ healthyFor[p] \in Nat /\ loop.sleep \in Nat /\ loop.pending \subseteq Provider
  BY <1>1, Periods DEF Numbers
<1>3. healthyFor[p] > Retry + 8 * FetchTimeout
  BY <1>2, Periods DEF Recovery
<1>4. cache[p].age <= SoftRefresh + Retry + 8 * FetchTimeout
  <2>1. CASE loop.pending = {}
    <3>1. \/ cache[p].age < SoftRefresh + (4 * FetchTimeout + Retry - loop.sleep)
          \/ healthyFor[p] <= 4 * FetchTimeout + Retry - loop.sleep
      BY <1>0, <2>1 DEF RoundsAre
    <3> QED
      BY <1>2, <1>3, <3>1, Periods
  <2>2. ASSUME p \notin loop.pending, NEW q \in loop.pending
        PROVE  cache[p].age <= SoftRefresh + Retry + 8 * FetchTimeout
    <3>1. cache[p].age < SoftRefresh + Ages[q] \/ healthyFor[p] <= Ages[q]
      BY <1>0, <2>2 DEF RoundsAre
    <3>2. Ages[q] \in 0 .. 4 * FetchTimeout
      BY <1>1, <1>2 DEF AgesAre
    <3> QED
      BY <1>2, <1>3, <3>1, <3>2, Periods
  <2>3. CASE p \in loop.pending
    <3>1. \/ cache[p].age < SoftRefresh + (4 * FetchTimeout + Retry + Ages[p])
          \/ healthyFor[p] <= 4 * FetchTimeout + Retry + Ages[p]
      BY <1>0, <2>3 DEF RoundsAre
    <3>2. Ages[p] \in 0 .. 4 * FetchTimeout
      BY <1>1 DEF AgesAre
    <3> QED
      BY <1>2, <1>3, <3>1, <3>2, Periods
  <2> QED
    BY <2>1, <2>2, <2>3
<1>5. cache[p].age <= MaxStaleness
  BY <1>2, <1>4, Periods
<1>6. cache[p].keys # {}
  BY <1>0, <1>2, <1>5, Periods DEF RoundsAre
<1> QED
  BY <1>4, <1>5, <1>6 DEF CacheIsUsable

(***************************************************************************)
(* A provider that has been healthy for two rounds and the loop's sleep is *)
(* ready, whatever trouble any number of others are in and however many    *)
(* requests hold the mutexes or are dropped.  The hypothesis is that two   *)
(* rounds of hanging providers fit between the soft age and the hard       *)
(* bound, as the 370 s of the source do in the least bound it accepts.     *)
(***************************************************************************)
THEOREM IsolatedProviders ==
    ASSUME SoftRefresh + Retry + 8 * FetchTimeout <= MaxStaleness
    PROVE  Spec => []ProvidersAreIsolated
<1>1. IsolatedInv => ProvidersAreIsolated
  BY IsolatedIsReady
<1> QED
  BY <1>1, InitIsolatedInv, NextIsolatedInv, PTL DEF Spec

-----------------------------------------------------------------------------
(* Caches mirror their issuers.                                             *)

\* A cache has every key that was published all the time since a fetch before
\* fetched_at; CachesAreBounded is the other half.
CachesHaveAll ==
    \A p \in Provider : cache[p].age <= MaxStaleness =>
        \A k \in Kid \ cache[p].keys : UnpublishedWithin(p, k, cache[p].age + FetchTimeout)

\* Steps that leave the caches and the issuers' keys alone.
LEMMA MirrorQuiet ==
    ASSUME CachesHaveAll, UNCHANGED <<cache, published, since>>
    PROVE  CachesHaveAll'
BY DEF CachesHaveAll, UnpublishedWithin

\* A key set is stored within FetchTimeout of the request for it.
LEMMA MirrorStore ==
    ASSUME IndInv, CachesHaveAll, NEW p \in Provider, StoreKeys(p)
    PROVE  CachesHaveAll'
<1>1. UNCHANGED <<published, since>> /\ fetch[p].stage = "store"
  BY DEF StoreKeys, environment
<1>2. CASE UNCHANGED cache
  BY <1>1, <1>2, MirrorQuiet
<1>3. CASE cache' = [cache EXCEPT ![p] = [keys |-> fetch[p].keys, age |-> 0]]
  <2>1. /\ cache \in [Provider -> Cache] /\ fetch \in [Provider -> Fetch]
        /\ since \in [Provider -> [Kid -> 0 .. KeyMemory]]
    BY Shapes DEF IndInv
  <2>2. /\ cache'[p].keys = fetch[p].keys /\ cache'[p].age = 0
        /\ \A q \in Provider \ {p} : cache'[q] = cache[q]
    BY <1>3, <2>1
  <2>3. ASSUME NEW k \in Kid \ fetch[p].keys
        PROVE  k \notin published[p] \/ since[p][k] <= 0 + FetchTimeout
    <3>1. since[p][k] \in Int /\ fetch[p].age \in 0 .. FetchTimeout
      BY <2>1, Periods DEF Fetch
    <3> QED
      BY <1>1, <3>1, Periods DEF IndInv, AnswersAreFresh, UnpublishedWithin
  <2>4. ASSUME NEW q \in Provider, cache'[q].age <= MaxStaleness, NEW k \in Kid \ cache'[q].keys
        PROVE  k \notin published[q] \/ since[q][k] <= cache'[q].age + FetchTimeout
    <3>1. CASE q = p
      BY <2>2, <2>3, <2>4, <3>1
    <3>2. CASE q # p
      BY <2>2, <2>4, <3>2 DEF CachesHaveAll, UnpublishedWithin
    <3> QED
      BY <3>1, <3>2
  <2> QED
    BY <1>1, <2>4 DEF CachesHaveAll, UnpublishedWithin
<1> QED
  BY <1>2, <1>3 DEF StoreKeys

\* A key whose publication changes has changed just now.
LEMMA MirrorRotate ==
    ASSUME IndInv, CachesHaveAll, NEW p \in Provider, Rotate(p)
    PROVE  CachesHaveAll'
<1>1. PICK keys \in SUBSET Kid :
         /\ published' = [published EXCEPT ![p] = keys]
         /\ since' = [since EXCEPT ![p] =
                [k \in Kid |-> IF (k \in keys) = (k \in published[p]) THEN @[k] ELSE 0]]
  BY DEF Rotate
<1>2. /\ cache \in [Provider -> Cache] /\ cache' = cache
      /\ since \in [Provider -> [Kid -> 0 .. KeyMemory]] /\ published \in [Provider -> SUBSET Kid]
  BY Shapes DEF IndInv, Rotate
<1> DEFINE new == [k \in Kid |-> IF (k \in keys) = (k \in published[p]) THEN since[p][k] ELSE 0]
<1>3. since' = [since EXCEPT ![p] = new]
  BY <1>1, <1>2
<1>4. \A k \in Kid : (new[k] = since[p][k] /\ (k \in keys <=> k \in published[p])) \/ new[k] = 0
  OBVIOUS
<1> HIDE DEF new
<1>5. /\ since'[p] = new /\ published'[p] = keys
      /\ \A q \in Provider \ {p} : since'[q] = since[q] /\ published'[q] = published[q]
  BY <1>1, <1>2, <1>3
<1>6. ASSUME NEW q \in Provider, NEW k \in Kid, NEW s \in Nat, UnpublishedWithin(q, k, s)
      PROVE  k \notin published'[q] \/ since'[q][k] <= s
  BY <1>4, <1>5, <1>6 DEF UnpublishedWithin
<1>7. \A q \in Provider : cache[q].age + FetchTimeout \in Nat
  BY <1>2, Periods DEF Cache
<1> QED
  BY <1>2, <1>6, <1>7 DEF CachesHaveAll, UnpublishedWithin

\* In a second the caches and what is known of the keys grow older by the same.
LEMMA MirrorTick ==
    ASSUME IndInv, CachesHaveAll, Tick
    PROVE  CachesHaveAll'
<1>1. /\ cache \in [Provider -> Cache] /\ since \in [Provider -> [Kid -> 0 .. KeyMemory]]
      /\ published' = published
  BY Shapes DEF IndInv, Tick
<1> SUFFICES ASSUME NEW p \in Provider, cache'[p].age <= MaxStaleness, NEW k \in Kid \ cache'[p].keys
             PROVE  k \notin published[p] \/ since'[p][k] <= cache'[p].age + FetchTimeout
  BY <1>1 DEF CachesHaveAll, UnpublishedWithin
<1>2. /\ cache[p].age \in 0 .. HardStale /\ cache'[p].keys = cache[p].keys
      /\ cache'[p].age = Older(cache[p].age, HardStale)
  BY <1>1 DEF Tick, Cache
<1>3. cache'[p].age = cache[p].age + 1 /\ cache[p].age <= MaxStaleness
  BY <1>2, Periods DEF Older
<1>4. since[p][k] \in 0 .. KeyMemory /\ since'[p][k] = Older(since[p][k], KeyMemory)
  BY <1>1 DEF Tick
<1>5. since'[p][k] <= since[p][k] + 1 /\ since'[p][k] \in Int
  BY <1>4, OlderType, Periods
<1>6. k \notin published[p] \/ since[p][k] <= cache[p].age + FetchTimeout
  BY <1>2, <1>3 DEF CachesHaveAll, UnpublishedWithin
<1> QED
  BY <1>2, <1>3, <1>4, <1>5, <1>6, Periods

\* Every step of the requests, the rounds and the issuers keeps the mirror.
LEMMA MirrorStep ==
    ASSUME IndInv, CachesHaveAll, [Next]_vars
    PROVE  CachesHaveAll'
<1>1. CASE UNCHANGED vars
  BY <1>1, MirrorQuiet DEF vars
<1>2. ASSUME NEW r \in Request,
             Step(r) \/ Disconnect(r) \/ \E p \in Provider, k \in Kid : Verify(r, p, k)
      PROVE  UNCHANGED <<cache, published, since>>
  BY <1>2 DEF Step, Key, RefreshForUnknownKid, Reread, Disconnect, Verify, environment
<1>3. ASSUME NEW p \in Provider,
             \/ RefreshSoftIfDue(p) \/ Discovered(p) \/ FetchFailed(p) \/ JwksAnswered(p)
             \/ TroubleChange(p)
      PROVE  UNCHANGED <<cache, published, since>>
  BY <1>3 DEF RefreshSoftIfDue, Discovered, FetchFailed, JwksAnswered, TroubleChange, environment
<1>4. StartRound => UNCHANGED <<cache, published, since>>
  BY DEF StartRound, environment
<1> QED
  BY <1>1, <1>2, <1>3, <1>4, MirrorQuiet, MirrorStore, MirrorRotate, MirrorTick DEF Next, Refreshing

\* The cache of every provider shows its issuer as it was a fetch before
\* fetched_at at most, for any number of providers and requests.
THEOREM MirroredIssuers == Spec => []CachesMirrorIssuers
<1>1. Init => IndInv /\ CachesHaveAll
  <2> SUFFICES ASSUME Init PROVE CachesHaveAll
    BY InitIndInv
  <2>1. \A p \in Provider : cache[p].age = HardStale
    BY DEF Init
  <2> QED
    BY <2>1, Periods DEF CachesHaveAll
<1>2. IndInv /\ CachesHaveAll /\ [Next]_vars => (IndInv /\ CachesHaveAll)'
  BY NextIndInv, MirrorStep
<1>3. IndInv /\ CachesHaveAll => CachesMirrorIssuers
  <2> SUFFICES ASSUME IndInv, CachesHaveAll, NEW p \in Provider, NEW k \in Kid,
                      cache[p].age <= MaxStaleness, since[p][k] > cache[p].age + FetchTimeout
               PROVE  k \in cache[p].keys <=> k \in published[p]
    BY DEF CachesMirrorIssuers
  <2>1. cache[p] \in Cache /\ since[p][k] \in Nat
    BY Shapes DEF IndInv
  <2>2. ~(since[p][k] <= cache[p].age + FetchTimeout)
    BY <2>1, Periods DEF Cache
  <2>3. k \in cache[p].keys => k \in published[p]
    BY <2>2 DEF IndInv, CachesAreBounded, PublishedWithin
  <2>4. k \notin cache[p].keys => k \notin published[p]
    BY <2>2 DEF CachesHaveAll, UnpublishedWithin
  <2> QED
    BY <2>3, <2>4
<1> QED
  BY <1>1, <1>2, <1>3, PTL DEF Spec

\* While a provider is healthy, a change of its keys reaches its cache within
\* the soft age, a round of hanging providers and the loop's sleep.
ProviderKeysAreCurrent ==
    \A p \in Provider, k \in Kid :
        healthyFor[p] >= Recovery /\ since[p][k] > SoftRefresh + Retry + 9 * FetchTimeout =>
            (k \in cache[p].keys <=> k \in published[p])

(***************************************************************************)
(* A provider that has been healthy for two rounds and the loop's sleep    *)
(* has its new keys cached and its withdrawn ones dropped in bounded time, *)
(* whatever the other providers do to the rounds they share.               *)
(***************************************************************************)
THEOREM CurrentProviderKeys ==
    ASSUME SoftRefresh + Retry + 8 * FetchTimeout <= MaxStaleness
    PROVE  Spec => []ProviderKeysAreCurrent
<1>1. IndInv /\ ProvidersAreIsolated /\ CachesMirrorIssuers => ProviderKeysAreCurrent
  <2> SUFFICES ASSUME IndInv, ProvidersAreIsolated, CachesMirrorIssuers,
                      NEW p \in Provider, NEW k \in Kid, healthyFor[p] >= Recovery,
                      since[p][k] > SoftRefresh + Retry + 9 * FetchTimeout
               PROVE  k \in cache[p].keys <=> k \in published[p]
    BY DEF ProviderKeysAreCurrent
  <2>1. cache[p] \in Cache /\ since[p][k] \in Nat
    BY Shapes DEF IndInv
  <2>2. cache[p].age <= SoftRefresh + Retry + 8 * FetchTimeout /\ cache[p].age \in Nat
    BY <2>1, Periods DEF ProvidersAreIsolated, Cache
  <2>3. cache[p].age <= MaxStaleness /\ since[p][k] > cache[p].age + FetchTimeout
    BY <2>1, <2>2, Periods
  <2> QED
    BY <2>3 DEF CachesMirrorIssuers
<1> QED
  BY <1>1, ProvidersInvariant, IsolatedProviders, MirroredIssuers, PTL
=============================================================================
