----------------------------- MODULE JwksCache -----------------------------
(***************************************************************************)
(* The signing-key cache of src/github.rs: GitHubVerifier.                 *)
(*                                                                         *)
(* verify() calls key(kid) for every assertion.  Keys come from a cache    *)
(* that a background loop refreshes, and that a request for an unknown key *)
(* ID refreshes itself at most once per retry window.  All refreshes hold  *)
(* the `refresh' mutex across the HTTP fetch; the cache has a lock of its  *)
(* own that is never held across an await.                                 *)
(*                                                                         *)
(* The code only compares differences of timestamps, so a timestamp is     *)
(* kept as its age in seconds, up to the age beyond which nothing depends  *)
(* on it ("never" is that age).  Time is therefore unbounded.              *)
(***************************************************************************)
EXTENDS Integers

CONSTANTS
    Request,        \* key() futures that can run at the same time
    Kid,            \* key IDs
    SoftRefresh,    \* JWKS_SOFT_REFRESH_SECONDS
    Retry,          \* JWKS_REFRESH_RETRY_SECONDS
    MaxStaleness,   \* max_staleness
    FetchTimeout,   \* timeout of jwks_client
    Disconnects,    \* whether clients may go away during a request
    KeyMemory,      \* bound: how far back `since' remembers
    HealthMemory    \* bound: how far back `healthyFor' remembers

ASSUME PeriodAssumption ==
    /\ Kid # {}
    /\ {SoftRefresh, Retry, MaxStaleness} \subseteq Nat \ {0}
    /\ {FetchTimeout, KeyMemory, HealthMemory} \subseteq Nat
    /\ Disconnects \in BOOLEAN
    /\ "loop" \notin Request /\ "nobody" \notin Request

(***************************************************************************)
(* The source's numbers: 300 + 30 + 2 * 5 is below 600, the least maximum  *)
(* staleness that valid_github_jwks_max_staleness in config.rs lets pass,  *)
(* and a fetch of 5 seconds at most ends within the retry window of 30.    *)
(***************************************************************************)
ASSUME StalenessAssumption ==
    /\ SoftRefresh + Retry + 2 * FetchTimeout <= MaxStaleness
    /\ FetchTimeout < Retry

VARIABLES
    cache,       \* KeyCache: the keys and the age of fetched_at
    refresh,     \* RefreshState: ages of the attempts, last_forced_failed
    lock,        \* who holds the `refresh' mutex
    fetch,       \* the HTTP request its holder waits for
    caller,      \* per request: the state of its key() future
    loop,        \* the task of run_refresh_loop
    published,   \* environment: the usable signing keys the issuer publishes
    outage,      \* environment: fetches fail
    polled,      \* history: seconds since a request last sent a fetch
    since,       \* history: per key, seconds since its publication changed
    healthyFor   \* history: seconds without an outage or an unusable document

\* The environment and what is remembered of it.
issuer == <<published, outage, since, healthyFor>>

vars == <<cache, refresh, lock, fetch, caller, loop, published, outage, polled, since,
          healthyFor>>

-----------------------------------------------------------------------------
(* Ages.                                                                    *)

HardStale == MaxStaleness + 1

Older(age, cap) == IF age < cap THEN age + 1 ELSE cap

\* attempted_recently(last_attempt, now).
AttemptedRecently(age) == age < Retry

\* cache_is_usable(cache, now, max_staleness).
CacheIsUsable == cache.keys # {} /\ cache.age <= MaxStaleness

\* check_ready().
CheckReady == CacheIsUsable

-----------------------------------------------------------------------------
(* The states of the parts.                                                 *)

\* What key() can return.
Verdict == {"Ok", "Invalid", "KeysUnavailable"}

Caller == [pc : {"idle", "read", "lock", "fetch", "reread"} \cup Verdict,
           kid : Kid,
           failed : BOOLEAN]         \* refresh_result.is_err()

NoCall == [pc |-> "idle", kid |-> CHOOSE k \in Kid : TRUE, failed |-> FALSE]

\* No key in the answer: the fetch failed or the document was unusable.
NoFetch == [answered |-> FALSE, keys |-> {}, age |-> 0]

\* The caller's future goes on at the given point.
Goto(r, pc, failed) == caller' = [caller EXCEPT ![r].pc = pc, ![r].failed = failed]

\* The future is over; nothing but its result is left of it.
Return(r, verdict) == caller' = [caller EXCEPT ![r] = [NoCall EXCEPT !.pc = verdict]]

\* The mutex is taken and refresh_now sends its GET.
StartFetch(who) ==
    /\ lock = "nobody"
    /\ lock' = who
    /\ fetch' = NoFetch

-----------------------------------------------------------------------------
(* key(kid).                                                                *)

\* verify() decodes the header of an assertion and calls key(kid).
Verify(r, k) ==
    /\ caller[r].pc \in {"idle"} \cup Verdict
    /\ caller' = [caller EXCEPT ![r] = [pc |-> "read", kid |-> k, failed |-> FALSE]]
    /\ UNCHANGED <<cache, refresh, lock, fetch, loop, issuer, polled>>

\* Faulty variant: a cached key is used however old the cache is.
KeyWithoutBound(r) ==
    /\ caller[r].pc = "read"
    /\ \/ caller[r].kid \in cache.keys /\ Return(r, "Ok")
       \/ caller[r].kid \notin cache.keys /\ Goto(r, "lock", FALSE)
    /\ UNCHANGED <<cache, refresh, lock, fetch, loop, issuer, polled>>

\* The first look at the cache: a cached key is used or, if stale, given up.
Key(r) ==
    /\ caller[r].pc = "read"
    /\ \/ caller[r].kid \in cache.keys /\ CacheIsUsable /\ Return(r, "Ok")
       \/ caller[r].kid \in cache.keys /\ ~CacheIsUsable /\ Return(r, "KeysUnavailable")
       \/ caller[r].kid \notin cache.keys /\ Goto(r, "lock", FALSE)
    /\ UNCHANGED <<cache, refresh, lock, fetch, loop, issuer, polled>>

\* Faulty variant: the attempt is not recorded before the fetch.
RefreshWithoutStamp(r) ==
    /\ caller[r].pc = "lock" /\ lock = "nobody"
    /\ \/ /\ caller[r].kid \in cache.keys
          /\ Goto(r, "reread", FALSE)
          /\ UNCHANGED <<refresh, lock, fetch, polled>>
       \/ /\ caller[r].kid \notin cache.keys
          /\ StartFetch(r)
          /\ polled' = 0
          /\ Goto(r, "fetch", FALSE)
          /\ UNCHANGED refresh
    /\ UNCHANGED <<cache, loop, issuer>>

\* refresh_for_unknown_kid_if_due: cached meanwhile, rate-limited, or a fetch.
RefreshForUnknownKid(r) ==
    /\ caller[r].pc = "lock" /\ lock = "nobody"
    /\ \/ /\ caller[r].kid \in cache.keys
          /\ Goto(r, "reread", FALSE)
          /\ UNCHANGED <<refresh, lock, fetch, polled>>
       \/ /\ caller[r].kid \notin cache.keys /\ AttemptedRecently(refresh.forcedAge)
          /\ Goto(r, "reread", refresh.forcedFailed)
          /\ UNCHANGED <<refresh, lock, fetch, polled>>
       \/ /\ caller[r].kid \notin cache.keys /\ ~AttemptedRecently(refresh.forcedAge)
          /\ StartFetch(r)
          /\ refresh' = [refresh EXCEPT !.forcedAge = 0]
          /\ polled' = 0
          /\ Goto(r, "fetch", FALSE)
    /\ UNCHANGED <<cache, loop, issuer>>

\* Faulty variant: fetched keys are added to the cached ones.
StoreKeysMerged ==
    /\ fetch.answered
    /\ cache' = IF fetch.keys = {} THEN cache
                ELSE [keys |-> cache.keys \cup fetch.keys, age |-> 0]
    /\ lock' = "nobody"
    /\ fetch' = NoFetch

\* The end of refresh_now: the cache is replaced unless there is no key.
StoreKeys ==
    /\ fetch.answered
    /\ cache' = IF fetch.keys = {} THEN cache ELSE [keys |-> fetch.keys, age |-> 0]
    /\ lock' = "nobody"
    /\ fetch' = NoFetch

\* Faulty variant: a failed attempt is not remembered as failed.
ForcedFetchDoneUnrecorded(r) ==
    /\ lock = r
    /\ StoreKeys
    /\ Goto(r, "reread", fetch.keys = {})
    /\ UNCHANGED <<refresh, loop, issuer, polled>>

\* The forced refresh ends.
ForcedFetchDone(r) ==
    /\ lock = r
    /\ StoreKeys
    /\ refresh' = [refresh EXCEPT !.forcedFailed = (fetch.keys = {})]
    /\ Goto(r, "reread", fetch.keys = {})
    /\ UNCHANGED <<loop, issuer, polled>>

\* The second look at the cache.
Reread(r) ==
    /\ caller[r].pc = "reread"
    /\ LET found == caller[r].kid \in cache.keys IN
       \/ CacheIsUsable /\ found /\ Return(r, "Ok")
       \/ CacheIsUsable /\ ~found /\ ~caller[r].failed /\ Return(r, "Invalid")
       \/ CacheIsUsable /\ ~found /\ caller[r].failed /\ Return(r, "KeysUnavailable")
       \/ ~CacheIsUsable /\ Return(r, "KeysUnavailable")
    /\ UNCHANGED <<cache, refresh, lock, fetch, loop, issuer, polled>>

\* The client goes away: the future is dropped, and with it a mutex guard.
Disconnect(r) ==
    /\ Disconnects
    /\ caller[r].pc \in {"read", "lock", "fetch", "reread"}
    /\ Return(r, "idle")
    /\ lock' = IF lock = r THEN "nobody" ELSE lock
    /\ fetch' = IF lock = r THEN NoFetch ELSE fetch
    /\ UNCHANGED <<cache, refresh, loop, issuer, polled>>

-----------------------------------------------------------------------------
(* run_refresh_loop.                                                        *)

\* Faulty variant: one time stamp limits both kinds of refresh.
RefreshSoftSharedStamp ==
    /\ loop = 0 /\ lock = "nobody"
    /\ \/ /\ cache.age < SoftRefresh \/ AttemptedRecently(refresh.forcedAge)
          /\ loop' = Retry
          /\ UNCHANGED <<refresh, lock, fetch>>
       \/ /\ cache.age >= SoftRefresh /\ ~AttemptedRecently(refresh.forcedAge)
          /\ StartFetch("loop")
          /\ refresh' = [refresh EXCEPT !.softAge = 0]
          /\ UNCHANGED loop
    /\ UNCHANGED <<cache, caller, issuer, polled>>

\* refresh_soft_if_due, once the loop has slept.
RefreshSoftIfDue ==
    /\ loop = 0 /\ lock = "nobody"
    /\ \/ /\ cache.age < SoftRefresh \/ AttemptedRecently(refresh.softAge)
          /\ loop' = Retry
          /\ UNCHANGED <<refresh, lock, fetch>>
       \/ /\ cache.age >= SoftRefresh /\ ~AttemptedRecently(refresh.softAge)
          /\ StartFetch("loop")
          /\ refresh' = [refresh EXCEPT !.softAge = 0]
          /\ UNCHANGED loop
    /\ UNCHANGED <<cache, caller, issuer, polled>>

\* The soft refresh ends, and the loop sleeps again whatever came of it.
SoftFetchDone ==
    /\ lock = "loop"
    /\ StoreKeys
    /\ loop' = Retry
    /\ UNCHANGED <<refresh, caller, issuer, polled>>

-----------------------------------------------------------------------------
(* The environment.                                                         *)

Healthy == ~outage /\ published # {}

\* The issuer answers with what it publishes now; in an outage there is no key.
Answer ==
    /\ lock # "nobody" /\ ~fetch.answered
    /\ fetch' = [fetch EXCEPT !.answered = TRUE,
                              !.keys = IF outage THEN {} ELSE published]
    /\ UNCHANGED <<cache, refresh, lock, caller, loop, issuer, polled>>

\* The issuer rotates or withdraws keys.
Rotate ==
    /\ published' \in SUBSET Kid
    /\ published' # published
    /\ since' = [k \in Kid |-> IF (k \in published) = (k \in published') THEN since[k] ELSE 0]
    /\ UNCHANGED <<cache, refresh, lock, fetch, caller, loop, outage, polled>>
    /\ healthyFor' = IF Healthy' THEN healthyFor ELSE 0

\* Fetches begin or cease to fail.
OutageChange ==
    /\ outage' = ~outage
    /\ healthyFor' = 0
    /\ UNCHANGED <<cache, refresh, lock, fetch, caller, loop, published, since, polled>>

\* A future that can go on does so within the second.
Runnable(r) ==
    \/ caller[r].pc \in {"read", "reread"}
    \/ caller[r].pc = "lock" /\ lock = "nobody"

\* A second passes; a fetch lasts FetchTimeout at most.
Tick ==
    /\ \A r \in Request : ~Runnable(r)
    /\ lock = "nobody" => loop > 0
    /\ lock # "nobody" => fetch.age < FetchTimeout
    /\ cache' = [cache EXCEPT !.age = Older(@, HardStale)]
    /\ refresh' = [refresh EXCEPT !.softAge = Older(@, Retry), !.forcedAge = Older(@, Retry)]
    /\ fetch' = [fetch EXCEPT !.age = IF lock = "nobody" THEN 0 ELSE @ + 1]
    /\ loop' = IF loop > 0 THEN loop - 1 ELSE 0
    /\ polled' = Older(polled, Retry)
    /\ since' = [k \in Kid |-> Older(since[k], KeyMemory)]
    /\ healthyFor' = IF Healthy THEN Older(healthyFor, HealthMemory) ELSE 0
    /\ UNCHANGED <<lock, caller, published, outage>>

\* main.rs: warm_up() has succeeded, then the loop is spawned.
Init ==
    /\ published \in (SUBSET Kid) \ {{}}
    /\ cache = [keys |-> published, age |-> 0]
    /\ refresh = [softAge |-> Retry, forcedAge |-> Retry, forcedFailed |-> FALSE]
    /\ lock = "nobody"
    /\ fetch = NoFetch
    /\ caller = [r \in Request |-> NoCall]
    /\ loop = Retry
    /\ outage = FALSE
    /\ polled = Retry
    /\ since = [k \in Kid |-> 0]
    /\ healthyFor = 0

\* The steps of the program that nothing but its own scheduling holds back.
Step(r) == Key(r) \/ RefreshForUnknownKid(r) \/ ForcedFetchDone(r) \/ Reread(r)
LoopStep == RefreshSoftIfDue \/ SoftFetchDone

Next ==
    \/ \E r \in Request : Step(r) \/ Disconnect(r) \/ \E k \in Kid : Verify(r, k)
    \/ LoopStep
    \/ Answer \/ Rotate \/ OutageChange \/ Tick

Spec == Init /\ [][Next]_vars

(***************************************************************************)
(* The runtime polls every future that can go on, a fetch ends (its client *)
(* has a timeout), and time passes however many requests arrive.  Clients, *)
(* key rotation and outages are not fair.                                  *)
(***************************************************************************)
FairSpec ==
    /\ Spec
    /\ \A r \in Request : WF_vars(Step(r))
    /\ WF_vars(LoopStep)
    /\ WF_vars(Answer)
    /\ SF_vars(Tick)

-----------------------------------------------------------------------------
(* Properties.                                                              *)

\* The parts of the state have their types, and the mutex belongs to the one
\* future that is inside a fetch.
TypeOK ==
    /\ cache \in [keys : SUBSET Kid, age : 0 .. HardStale]
    /\ refresh \in [softAge : 0 .. Retry, forcedAge : 0 .. Retry, forcedFailed : BOOLEAN]
    /\ lock \in Request \cup {"loop", "nobody"}
    /\ fetch \in [answered : BOOLEAN, keys : SUBSET Kid, age : 0 .. FetchTimeout]
    /\ caller \in [Request -> Caller]
    /\ loop \in 0 .. Retry
    /\ published \in SUBSET Kid
    /\ outage \in BOOLEAN
    /\ polled \in 0 .. Retry
    /\ since \in [Kid -> 0 .. KeyMemory]
    /\ healthyFor \in 0 .. HealthMemory
    /\ \A r \in Request : caller[r].pc = "fetch" <=> lock = r

\* The request returns with this verdict in this step.
Returns(r, verdict) == caller[r].pc # verdict /\ caller'[r].pc = verdict

(***************************************************************************)
(* key() trusts no withdrawn key for longer than the configured bound: a   *)
(* key it hands out was published at most max_staleness and one fetch      *)
(* before.  (fetched_at is the time the answer was stored, not the time    *)
(* the issuer gave it, hence the fetch.)                                   *)
(***************************************************************************)
WithdrawnKeysExpire ==
    [][\A r \in Request : Returns(r, "Ok") =>
            \/ caller[r].kid \in published
            \/ since[caller[r].kid] <= MaxStaleness + FetchTimeout]_vars

(***************************************************************************)
(* Requests with unknown key IDs cannot make the replica hammer the        *)
(* issuer: two fetches sent for requests are at least the retry window     *)
(* apart, also when the request that sent the first was dropped before the *)
(* answer came.                                                            *)
(***************************************************************************)
ForcedFetchesAreSpaced ==
    [][\A r \in Request : lock # r /\ lock' = r => polled >= Retry]_vars

(***************************************************************************)
(* While clients stay connected, key() refuses an assertion as Invalid     *)
(* only if its key was unpublished within the retry window and one fetch:  *)
(* a rate-limited or shared refresh never turns a key that has been        *)
(* published for longer into a denial.                                     *)
(***************************************************************************)
RefusalsAreInformed ==
    [][\A r \in Request : Returns(r, "Invalid") =>
            \/ caller[r].kid \notin published
            \/ since[caller[r].kid] <= Retry + FetchTimeout]_vars

(***************************************************************************)
(* The cache shows the issuer as it was a fetch before fetched_at at most: *)
(* a key whose publication has not changed since is cached if and only if  *)
(* it is published, whoever filled the cache and in whatever order fetches *)
(* were sent, answered, dropped and stored.                                *)
(***************************************************************************)
CacheMirrorsIssuer ==
    cache.age <= MaxStaleness =>
        \A k \in Kid : since[k] > cache.age + FetchTimeout =>
            (k \in cache.keys <=> k \in published)

\* A failing fetch, the loop's sleep, a fetch it waits for and its own are over.
Recovery == Retry + 3 * FetchTimeout + 1

(***************************************************************************)
(* docs/installation.md: the loop refreshes "so an idle replica refreshes  *)
(* before the hard-staleness bound".  Once the issuer has been healthy for *)
(* as long as the loop needs, the replica is ready and its keys are not    *)
(* much older than the soft age.                                           *)
(***************************************************************************)
ReadyWhileHealthy ==
    healthyFor >= Recovery =>
        CheckReady /\ cache.age <= SoftRefresh + Retry + 2 * FetchTimeout

(***************************************************************************)
(* While the issuer is healthy its new keys are cached, and its withdrawn  *)
(* ones dropped, once the soft age, a turn of run_refresh_loop and a fetch *)
(* are over: on an idle replica too, and long before the hard bound.       *)
(***************************************************************************)
KeysAreCurrent ==
    healthyFor >= Recovery =>
        \A k \in Kid : since[k] > SoftRefresh + Retry + 3 * FetchTimeout =>
            (k \in cache.keys <=> k \in published)

(***************************************************************************)
(* When the issuer settles on a set of keys and fetches work again, the    *)
(* cache ends up with exactly these keys for good, from any staleness: new *)
(* keys are picked up and withdrawn ones dropped without a restart.        *)
(***************************************************************************)
SettlesOnPublishedKeys ==
    \A S \in (SUBSET Kid) \ {{}} :
        <>[](~outage /\ published = S) => <>[](CheckReady /\ cache.keys = S)
=============================================================================
