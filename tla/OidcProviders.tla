--------------------------- MODULE OidcProviders ---------------------------
(***************************************************************************)
(* The verifier set of src/oidc.rs: OidcVerifierSet and ProviderVerifier.  *)
(*                                                                         *)
(* Every configured provider has a key cache and a `refresh' mutex of its  *)
(* own; nothing is fetched at start-up.  One background task refreshes all *)
(* providers in rounds: it spawns one refresh per provider, waits for all  *)
(* of them and sleeps.  A request whose key is not cached refreshes its    *)
(* provider itself, at most once per retry window.  A refresh is two HTTP  *)
(* fetches in sequence, the discovery document and the key set it names;   *)
(* the mutex is held across both.                                          *)
(*                                                                         *)
(* As in JwksCache, a timestamp is kept as its age in seconds up to the    *)
(* age beyond which nothing depends on it.                                 *)
(***************************************************************************)
EXTENDS Integers

CONSTANTS
    Provider,       \* configured providers
    Request,        \* key() futures that can run at the same time
    Kid,            \* key IDs
    SoftRefresh,    \* JWKS_SOFT_REFRESH_SECONDS
    Retry,          \* JWKS_REFRESH_RETRY_SECONDS
    MaxStaleness,   \* max_staleness
    FetchTimeout,   \* timeout of the discovery client, per fetch
    Disconnects,    \* whether clients may go away during a request
    Troubles,       \* ways in which a provider may fail
    KeyMemory,      \* bound: how far back `since' remembers
    HealthMemory    \* bound: how far back `healthyFor' remembers

ASSUME ProviderAssumption ==
    /\ Provider # {} /\ Kid # {}
    /\ {SoftRefresh, MaxStaleness} \subseteq Nat \ {0}
    /\ {FetchTimeout, KeyMemory, HealthMemory} \subseteq Nat
    /\ Disconnects \in BOOLEAN
    /\ Troubles \subseteq {"down", "misconfigured"}
    /\ "loop" \notin Request /\ "nobody" \notin Request

\* Two fetches take 10 s at most, the retry window is 30 s.
ASSUME RetryAssumption == Retry \in Nat /\ Retry > 2 * FetchTimeout

VARIABLES
    cache,       \* per provider: KeyCache, the keys and the age of fetched_at
    refresh,     \* per provider: RefreshState, the ages of the attempts
    lock,        \* per provider: who holds the `refresh' mutex
    fetch,       \* per provider: the HTTP exchange its holder waits for
    caller,      \* per request: the state of its key() future
    loop,        \* run_refresh_loop: refreshes not joined, seconds to sleep
    published,   \* environment: the usable signing keys of each issuer
    issuer,      \* environment: "up" or the trouble each issuer is in
    polled,      \* history: seconds since a request last fetched from it
    since,       \* history: per key, seconds since its publication changed
    healthyFor   \* history: seconds without trouble at the issuer

environment == <<published, issuer, since, healthyFor>>

vars == <<cache, refresh, lock, fetch, caller, loop, published, issuer, polled, since,
          healthyFor>>

-----------------------------------------------------------------------------
(* Ages and the states of the parts.                                        *)

HardStale == MaxStaleness + 1

Older(age, cap) == IF age < cap THEN age + 1 ELSE cap

\* attempted_recently(last_attempt, now).
AttemptedRecently(age) == age < Retry

\* cache_is_usable(cache, now, max_staleness); also provider_readiness.
CacheIsUsable(p) == cache[p].keys # {} /\ cache[p].age <= MaxStaleness

\* What key() can return.
Verdict == {"Ok", "Invalid", "Unavailable"}

Caller == [pc       : {"idle", "read", "lock", "fetch", "reread"} \cup Verdict,
           provider : Provider,
           kid      : Kid]

NoCall == [pc       |-> "idle",
           provider |-> CHOOSE p \in Provider : TRUE,
           kid      |-> CHOOSE k \in Kid : TRUE]

\* Where refresh_now waits, and the keys of the document it was sent.
Fetch == [stage : {"none", "discovery", "jwks", "store"}, keys : SUBSET Kid,
          age : 0 .. FetchTimeout]

At(stage, keys, age) == [stage |-> stage, keys |-> keys, age |-> age]

NoFetch == At("none", {}, 0)

Goto(r, pc) == caller' = [caller EXCEPT ![r].pc = pc]

\* The future is over; nothing but its result is left of it.
Return(r, verdict) == caller' = [caller EXCEPT ![r] = [NoCall EXCEPT !.pc = verdict]]

-----------------------------------------------------------------------------
(* key(kid) up to its refresh.                                              *)

\* verify() finds the provider of the unverified issuer and calls key(kid).
Verify(r, p, k) ==
    /\ caller[r].pc \in {"idle"} \cup Verdict
    /\ caller' = [caller EXCEPT ![r] = [pc |-> "read", provider |-> p, kid |-> k]]
    /\ UNCHANGED <<cache, refresh, lock, fetch, loop, environment, polled>>

\* Faulty variant: a cached key is used however old the cache is.
KeyWithoutBound(r) ==
    /\ caller[r].pc = "read"
    /\ LET p == caller[r].provider IN
       \/ caller[r].kid \in cache[p].keys /\ Return(r, "Ok")
       \/ caller[r].kid \notin cache[p].keys /\ Goto(r, "lock")
    /\ UNCHANGED <<cache, refresh, lock, fetch, loop, environment, polled>>

\* The first look at the cache: stale keys are not refreshed by a request.
Key(r) ==
    /\ caller[r].pc = "read"
    /\ LET p == caller[r].provider IN
       \/ CacheIsUsable(p) /\ caller[r].kid \in cache[p].keys /\ Return(r, "Ok")
       \/ ~CacheIsUsable(p) /\ cache[p].keys # {} /\ Return(r, "Unavailable")
       \/ CacheIsUsable(p) /\ caller[r].kid \notin cache[p].keys /\ Goto(r, "lock")
       \/ cache[p].keys = {} /\ Goto(r, "lock")
    /\ UNCHANGED <<cache, refresh, lock, fetch, loop, environment, polled>>

\* The mutex of the provider is taken and the discovery document asked for.
StartFetch(who, p) ==
    /\ lock[p] = "nobody"
    /\ lock' = [lock EXCEPT ![p] = who]
    /\ fetch' = [fetch EXCEPT ![p] = At("discovery", {}, 0)]

\* Faulty variant: the attempt is not recorded before the fetch.
RefreshWithoutStamp(r) ==
    LET p == caller[r].provider IN
    /\ caller[r].pc = "lock"
    /\ StartFetch(r, p)
    /\ polled' = [polled EXCEPT ![p] = 0]
    /\ Goto(r, "fetch")
    /\ UNCHANGED <<refresh, cache, loop, environment>>

\* Faulty variant: a request within the window answers from the cache.
RefreshThrottledQuietly(r) ==
    LET p == caller[r].provider IN
    /\ caller[r].pc = "lock" /\ lock[p] = "nobody"
    /\ \/ /\ AttemptedRecently(refresh[p].forcedAge)
          /\ Goto(r, "reread")
          /\ UNCHANGED <<refresh, lock, fetch, polled>>
       \/ /\ ~AttemptedRecently(refresh[p].forcedAge)
          /\ StartFetch(r, p)
          /\ refresh' = [refresh EXCEPT ![p].forcedAge = 0]
          /\ polled' = [polled EXCEPT ![p] = 0]
          /\ Goto(r, "fetch")
    /\ UNCHANGED <<cache, loop, environment>>

\* refresh_for_unknown_kid_if_due: the cache is not looked at again.
RefreshForUnknownKid(r) ==
    LET p == caller[r].provider IN
    /\ caller[r].pc = "lock" /\ lock[p] = "nobody"
    /\ \/ /\ AttemptedRecently(refresh[p].forcedAge)
          /\ Return(r, "Unavailable")
          /\ UNCHANGED <<refresh, lock, fetch, polled>>
       \/ /\ ~AttemptedRecently(refresh[p].forcedAge)
          /\ StartFetch(r, p)
          /\ refresh' = [refresh EXCEPT ![p].forcedAge = 0]
          /\ polled' = [polled EXCEPT ![p] = 0]
          /\ Goto(r, "fetch")
    /\ UNCHANGED <<cache, loop, environment>>

\* The second look at the cache, after a refresh that succeeded.
Reread(r) ==
    /\ caller[r].pc = "reread"
    /\ LET p == caller[r].provider IN
       \/ ~CacheIsUsable(p) /\ Return(r, "Unavailable")
       \/ CacheIsUsable(p) /\ caller[r].kid \in cache[p].keys /\ Return(r, "Ok")
       \/ CacheIsUsable(p) /\ caller[r].kid \notin cache[p].keys /\ Return(r, "Invalid")
    /\ UNCHANGED <<cache, refresh, lock, fetch, loop, environment, polled>>

\* Faulty variant: the mutex outlives the future that holds it.
DisconnectHoldingLock(r) ==
    LET p == caller[r].provider IN
    /\ Disconnects
    /\ caller[r].pc \in {"read", "lock", "fetch", "reread"}
    /\ Return(r, "idle")
    /\ fetch' = IF lock[p] = r THEN [fetch EXCEPT ![p] = NoFetch] ELSE fetch
    /\ UNCHANGED <<lock, cache, refresh, loop, environment, polled>>

\* The client goes away: the future is dropped, and with it a mutex guard.
Disconnect(r) ==
    LET p == caller[r].provider IN
    /\ Disconnects
    /\ caller[r].pc \in {"read", "lock", "fetch", "reread"}
    /\ Return(r, "idle")
    /\ lock' = IF lock[p] = r THEN [lock EXCEPT ![p] = "nobody"] ELSE lock
    /\ fetch' = IF lock[p] = r THEN [fetch EXCEPT ![p] = NoFetch] ELSE fetch
    /\ UNCHANGED <<cache, refresh, loop, environment, polled>>

-----------------------------------------------------------------------------
(* run_refresh_loop.                                                        *)

\* A round begins: refresh_soft_if_due is spawned for every provider.
StartRound ==
    /\ loop.pending = {} /\ loop.sleep = 0
    /\ loop' = [loop EXCEPT !.pending = Provider]
    /\ UNCHANGED <<cache, refresh, lock, fetch, caller, environment, polled>>

\* The refresh of a provider is joined; after the last one the loop sleeps.
Joined(p) ==
    loop' = [pending |-> loop.pending \ {p},
             sleep   |-> IF loop.pending = {p} THEN Retry ELSE 0]

\* refresh_soft_if_due.
RefreshSoftIfDue(p) ==
    /\ p \in loop.pending /\ lock[p] = "nobody"
    /\ LET due == /\ cache[p].age >= SoftRefresh
                  /\ ~AttemptedRecently(refresh[p].softAge)
       IN  \/ ~due /\ Joined(p) /\ UNCHANGED <<refresh, lock, fetch>>
           \/ /\ due
              /\ StartFetch("loop", p)
              /\ refresh' = [refresh EXCEPT ![p].softAge = 0]
              /\ UNCHANGED loop
    /\ UNCHANGED <<cache, caller, environment, polled>>

-----------------------------------------------------------------------------
(* refresh_now.                                                             *)

\* Faulty variant: the first failure ends the round for every provider.
EndRefreshAborting(p, result) ==
    /\ lock' = [q \in Provider |->
                  IF q = p \/ (lock[p] = "loop" /\ result # "Ok" /\ lock[q] = "loop")
                  THEN "nobody" ELSE lock[q]]
    /\ fetch' = [q \in Provider |-> IF lock'[q] = "nobody" THEN NoFetch ELSE fetch[q]]
    /\ \/ /\ lock[p] = "loop"
          /\ loop' = IF result = "Ok" /\ loop.pending # {p}
                     THEN [pending |-> loop.pending \ {p}, sleep |-> 0]
                     ELSE [pending |-> {}, sleep |-> Retry]
          /\ UNCHANGED caller
       \/ /\ lock[p] \in Request
          /\ IF result = "Ok" THEN Goto(lock[p], "reread") ELSE Return(lock[p], result)
          /\ UNCHANGED loop

\* refresh_now is over; `?' hands a request the error, the loop only logs it.
EndRefresh(p, result) ==
    /\ lock' = [lock EXCEPT ![p] = "nobody"]
    /\ fetch' = [fetch EXCEPT ![p] = NoFetch]
    /\ \/ lock[p] = "loop" /\ Joined(p) /\ UNCHANGED caller
       \/ /\ lock[p] \in Request
          /\ IF result = "Ok" THEN Goto(lock[p], "reread") ELSE Return(lock[p], result)
          /\ UNCHANGED loop

\* The discovery document arrives and is valid: the key set is asked for.
Discovered(p) ==
    /\ fetch[p].stage = "discovery" /\ issuer[p] = "up"
    /\ fetch' = [fetch EXCEPT ![p] = At("jwks", {}, 0)]
    /\ UNCHANGED <<cache, refresh, lock, caller, loop, environment, polled>>

\* fetch_json fails, or the discovery document is not valid_discovery.
FetchFailed(p) ==
    /\ \/ /\ fetch[p].stage \in {"discovery", "jwks"} /\ issuer[p] = "down"
          /\ EndRefresh(p, "Unavailable")
       \/ /\ fetch[p].stage = "discovery" /\ issuer[p] = "misconfigured"
          /\ EndRefresh(p, "Invalid")
    /\ UNCHANGED <<cache, refresh, environment, polled>>

\* The issuer answers with the keys it publishes now.
JwksAnswered(p) ==
    /\ fetch[p].stage = "jwks" /\ issuer[p] # "down"
    /\ fetch' = [fetch EXCEPT ![p].stage = "store", ![p].keys = published[p]]
    /\ UNCHANGED <<cache, refresh, lock, caller, loop, environment, polled>>

\* Faulty variant: the keys of an answer are added to the ones there are.
StoreKeysMerged(p) ==
    /\ fetch[p].stage = "store"
    /\ \/ /\ fetch[p].keys = {}
          /\ EndRefresh(p, "Unavailable")
          /\ UNCHANGED cache
       \/ /\ fetch[p].keys # {}
          /\ cache' = [cache EXCEPT ![p] = [keys |-> @.keys \cup fetch[p].keys, age |-> 0]]
          /\ EndRefresh(p, "Ok")
    /\ UNCHANGED <<refresh, environment, polled>>

\* The cache is replaced unless the document holds no usable key.
StoreKeys(p) ==
    /\ fetch[p].stage = "store"
    /\ \/ /\ fetch[p].keys = {}
          /\ EndRefresh(p, "Unavailable")
          /\ UNCHANGED cache
       \/ /\ fetch[p].keys # {}
          /\ cache' = [cache EXCEPT ![p] = [keys |-> fetch[p].keys, age |-> 0]]
          /\ EndRefresh(p, "Ok")
    /\ UNCHANGED <<refresh, environment, polled>>

-----------------------------------------------------------------------------
(* The environment.                                                         *)

Healthy(p) == issuer[p] = "up" /\ published[p] # {}

\* An issuer rotates or withdraws keys.
Rotate(p) ==
    /\ \E keys \in SUBSET Kid :
          /\ keys # published[p]
          /\ published' = [published EXCEPT ![p] = keys]
          /\ since' = [since EXCEPT ![p] =
                [k \in Kid |-> IF (k \in keys) = (k \in published[p]) THEN @[k] ELSE 0]]
          /\ healthyFor' = [healthyFor EXCEPT ![p] = IF keys = {} THEN 0 ELSE @]
    /\ UNCHANGED <<cache, refresh, lock, fetch, caller, loop, issuer, polled>>

\* An issuer gets into trouble, or out of it.
TroubleChange(p) ==
    /\ \E state \in Troubles \cup {"up"} :
          /\ state # issuer[p]
          /\ issuer' = [issuer EXCEPT ![p] = state]
    /\ healthyFor' = [healthyFor EXCEPT ![p] = 0]
    /\ UNCHANGED <<cache, refresh, lock, fetch, caller, loop, published, since, polled>>

\* A future that can go on does so within the second.
Runnable(r) ==
    \/ caller[r].pc \in {"read", "reread"}
    \/ caller[r].pc = "lock" /\ lock[caller[r].provider] = "nobody"

\* A second passes; each of the two fetches lasts FetchTimeout at most.
Tick ==
    /\ \A r \in Request : ~Runnable(r)
    /\ loop.pending = {} => loop.sleep > 0
    /\ \A p \in loop.pending : lock[p] # "nobody"
    /\ \A p \in Provider : lock[p] # "nobody" => fetch[p].age < FetchTimeout
    /\ cache' = [p \in Provider |-> [cache[p] EXCEPT !.age = Older(@, HardStale)]]
    /\ refresh' = [p \in Provider |-> [softAge   |-> Older(refresh[p].softAge, Retry),
                                       forcedAge |-> Older(refresh[p].forcedAge, Retry)]]
    /\ fetch' = [p \in Provider |->
                    [fetch[p] EXCEPT !.age = IF lock[p] = "nobody" THEN 0 ELSE @ + 1]]
    /\ loop' = [loop EXCEPT !.sleep = IF @ > 0 THEN @ - 1 ELSE 0]
    /\ polled' = [p \in Provider |-> Older(polled[p], Retry)]
    /\ since' = [p \in Provider |-> [k \in Kid |-> Older(since[p][k], KeyMemory)]]
    /\ healthyFor' = [p \in Provider |->
                        IF Healthy(p) THEN Older(healthyFor[p], HealthMemory) ELSE 0]
    /\ UNCHANGED <<lock, caller, published, issuer>>

\* discover_with_additional_ca: empty caches and no network work.
Init ==
    /\ cache = [p \in Provider |-> [keys |-> {}, age |-> HardStale]]
    /\ refresh = [p \in Provider |-> [softAge |-> Retry, forcedAge |-> Retry]]
    /\ lock = [p \in Provider |-> "nobody"]
    /\ fetch = [p \in Provider |-> NoFetch]
    /\ caller = [r \in Request |-> NoCall]
    /\ loop = [pending |-> {}, sleep |-> 0]
    /\ published = [p \in Provider |-> Kid]
    /\ issuer \in [Provider -> Troubles \cup {"up"}]
    /\ polled = [p \in Provider |-> Retry]
    /\ since = [p \in Provider |-> [k \in Kid |-> 0]]
    /\ healthyFor = [p \in Provider |-> 0]

\* The steps of the program that nothing but its own scheduling holds back.
Step(r) == Key(r) \/ RefreshForUnknownKid(r) \/ Reread(r)
Refreshing(p) == Discovered(p) \/ FetchFailed(p) \/ JwksAnswered(p) \/ StoreKeys(p)

Next ==
    \/ \E r \in Request :
          Step(r) \/ Disconnect(r) \/ \E p \in Provider, k \in Kid : Verify(r, p, k)
    \/ StartRound
    \/ \E p \in Provider :
          RefreshSoftIfDue(p) \/ Refreshing(p) \/ Rotate(p) \/ TroubleChange(p)
    \/ Tick

Spec == Init /\ [][Next]_vars

-----------------------------------------------------------------------------
(* Properties.                                                              *)

\* A mutex is held by the one future that is inside a refresh of its provider.
LocksAreOwned ==
    /\ \A r \in Request, p \in Provider :
          lock[p] = r <=> caller[r].pc = "fetch" /\ caller[r].provider = p
    /\ \A p \in Provider : lock[p] = "loop" => p \in loop.pending
    /\ \A p \in Provider : lock[p] = "nobody" <=> fetch[p].stage = "none"

\* The parts of the state have their types; a mutex belongs to the one future
\* that is inside a refresh of its provider.
TypeOK ==
    /\ cache \in [Provider -> [keys : SUBSET Kid, age : 0 .. HardStale]]
    /\ refresh \in [Provider -> [softAge : 0 .. Retry, forcedAge : 0 .. Retry]]
    /\ lock \in [Provider -> Request \cup {"loop", "nobody"}]
    /\ fetch \in [Provider -> Fetch]
    /\ caller \in [Request -> Caller]
    /\ loop \in [pending : SUBSET Provider, sleep : 0 .. Retry]
    /\ published \in [Provider -> SUBSET Kid]
    /\ issuer \in [Provider -> {"up", "down", "misconfigured"}]
    /\ polled \in [Provider -> 0 .. Retry]
    /\ since \in [Provider -> [Kid -> 0 .. KeyMemory]]
    /\ healthyFor \in [Provider -> 0 .. HealthMemory]
    /\ LocksAreOwned

\* The request returns with this verdict in this step.
Returns(r, verdict) == caller[r].pc # verdict /\ caller'[r].pc = verdict

\* The key is published, or was not longer ago than this.
PublishedWithin(p, k, seconds) == k \in published[p] \/ since[p][k] <= seconds

(***************************************************************************)
(* docs/installation.md: "Generic caches use the same ... hard bound as    *)
(* GitHub keys."  key() trusts no key for longer than max_staleness and    *)
(* the fetch of the key set after the provider withdrew it.                *)
(***************************************************************************)
WithdrawnKeysExpire ==
    [][\A r \in Request : Returns(r, "Ok") =>
          PublishedWithin(caller[r].provider, caller[r].kid, MaxStaleness + FetchTimeout)]_vars

(***************************************************************************)
(* Requests with unknown key IDs cannot make the replica hammer a          *)
(* provider: two refreshes sent for requests to one provider are at least  *)
(* the retry window apart, dropped requests included.                      *)
(***************************************************************************)
ForcedFetchesAreSpaced ==
    [][\A r \in Request, p \in Provider : lock[p] # r /\ lock'[p] = r =>
            polled[p] >= Retry]_vars

(***************************************************************************)
(* tests/oidc_contract.rs: a throttled unknown key ID "is temporarily      *)
(* unavailable, not an identity denial".  Unless the provider's discovery  *)
(* document is broken, key() answers Invalid only for a key that was       *)
(* unpublished when this very request asked for it.                        *)
(***************************************************************************)
RefusalsAreInformed ==
    [][\A r \in Request : Returns(r, "Invalid") =>
          LET p == caller[r].provider
              k == caller[r].kid
          IN  \/ k \notin published[p] \/ since[p][k] <= FetchTimeout
              \/ issuer[p] = "misconfigured"]_vars

\* A round that had just failed, the loop's sleep, and a round that succeeds.
Recovery == 4 * FetchTimeout + Retry + 4 * FetchTimeout + 1

(***************************************************************************)
(* A cache shows its issuer as it was a fetch before fetched_at at most: a *)
(* key whose publication has not changed since is cached if and only if it *)
(* is published, however the discovery and key fetches of requests and     *)
(* rounds, the loop and dropped requests interleave.                       *)
(***************************************************************************)
CachesMirrorIssuers ==
    \A p \in Provider, k \in Kid :
        cache[p].age <= MaxStaleness /\ since[p][k] > cache[p].age + FetchTimeout =>
            (k \in cache[p].keys <=> k \in published[p])

(***************************************************************************)
(* docs/installation.md: "other ready providers continue verifying".  One  *)
(* round waits for every provider, and each may hang in two fetches behind *)
(* another two.  Even so, a provider that has been healthy for as long as  *)
(* this takes is ready, and its keys are not much older than the soft age, *)
(* whatever trouble the others are in.                                     *)
(***************************************************************************)
ProvidersAreIsolated ==
    \A p \in Provider : healthyFor[p] >= Recovery =>
        CacheIsUsable(p) /\ cache[p].age <= SoftRefresh + Retry + 8 * FetchTimeout

-----------------------------------------------------------------------------
(* Why the answers of key() are recent.                                     *)

\* The key is not published, or was not until this many seconds ago.
UnpublishedWithin(p, k, seconds) == k \notin published[p] \/ since[p][k] <= seconds

\* A key set that arrived says what its issuer published since it was asked.
AnswersAreFresh ==
    \A p \in Provider :
        /\ fetch[p].stage # "store" => fetch[p].keys = {}
        /\ fetch[p].stage = "store" => \A k \in Kid :
              IF k \in fetch[p].keys THEN PublishedWithin(p, k, fetch[p].age)
              ELSE UnpublishedWithin(p, k, fetch[p].age)

\* A cache is no older than its age and the fetch that filled it.
CachesAreBounded ==
    \A p \in Provider : cache[p].age <= MaxStaleness =>
        \A k \in cache[p].keys : PublishedWithin(p, k, cache[p].age + FetchTimeout)

\* A request that looks at the cache again has just had it filled.
RereadsAreInformed ==
    \A r \in Request : caller[r].pc = "reread" =>
        \A k \in Kid \ cache[caller[r].provider].keys :
            UnpublishedWithin(caller[r].provider, k, FetchTimeout)

\* The inductive invariant behind the three action properties; the last part
\* is that a forced attempt is recorded when its fetch is sent.
IndInv ==
    /\ TypeOK
    /\ AnswersAreFresh
    /\ CachesAreBounded
    /\ RereadsAreInformed
    /\ \A p \in Provider : polled[p] = refresh[p].forcedAge
=============================================================================
