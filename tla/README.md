# Verification of github-oidc-exchange

TLA+ models of the token exchange service, TLC configurations that check them on
small instances, and TLAPS proofs of the properties that matter most for every
instance. Paths of the form `replay.rs` are relative to the repository's `src/`.

## The system

The service receives a short-lived assertion (a GitHub Actions OIDC token, a token
of another OIDC issuer such as Jenkins, a projected Kubernetes service-account
token, or a browser-session attestation of Steward), verifies it, looks its subject
up in a mounted policy, records its use once in a ledger that all replicas share,
and signs a token of its own. Several replicas run behind one address and share
nothing but Kubernetes Lease objects.

| Component | State | Operations | Talks to |
| --- | --- | --- | --- |
| Replay ledger (`replay.rs`) | Lease objects (shared), one continue token per replica, readiness cache | `use_once`, `reclaim_expired`, `cleanup_one`, `check_ready` | Kubernetes API |
| GitHub key cache (`github.rs`) | keys with `fetched_at`, `RefreshState` behind a mutex | `key`, forced and soft refresh, background loop, `warm_up`, `check_ready` | issuer's JWKS endpoint |
| GitHub policy (`policy.rs`) | none after start-up | `validate`, `authorize` | mounted file |
| Exchange service (`service.rs`) | counters, duration histogram | `exchange` | verifier, policy, ledger, keys |
| Generic OIDC (`oidc.rs`) | per-provider discovery, key cache, counters | `verify`, refresh loop, `authorize`, `exchange` | issuers, ledger, keys |
| Workload exchange (`workload.rs`) | counters | `review`, `authorize`, `exchange` | TokenReview API, ledger (task-bound tokens), RS256 or ES256 keys |
| Browser hop 1 (`browser_hop1.rs`) | counters | `verify`, `exchange` | TokenReview API, ledger, keys |
| Key rings (`keys.rs`) | keys with validity windows | `load`, `sign`, `is_ready_at`, `jwks` | mounted files |
| Key ring tool (`bin/keyring-tool.rs`) | key ring files | `generate`, `add`, `activate`, `retire`, `validate`, `export-jwks` | file system |
| HTTP (`http.rs`) | none | routes, readiness, metrics | all of the above |
| Start-up and shutdown (`main.rs`, `config.rs`) | switches, listeners, shutdown channel | load, bind, serve, drain | all of the above |

Handlers are futures on a multi-threaded runtime. What is hard:

* **Shared ledger.** Two replicas race on creating, reclaiming and deleting one
  Lease; an API call whose handler gave up may be applied later; clean-up lists,
  re-reads and deletes in three calls; the lease duration is truncated to seconds
  while the renewal time is not; clocks differ. Correct when `use_once` succeeds at
  most once per assertion and no record is taken before it has expired.
* **Key cache.** Requests and a loop compete for one mutex that is held across a
  fetch; the cache changes between a request's two looks at it; a request may be
  dropped in the middle. Correct when withdrawn keys stop being trusted, published
  ones are not refused, unknown key IDs do not cause a stream of fetches, and the
  cache recovers by itself.
* **Exchange pipeline.** Signing can fail, or the client can go away, after the
  assertion is spent; four profiles with identifiers of independent issuers share
  one ledger. Correct when there is one token at most, replays are told from first
  uses, and the counters account for every request.
* **Policies.** Validation is an order-dependent loop over maps and lists. Correct
  when its verdict depends on the contents alone and an accepted file is
  unambiguous.
* **Generic providers.** Each has its own cache and mutex, but one loop refreshes all
  of them in rounds. Correct when one provider's trouble stays its own.
* **Key rotation.** The tool edits a file in several steps, an operator projects it,
  and replicas and static verifiers load it at different times; a replica signs for a
  while after it has stopped being ready. Correct when live tokens verify everywhere and
  none outlives its key by more than that while.
* **Readiness.** Probes share a verdict behind a mutex that is held across a call.
  Correct when a 204 is recent, a failure is not remembered for long, and no probe
  hangs.
* **Start-up and shutdown.** Two listeners, one signal, a long list of things to load.
  Correct when nothing is served by halves and a signal ends the process as soon as
  clients have sent what they began.

`PROJECT.json` lists every hazard at its line with the properties that cover it.

## Modules

| Module | Models | Instances | Proofs |
| --- | --- | --- | --- |
| `SingleUse` | the promise of the trait `ReplayLedger` (abstract) | | |
| `ReplayLedger` | `use_once` of `replay.rs`; the time checks of `github.rs` `verify`; implements `SingleUse` | `MCReplayLedger` | `ReplayLedgerProofs` |
| `CleanupSweep` | `cleanup_one` over an endless supply of exchanges | `MCCleanupSweep` | `UseOnceProofs` |
| `Readiness` | `check_ready` of `replay.rs`, the readiness routes of `http.rs` | `MCReadiness` | `ProcessProofs` |
| `JwksCache` | key cache of `github.rs` | `MCJwksCache` | `JwksCacheProofs` |
| `OidcProviders` | verifier set and key caches of `oidc.rs` | `MCOidcProviders` | `OidcProvidersProofs` |
| `RepositoryPolicy` | `policy.rs` | `MCPolicies` | `PoliciesProofs` |
| `OidcPolicy` | policy of `oidc.rs` | `MCPolicies` | `PoliciesProofs` |
| `WorkloadPolicy` | policy of `workload.rs` | `MCPolicies` | `PoliciesProofs` |
| `Policies` | the three policies composed as `main.rs` loads them | `MCPolicies` | `PoliciesProofs` |
| `TokenExchange` | the four `exchange()` and their routes; implements `SingleUse` | `MCTokenExchange` | `TokenExchangeProofs` |
| `TaskToken` | the calls and times of one `exchange()` of `workload.rs` | `MCTaskToken` | `UseOnceProofs` |
| `KeyRotation` | `keys.rs`, `bin/keyring-tool.rs` | `MCKeyRotation` | `KeyRotationProofs` |
| `Lifecycle` | `main.rs`, the switches of `config.rs` | `MCLifecycle` | `ProcessProofs` |

In all of them an action is one synchronous segment of a future, from one await to
the next, and includes everything the code does in it. A response and the reaction
to it are one action, because the handler is the only one who sees the response.

**ReplayLedger.** `task[h]` is the future of handler `h`: its await (`pc`), the
assertion, `now`, the attempt of `reclaim_expired`, the `resourceVersion` it has
seen and where clean-up is. `leases` is what the API server stores and `revision`
its counter. `Verify` is the last moment of verification, `UseOnce` reads the clock;
`CreateServed`, `GetServed`, `RecreateServed`, `UpdateServed`, `UpdateConflict`,
`ListServed`, `RecheckServed` and `DeleteServed` are the API server applying a call
and the code going on; `...Failed` its error paths. `UpdateUpserted` is there
because the source does not show what the API server does with a PUT for a Lease
that has just disappeared. A call that nobody waits for any more stays in `orphans`
and is applied at any later time or never. `Cancel` drops a future, `Restart` a
replica. Each call lasts at most `CallTimeout`, the client's timeout.

**JwksCache.** `cache`, `refresh` and `lock` are the fields of the verifier,
`caller[r]` a `key()` future, `loop` the sleep of the background task, `fetch` the
request in flight, which the issuer answers (`Answer`) some time before it is
stored. Timestamps are ages, because the code compares differences only, so time is
unbounded. `published`, `outage`, `Rotate` and `OutageChange` are the issuer.

**RepositoryPolicy.** `validate` as a loop: `ValidateHeader`, one `ValidateActor`
per entry in any order, one `ValidateRuleV5`/`V6` per rule in file order, with the
hash sets the code collects. `authorize` is the operators `MatchingRules`,
`Authorized` and `UserOf`.

**TokenExchange.** `handler[h]` is one exchange of any profile. The segments of the
four functions coincide except where the action says so, and the correspondence is

| Action | `service.rs` | `oidc.rs` | `workload.rs` | `browser_hop1.rs` |
| --- | --- | --- | --- | --- |
| `Receive` | 190-197 | 905-906 | 406-410 | `http.rs` 206-213 |
| `ReviewFailed` | | | | `http.rs` 214-219 |
| `BrowserExchange` | | | | 227-245 |
| `VerifyInvalid` | 199-202 | 908-911 | 412-415 | |
| `VerifyUnavailable` | 203-214 | 912-915 | 416-420 | |
| `Verified` | 216-220 | 917-925 | 421-439, 475-500 | |
| `Claim` | 221 | 926 | 440 | 246 |
| `Replayed` | 222-228 | 927-931 | 441-444 | 247-256 |
| `LedgerUnavailable` | 229-235 | 932-935 | 445-448 | 257-266 |
| `Signed` | 237-280 | 937-973 | 450-474, 492-500 | 268-292 |

The ledger appears as a set of records that only grows: `SingleUse` as the handlers
see it, for as long as an assertion can still be verified. `Sign` may fail whenever it
is tried, on any replica: when a current key is in its window is the subject of
`KeyRotation`, and here only what `exchange()` does with either answer matters.

**SingleUse.** A caller is granted an assertion, uses the grant (`use_once` returns
Ok) or forfeits it (it goes away). `ReplayLedger` implements it: `Promise` is
`INSTANCE SingleUse` with `holding` mapped to what a handler has claimed and not yet
returned, and `used` to the acceptances counted. So does `TokenExchange`, one level up:
there `holding` is what the exchanges past their claim hold, and `used` the tokens issued.
What the ledger promises the service, the service keeps towards its clients.

**CleanupSweep.** `handler[h]` is `cleanup_one` after a claim, `continueToken` the
replica's field, `record` the ledger without times: `Begin` is the claim (a name
becomes live), `Expire` the passing of time, and `judged` the records that had expired
at the `now` of the handler. `PageServed` and `PageFails` are the list call, `VictimExpired`
and `VictimSkipped` the re-check, `VictimDeleted` and `VictimKept` the deletion. `calm` is the
weather of the environment: while it is true no call fails, nobody leaves and nothing restarts.
The names differ from those of `TaskToken`, so that one module can prove both.

**Readiness.** `Begin` is `readiness` or `workload_readiness` up to the ledger check,
`Lock` its cached answer or the start of the GET, `Call` the response, error or timeout
and the store of the verdict, `Leave` a client that goes away, which frees the mutex
without storing anything. `api` says what becomes of a call: it is answered before its
timeout (`up`), fails at once (`down`) or waits (`silent`), and while the server is silent a
call may be lost for good (`CallLost`), which nobody notices before `GetTimesOut`, whether
the server is back by then or not. Ages stand for instants. Names that `Lifecycle` has too carry
the prefix `Readiness`, so that one module can prove both.

**OidcProviders.** As JwksCache, per provider. `StartRound`, `RefreshSoftIfDue(p)` and
the end of the last pending refresh are the loop with its `JoinSet`; `Key`,
`RefreshForUnknownKid` and `Reread` a request; `Refreshing(p)` the two fetches, first
the discovery document and then the keys, with the errors that each leads to.

**OidcPolicy**, **WorkloadPolicy.** `validate` as loops with the sets the code collects,
one action per iteration and outcome; `AuthorizeClaims` and `AuthorizeUsername` are the
sets of what `authorize` may return. Names that all three policies have carry the prefix
`Oidc` or `Workload` here, so that one module can extend them all. Claim maps are functions, so that "some claims match both" can be said of all
claims and not only of those in a file.

**Policies.** The loops of the three policies one after the other: the GitHub policy and
the comparison of its version with `EXPECTED_POLICY_VERSION` (`CheckVersion`), then the
policies of the exchanges that are enabled. A file that is rejected stops everything.

**TaskToken.** One exchange, with a deadline per call: `now` is read after the
TokenReview, then come create, up to two rounds of get, update or create again, and up
to two pages of list, re-read and delete. Each `...Served`, `Created`, `Updated` action
takes every answer the API server may give.

**KeyRotation.** `tool[t]` takes one step per file access: `Generate` or `Validate`
(the checks of add, activate and retire), `ReadRing`, `WriteTemp`, `RecheckTarget`,
`Rename`, and `Killed` between any two. `Project` copies the file into the Secret,
`ExportJwks` hands public keys to static verifiers, `Start`, `Stop` and `Sign` are
replicas. The operator keeps to section 6 of `docs/installation.md` (`Procedure`,
`Project`) and does not use a file before the commands on it have ended (`Finished`), but
two operators may run `generate` at once. `Sign` is the end of an exchange: the
request reached the replica up to `Work` seconds ago (`Awaited`), when the replica had been ready up to
`ProbeLag` seconds before (`Routed`), and has since waited for the verifier and the ledger.
`ThresholdAssumption` is what `config.rs` enforces: a threshold no shorter than a token lives.

**Lifecycle.** `Load` and `LoadFails` go through the stages of `main` in order, with
those of each exchange only where its switch is on; `Subscribe`, `Spawn`, `Serve` and
`BindWorkload` start the servers; `InstallHandlers`, `Signal` and `Send` are the signal
task; `Drain`, `Drained` and `Exit` the shutdown, with the deadline of the workload
listener. Of the `requests` in flight on a listener, `reading` are those whose client has
not sent everything yet, which the extractor `body: Bytes` waits for: `BodyArrives`
and `ClientLeaves` end that, and `Answer` is for the others.

## Runs

| Run | Shows | Bounds |
| --- | --- | --- |
| `ledger` | one acceptance per assertion, records kept until they expire, the inductive invariant, and the refinement of `SingleUse` | two replicas; three assertions: one whose record expires to the tick when the next, which shares its lease, is valid, and one that cleans up meanwhile; two ticks to a second; one abandoned call at a time; time to 13 |
| `exchange` | one token per assertion; the refinement of `SingleUse`; replays are repeats; counters and histogram account for every request | two replicas with one handler each, eight sources of which four have the same identifier and every path of the four profiles is taken, three presentations |
| `jwks_requests` | withdrawn keys expire; a refusal means the key was unpublished a moment ago; the cache mirrors the issuer | two requests that share a refresh, two keys, history of 7 s; nobody disconnects |
| `jwks_recovers` | ready while the issuer is healthy; forced fetches are spaced; the cache converges (liveness) | one request, dropped at any await |
| `oidc_requests` | the same for the two-step refresh of a provider, with forced fetches spaced, and the inductive invariant | two requests and the loop at one mutex, every trouble, disconnections |
| `oidc_isolated` | a healthy provider is and stays ready | two providers; the other publishes nothing usable and takes every fetch to its timeout |
| `policies` | exact verdicts, whatever the order; accepted policies are unambiguous; loading decides (liveness) | per policy, every list of up to three entries over a family with each defect, every header; every combination of one file in order and one not, of the switches and of the expected version |
| `rotation` | tokens verify everywhere while their key lives, and outlive it by less than probes and an exchange take | two key IDs, two replicas, two tools, three keys ever made, time to 8; a threshold as long as a token lives, the least that is accepted |
| `readiness` | a 204 is recent; recovery within TTL and timeout; every probe ends (liveness) | one probe per listener, TTL 4, timeout 2 |
| `lifecycle` | nothing is served by halves; no answer is lost; a signal ends the process unless a client of the public listener stalls for ever (liveness) | every value of every switch, any stage failing, two requests per listener |
| `sweep` | the token passes no expired record that nobody goes to delete; clean-up reaches every page (liveness); the inductive invariant | two handlers, three records one to a page, two pages per exchange |
| `task_token` | a returned token has 70 s left at least | the source's own numbers: 5 s timeouts, 120 s tokens, 300 s and 960 s retention bounds |

The bounds are small because the conflicts are pairwise: two futures, one lease
(or one key), and a third party that cleans up, rotates or restarts. The timing
constants are scaled so that every order of soft refresh, retry, fetch and staleness
bound happens that the real values (300, 30, 5 and 600 s or more) allow, and the
assumptions on them are those the real values meet. The named bounds are `MaxTime`
and `MaxOrphans` (ledger), `KeyMemory` and `HealthMemory` (how far back the history
variables of the cache remember: beyond every age a property compares with),
`MaxRules` (policies: three entries are enough for one that is compared with
a neighbour and with one further back), `MaxAttempts`, `MaxSeeds` and `MaxTime` (key
rotation: two rotations and a roll-back fit in), and `MaxRequests`.

The runs `ledger`, `oidc_requests` and `sweep` check inductive invariants that the proofs
use, which contain the types. Those of the other modules are theorems for all constants
and not checked again: they are defined where they are proved, in the modules of proofs.

Deadlock is not checked in `ledger` and `rotation`, where `MaxTime` ends every behaviour,
in `policies`, where loading ends, and in `task_token`, where `exchange` returns. It is checked everywhere else.

**Fairness.** Safety runs assume none. In the others:

* Futures that can go on and background loops are weakly fair: the runtime polls them.
  So are the answers to calls, since every HTTP client has a timeout of 5 s.
* Waiting for a mutex is strongly fair: tokio's mutex is
  a queue, and a waiter gets its turn although the mutex is taken again and again.
* `Tick` is strongly fair where arriving requests, or an API server that comes and goes,
  can disable it again and again: they do not stop the clock.
* `Lifecycle`: a handler of the public listener that has its whole request ends, because
  each call it makes has a timeout. Clients need not send what they began, for neither the
  extractor nor the server limits the time they take. Requests of the workload
  listener need not end at all, and the deadline has to do.
* `CleanupSweep`: exchanges keep coming. Clean-up does nothing by itself, so without
  exchanges nothing is deleted. The property is about behaviours that are calm from
  some time on.
* `Policies`: start-up is one sequential function.
* Clients, rotation, outages, signals and operators are not fair.

## Observations

Where the code and a document differ. The model has what the code does; none of the
properties depends on what the document says instead.

* `docs/browser-hop1-contract-v1.md` says records "remain through source-token expiry
  plus five minutes". `Lease::new` truncates the duration and a record may go up to a
  second earlier. One-time use is not affected: `RetentionAssumption` accounts for the
  lost second.
* `docs/installation.md` says "Only an empty or hard-stale cache records `exchange_failed`
  and returns 503". An unknown key ID whose forced refresh fails does too
  (`github.rs:297`), which a unit test expects.
* `docs/operator-observability-contract-v1.md` describes `denied` and `replayed` of the
  generic OIDC profile as different outcomes. The code counts a replay as both, which
  is why `EveryRequestIsCounted` counts refusals per profile.
* `docs/installation.md` promises 503 for a provider without a usable key set. A
  discovery document of another issuer or origin makes the first request fail with
  `Invalid`, a 401 (`oidc.rs:629`); the next within the retry window get the 503.
* "The tool rejects overwrite", says `docs/installation.md`. The look at the target and
  the rename are two steps (`keyring-tool.rs:248`), and `rename` replaces: of two runs of
  `generate` both may succeed and one ring is lost. `OutstandingTokensVerify` holds all
  the same if nobody uses the file before both have ended.

Others:

* The smallest readiness threshold the configuration accepts, 120 s, is the life of a token
  and leaves nothing for probes to notice and for exchanges under way. At this boundary,
  where the run `rotation` is, a token may outlive its key by less than
  `ProbeLag + Work`, and a replica that restarts then no longer publishes the key: hence
  `time < token.keyEnds` in `OutstandingTokensVerify`, which does not hold without it. With
  a threshold that covers the two as well, as the default of seven days does, it is not
  needed (`AmpleThreshold`). `Work` includes the time a client takes to send its request,
  which the code does not bound; whatever it is, `sign` refuses once the key has ended.
* After a signal the public server waits for every request it has begun to read
  (`http.rs:291`, `main.rs:213`, `main.rs:253`), so one client that stalls its body keeps the
  process until the kubelet kills it. `SignalEndsProcess` says that nothing else does.
* A readiness call that was lost before the API server recovered fails by its timeout after
  the recovery, and that failure is remembered for a full TTL: a replica may answer 503
  for the sum of both, 31 s, after everything is in order again (`RecoversInTime`).
* An exchange creates one record and deletes one at most, and passes over all but the
  first expired record of a page. `SweepReachesEveryPage` is therefore about the first
  expired record of a page: a particular record can be passed over for as long as
  earlier ones of its page keep expiring.
* A projected token with more than 660 s to live cannot be recorded (`retained_until`),
  and its task exchange is answered with Unavailable until it is younger than that.

In the GitHub cache `RefusalsAreInformed` holds only while clients stay connected: a request dropped in
its forced refresh leaves the attempt's time without its result, and until the retry
window ends a published key may be refused. No document promises otherwise; the
hazard list has it.

## Proofs

All theorems hold for every value of the constants that meets the named assumptions, and
for sets of replicas, handlers, requests, providers, keys and files of any size.

| Theorem | Property | Argument |
| --- | --- | --- |
| `LedgerInvariant`, `LedgerTypes` | `IndInv`, `TypeOK` | see below |
| `UseOnceIsOnce` | `AcceptedAtMostOnce` | a claim is backed by a lease until nobody can still be about to claim |
| `LedgerKeepsRecords` | `RecordsKeptUntilExpiry` | every conditional write carries the version of an expired lease |
| `LedgerKeepsPromise` | `KeepsPromise` | every step of the ledger is a step of `SingleUse` or invisible |
| `ExchangeInvariant`, `SingleToken` | `IndInv`, `OneTokenPerAssertion` | only the maker of the record goes on to sign, and the record stays |
| `ServiceKeepsPromise` | `TokensKeepPromise` | every step of the service is a step of `SingleUse` or invisible |
| `ReplaysRepeat` | `ReplaysAreRepeats` | a record was made by a claim of its own key; two claims of one key are of one assertion |
| `RequestsAreCounted` | `EveryRequestIsCounted` | each action moves one handler into or out of the running ones and one counter with it |
| `CacheInvariant`, `CacheTypes` | `IndInv`, `TypeOK` of `JwksCache` | the mutex belongs to the one future inside a fetch |
| `WithdrawnKeys` | `WithdrawnKeysExpire` | an answer is no older than its fetch, the cache no older than its age and a fetch |
| `SpacedFetches` | `ForcedFetchesAreSpaced` | the attempt is stamped before the fetch is sent |
| `InformedDenials` | `RefusalsAreInformed`, while nobody disconnects | a forced attempt that is remembered as a success filled the cache since |
| `ReadyReplica` | `ReadyWhileHealthy` | the loop comes back within the retry window and two fetches |
| `MirroredIssuer` | `CacheMirrorsIssuer` | an answer has all that was published since it was asked for, and nothing else; it is stored within a fetch |
| `CurrentKeys` | `KeysAreCurrent` | from `MirroredIssuer` and `ReadyReplica` |
| `ProvidersInvariant`, `ProvidersTypes` | `IndInv`, `TypeOK` of `OidcProviders` | as in the GitHub cache, provider by provider |
| `ProviderKeysExpire`, `SpacedProviderFetches` | `WithdrawnKeysExpire`, `ForcedFetchesAreSpaced` | as in the GitHub cache |
| `InformedRefusals` | `RefusalsAreInformed` | a request looks again only after it has filled the cache itself |
| `IsolatedProviders` | `ProvidersAreIsolated` | see below |
| `MirroredIssuers`, `CurrentProviderKeys` | `CachesMirrorIssuers`, `ProviderKeysAreCurrent` | as in the GitHub cache, from `IsolatedProviders` |
| `PolicyInvariant`, `PolicyTypes` | `IndInv`, `TypeOK` of `RepositoryPolicy` | loop by loop |
| `OrderFreeVerdict` | `VerdictIsOrderFree` | the collected sets say of the visited entries what `Sound` says of all |
| `SingleRule`, `OwnUser` | `OneRulePerClaims`, `UsersAreNotShared` | from the verdict |
| `OidcPolicyInvariant`, `OidcPolicyTypes` | `OidcIndInv`, `OidcTypeOK` | loop by loop |
| `ExactVerdict` | `OidcVerdictIsExact` | bindings overlap exactly when the union of their maps matches both |
| `StableBinding` | `ExtraClaimsChangeNothing` | a wider map matches what the narrower did, and nothing else can |
| `WorkloadInvariant`, `WorkloadTypes` | `WorkloadIndInv`, `WorkloadTypeOK` | loop by loop |
| `WorkloadVerdict`, `OwnSubject` | `WorkloadVerdictIsExact`, `SubjectsAreNotShared` | the subject of a valid identity determines its username |
| `LoadingRunsEach` | the composition implements the three specifications | a step of start-up is a step of one policy and leaves the others alone |
| `ExactLoading` | `LoadingIsExact`, the safety half of `LoadingDecides` | from the three verdicts and the version contract |
| `CallBudget`, `YoungTokens` | `IndInv`, `TokensAreYoung` | see below |
| `SweepInvariant`, `SweepTypes` | `SweepIndInv`, `SweepTypeOK` | see below |
| `PassedRecords` | `TokenPassesVictims` | pages have no gaps, and the victim is the first expired record of its page |
| `LiveRecordsStay` | `SparesLive` | what was judged expired has expired, whoever wrote to the ledger meanwhile |
| `RotationInvariant`, `RotationTypes` | `IndInv`, `TypeOK` of `KeyRotation` | see below |
| `TokensVerify`, `ShortOverhang` | `OutstandingTokensVerify`, `TokensBarelyOutliveTheirKey` | from the invariant |
| `AmpleThreshold` | every token verifies until it expires, if the threshold covers token, probes and exchange | a token signed in time ends before its key then |
| `ProcessInvariant`, `ProcessTypes` | `IndInv`, `TypeOK` of `Lifecycle` | what is needed is loaded or still a stage to come, and serving is the last stage |
| `CompleteServing`, `NoLostAnswers` | `ServesComplete`, `NoAnswerIsLost` | from the invariant |
| `ReadinessInvariant`, `ReadinessTypes` | `ReadinessIndInv`, `ReadinessTypeOK` | the verdict is of the age it claims, and a call in flight, lost or not, no older than its timeout |
| `RecentReadiness`, `TimelyRecovery` | `ReadyIsRecent`, `RecoversInTime` | from the invariant, at the moment of the answer |

*Ledger.* `AcceptedAtMostOnce` is not inductive: nothing in it prevents a record from
vanishing between two presentations. `IndInv` adds that a claim's lease is stored and
expires late enough (`ClaimsAreRecorded`), that a handler still claiming is on time
(`StepsAreTimely`: verification ends at `LatestVerification`, and each of at most five
calls has a timeout), and that every update or delete in flight, abandoned ones
included, holds the version of a lease that had expired (`...HoldWitnesses`).
`RetentionAssumption` makes the two times meet: leeway, a second of truncation on
either side, twice the skew, the stall before `use_once` and five calls are less than
the retention. The source's values leave more than 200 s.

*Refinement.* A grant is the moment a create or update of the handler is applied. It
maps to `Grant` because `ClaimsAreRecorded` leaves no room for a second one, `Ok` to
`Use`, a cancellation or restart to `Forfeit`, and everything else to a stutter. In
`TokenExchange` a grant is the claim that succeeds, a token signed is a `Use`, and a
failure to sign or a client that leaves a `Forfeit`; its `IndInv` is what makes the grant
exclusive.

*Cache.* `StalenessAssumption` is what `config.rs` enforces on the staleness bound, and that
a fetch (5 s) takes less than the retry window (30 s). `InformedInv` (behind `InformedDenials`)
follows a rate limit back to the fetch it repeats, and needs that this fetch was not dropped:
hence the hypothesis `~Disconnects`. `ReadyInv` (behind `ReadyReplica`) says how long ago the
loop last had its turn at most (`SinceCheck`), counted from where the loop and the mutex are.
`MirrorInv` (behind `MirroredIssuer`) adds to `IndInv`, which says that nothing is cached that
was not published, that everything is that was: of the answer in flight since it was asked
for, and of the cache since a fetch before `fetched_at`. No fetch can be overtaken by a later
one, because the mutex is held from the question to the store; a dropped request leaves
neither. `KeysAreCurrent` is the safety side of `SettlesOnPublishedKeys`: where that says
that the cache settles some day, this says by when.

*Providers.* `IsolatedInv` bounds how long the round can have lasted by looking at any one
provider it still waits for (`RoundAge`): a refresh of a request, which the retry window
keeps from being followed by another, and then the loop's own, two fetches each. A provider
already joined was found young or in trouble within that time; one still waited for, within
that time, the loop's sleep and the round before. `ProvidersAreIsolated` follows if two such
rounds and the sleep fit between soft age and hard bound, the hypothesis of the theorem:
370 s of the 600 s that `config.rs` demands. `RetryAssumption` is that two fetches are shorter
than the retry window.

*Policies.* `PolicyAssumption`, `OidcAssumption` and `WorkloadAssumption` say that the constants
are what their comments say: the wildcard is no number, and an absent field is no value.

*Exchange.* `ExchangeAssumption` types the constants and says that there are finitely many
handlers. `IndInv` is needed because two handlers past their claim would both sign:
`CleaningUpIsExclusive` and `CleaningUpIsRecorded` rule them out, `TokensAreRecorded` rules
out a claim after a token. `ReplaysAreRepeats` rests on `IdentifierAssumption`.

*Task token.* `CallsLeft` is how many calls can follow the one in flight, by where it
is, the attempt of `reclaim_expired` and the pages left. `IndInv` says that the deadline
of the call in flight and a timeout for each of these stay within ten timeouts of
`now`: five that claim and five that clean up. `TokensAreYoung` alone is not inductive,
because it says nothing before the end.

*Clean-up.* `SweepIndInv` says that nothing a handler carries across an await is out of date:
what it judged expired has expired, its victim lies behind the token it listed with and not
behind the one it got, and it has pages left. `TokenPassesVictims` then rests on how lists are
cut into pages: `PagesHaveNoGaps` (up to the returned token a page has every record there is)
and `PageHasFirst` (a page is empty only at the end). Both need that a finite set of positions
has a first and a last one, which is proved from the well-foundedness of strict inclusion
because induction over sets is not available. `SweepAssumption` says that there are finitely
many names, which are hashes of fixed length, and that page size and page bound are not zero.

*Key rotation.* That a token verifies now says nothing of the ring a replica loads next.
`IndInv` says of all rings in play, those in the file, the Secret and the replicas, that
each has the others' current key and the keys of all live tokens, that what a tool is about
to write has them too, that edits are made one at a time on a file deployed everywhere
(`EditsAreAlone`), that rings are generated before any is deployed, and that a key is exported
before it signs. `TokensAreSignedInTime` adds, for `ShortOverhang`, when at the latest a key
signs, counted back from its end. `NoneAssumption` says that `None` is no ring.

*Process.* `ServesComplete` needs to know while main is still loading that nothing will be
missing at the end: `StagesCoverNeeds`. `NoAnswerIsLost` needs that a listener which was
never enabled has no requests. `RecoversInTime` is not inductive: `ReadinessIndInv` says that a
failure was stored a timeout after the last trouble at the latest (`FailuresAreRecent`), that a
lost call is older than the recovery, and that another one reaches its timeout only on a
server that is not up or has just come back (`CallsAreDue`).

Model-checked only: liveness (`SettlesOnPublishedKeys`, `EveryProbeEnds`, `SignalEndsProcess`,
`SweepReachesEveryPage`, and of `LoadingDecides` that it ends), which the prover does not
reach. Every safety property that a run checks is also a theorem.

## Abstractions

* A replica's clock is off by up to `Skew` but does not step; in the cache it only
  runs forward.
* A runnable future runs within the second (cache), or within its call's timeout and
  `Stall` (ledger).
* The microseconds that `renew_time` keeps are ticks; what RFC 3339 formatting cuts
  off below them is ignored.
* Strings are opaque. Shape checks (digits, e-mail, SHA, hashes) are sets of accepted
  values. Hashes do not collide.
* Signatures: an assertion is genuine or not; a genuine one may be refused at any
  time, because it expires.
* Identifiers: an issuer does not repeat a `jti`; GitHub's and Kubernetes' are UUIDs
  and differ (`IdentifierAssumption`). Those of other issuers may coincide.
* A list continues in the ledger as it is when the page is served. The API server may
  serve later pages from the snapshot of the first, in which a record deleted or
  renewed meanwhile is as it was; the re-read before each deletion meets both.
* Log lines, audit records, output claims and the refresh failure counter are left out.

## Not modelled, and the plan

What is left, in this order:

1. Liveness of the generic providers, as `SettlesOnPublishedKeys` of the GitHub cache.
   `ProviderKeysAreCurrent` has its safety side.
2. The attestation verifier of `browser_hop1.rs` beside the time checks of the others.

Left out for good: metric rendering, status codes and discovery documents (formatting);
the parsing and syntax checks of single settings and claims (string predicates, which
appear as sets of accepted values or as a stage of start-up that may fail); TLS and HTTP
clients (libraries); Helm chart and scripts (no program state).
