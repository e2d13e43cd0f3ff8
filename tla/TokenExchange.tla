--------------------------- MODULE TokenExchange ---------------------------
(***************************************************************************)
(* The exchange() of the four profiles: service.rs (GitHub), oidc.rs,      *)
(* workload.rs and browser_hop1.rs, with the routes of http.rs that call   *)
(* them.  All profiles of all replicas share one replay ledger; each       *)
(* replica has its own counters.                                           *)
(*                                                                         *)
(* One action is one synchronous segment of a handler, from one await to   *)
(* the next.  The handler awaits its verifier (or the TokenReview), then   *)
(* the claim in the ledger, then the ledger's clean-up; the client may go  *)
(* away at each of these.                                                  *)
(*                                                                         *)
(* The ledger appears as its set of records: a claim succeeds when there   *)
(* is none and makes one.  ReplayLedger models how it does that, and that  *)
(* a record outlives the assertion it is for.  Signing may fail whenever   *)
(* it is tried: KeyRotation models when a replica's current key is in its  *)
(* window.                                                                 *)
(***************************************************************************)
EXTENDS Naturals, FiniteSets

CONSTANTS
    Replica,      \* processes
    Handler,      \* exchange futures that can run at the same time
    ReplicaOf,    \* the replica a handler runs on
    Assertion,    \* source assertions that clients present
    ProfileOf,    \* the route an assertion is presented at
    IssuerOf,     \* the issuer of an assertion, iss
    SourceId,     \* its jti, or what identifies a Jenkins build
    Genuine,      \* assertions that pass verification while they are fresh
    Admitted,     \* assertions whose identity the profile's policy admits
    Bound,        \* those bound to a task owner (workload policy)
    Identified,   \* those with a usable source identity (jti or build)
    MaxAttempts   \* bound: presentations explored

Profile == {"github", "oidc", "workload", "browser"}

Counter == {"requests", "issued", "denied", "replayed", "errors"}

\* A token is claimed in the ledger first, unless it is a plain workload token.
SingleUse(a) == ProfileOf[a] # "workload" \/ a \in Bound

\* Faulty: the issuer is left out of the hash.
ReplayKeyOfJti(a) ==
    IF ProfileOf[a] \in {"oidc", "browser"} THEN <<ProfileOf[a], "", SourceId[a]>>
    ELSE <<"", "", SourceId[a]>>

\* What use_once is called with.  GitHub and Kubernetes identifiers are used
\* as they are; the others carry their profile, and the issuer if there are many.
ReplayKey(a) ==
    IF ProfileOf[a] = "oidc" THEN <<"oidc", IssuerOf[a], SourceId[a]>>
    ELSE IF ProfileOf[a] = "browser" THEN <<"browser", "", SourceId[a]>>
    ELSE <<"", "", SourceId[a]>>

ASSUME ExchangeAssumption ==
    /\ Assertion # {} /\ IsFiniteSet(Handler)
    /\ ReplicaOf \in [Handler -> Replica]
    /\ ProfileOf \in [Assertion -> Profile]
    /\ {Genuine, Admitted, Bound, Identified} \subseteq SUBSET Assertion
    /\ MaxAttempts \in Nat

(***************************************************************************)
(* An issuer does not repeat an identifier, and the UUIDs of GitHub and of *)
(* Kubernetes do not coincide; other issuers may use the same identifiers. *)
(***************************************************************************)
ASSUME IdentifierAssumption ==
    \A a, b \in Assertion :
        /\ SourceId[a] = SourceId[b]
        /\ \/ ProfileOf[a] = ProfileOf[b] /\ IssuerOf[a] = IssuerOf[b]
           \/ {ProfileOf[a], ProfileOf[b]} \subseteq {"github", "workload"}
           \/ ProfileOf[a] = "browser" /\ ProfileOf[b] = "browser"
        => a = b

VARIABLES
    handler,   \* per handler: where it is suspended, and with what
    records,   \* keys that the ledger holds a record for
    late,      \* claims sent to the API server that nobody waits for any more
    metrics,   \* per replica and profile: the counters
    observed,  \* per replica: duration_count of the GitHub profile
    attempts,  \* bound: presentations so far
    tokens,    \* history: tokens issued for an assertion
    claims,    \* history: exchanges of an assertion that went to claim it
    dropped    \* history, per replica and profile: exchanges cut off

vars == <<handler, records, late, metrics, observed, attempts, tokens, claims, dropped>>

Idle == [pc |-> "idle", assertion |-> CHOOSE a \in Assertion : TRUE]

My(h) == handler[h].assertion
MyProfile(h) == ProfileOf[My(h)]

-----------------------------------------------------------------------------
\* Counters.

\* fetch_add(1) on each of the named counters of the handler's profile.
Count(h, names) ==
    metrics' = [metrics EXCEPT ![ReplicaOf[h]][MyProfile(h)] =
                    [c \in Counter |-> IF c \in names THEN @[c] + 1 ELSE @[c]]]

\* The handler's future ends; ExchangeTimer is dropped with it.
End(h) ==
    /\ handler' = [handler EXCEPT ![h] = Idle]
    /\ observed' = [observed EXCEPT ![ReplicaOf[h]] =
                        IF MyProfile(h) = "github" THEN @ + 1 ELSE @]

\* exchange() returns Unauthorized or Unavailable.
Deny(h) == End(h) /\ Count(h, {"denied"})
Fail(h) == End(h) /\ Count(h, {"errors"})

\* Suspend at the await of use_once, whose first call claims the record.
AwaitLedger(h) ==
    /\ handler' = [handler EXCEPT ![h].pc = "claim"]
    /\ claims' = [claims EXCEPT ![My(h)] = @ + 1]
    /\ UNCHANGED observed

\* keys.sign or task_keys.sign, which fails outside the current key's window,
\* and what follows it.
Sign(h) ==
    /\ End(h)
    /\ \/ /\ Count(h, {"issued"})
          /\ tokens' = [tokens EXCEPT ![My(h)] = @ + 1]
       \/ /\ Count(h, {"errors"})
          /\ UNCHANGED tokens

-----------------------------------------------------------------------------
\* The handlers.

\* A request arrives.  The browser route reviews its caller before exchange()
\* counts the request.
Receive(h, a) ==
    /\ handler[h].pc = "idle"
    /\ attempts < MaxAttempts
    /\ attempts' = attempts + 1
    /\ \/ /\ ProfileOf[a] = "browser"
          /\ handler' = [handler EXCEPT ![h] = [pc |-> "review", assertion |-> a]]
          /\ UNCHANGED metrics
       \/ /\ ProfileOf[a] # "browser"
          /\ handler' = [handler EXCEPT ![h] = [pc |-> "verify", assertion |-> a]]
          /\ metrics' = [metrics EXCEPT ![ReplicaOf[h]][ProfileOf[a]]["requests"] = @ + 1]
    /\ UNCHANGED <<records, late, observed, tokens, claims, dropped>>

\* The TokenReview of the browser route refuses or is unavailable.
ReviewFailed(h) ==
    /\ handler[h].pc = "review"
    /\ End(h)
    /\ UNCHANGED <<records, late, metrics, attempts, tokens, claims, dropped>>

\* browser_hop1 exchange() up to use_once: caller, role and attestation are
\* judged without an await.
BrowserExchange(h) ==
    /\ handler[h].pc = "review"
    /\ \/ /\ End(h)
          /\ Count(h, {"requests", "denied"})
          /\ UNCHANGED claims
       \/ /\ My(h) \in Genuine \intersect Admitted
          /\ AwaitLedger(h)
          /\ Count(h, {"requests"})
    /\ UNCHANGED <<records, late, attempts, tokens, dropped>>

\* The verifier, or the TokenReview of the workload profile, refuses: at any
\* time, since a genuine assertion expires.
VerifyInvalid(h) ==
    /\ handler[h].pc = "verify"
    /\ Deny(h)
    /\ UNCHANGED <<records, late, attempts, tokens, claims, dropped>>

\* Its keys, or the API server, cannot be reached.
VerifyUnavailable(h) ==
    /\ handler[h].pc = "verify"
    /\ Fail(h)
    /\ UNCHANGED <<records, late, attempts, tokens, claims, dropped>>

\* Faulty: an admitted assertion is signed for before it is claimed.
VerifiedSigningFirst(h) ==
    /\ handler[h].pc = "verify"
    /\ My(h) \in Genuine \intersect Admitted
    /\ Sign(h)
    /\ UNCHANGED <<records, late, attempts, claims, dropped>>

\* It accepts, and the handler goes on to the policy and the source identity.
Verified(h) ==
    /\ handler[h].pc = "verify"
    /\ My(h) \in Genuine
    /\ \/ /\ My(h) \notin Admitted
          /\ Deny(h)
          /\ UNCHANGED <<tokens, claims>>
       \/ /\ My(h) \in Admitted /\ SingleUse(My(h)) /\ My(h) \notin Identified
          /\ Deny(h)
          /\ UNCHANGED <<tokens, claims>>
       \/ /\ My(h) \in Admitted /\ SingleUse(My(h)) /\ My(h) \in Identified
          /\ AwaitLedger(h)
          /\ UNCHANGED <<metrics, tokens>>
       \/ /\ My(h) \in Admitted /\ ~SingleUse(My(h))
          /\ Sign(h)
          /\ UNCHANGED claims
    /\ UNCHANGED <<records, late, attempts, dropped>>

\* use_once makes the record; its clean-up calls follow.
Claim(h) ==
    /\ handler[h].pc = "claim"
    /\ ReplayKey(My(h)) \notin records
    /\ records' = records \union {ReplayKey(My(h))}
    /\ handler' = [handler EXCEPT ![h].pc = "cleanup"]
    /\ UNCHANGED <<late, metrics, observed, attempts, tokens, claims, dropped>>

\* use_once returns Replayed.  What is counted differs between the profiles.
Replayed(h) ==
    /\ handler[h].pc = "claim"
    /\ ReplayKey(My(h)) \in records
    /\ End(h)
    /\ Count(h, IF MyProfile(h) = "oidc" THEN {"replayed", "denied"}
                ELSE IF MyProfile(h) = "workload" THEN {"denied"}
                ELSE {"replayed"})
    /\ UNCHANGED <<records, late, attempts, tokens, claims, dropped>>

\* The claim that a handler no longer waits for is lost, or still on its way.
Abandon(h) ==
    \/ late' = late
    \/ handler[h].pc = "claim" /\ late' = late \union {ReplayKey(My(h))}

\* Faulty: the exchange goes on without the ledger.
LedgerFailsOpen(h) ==
    /\ handler[h].pc = "claim"
    /\ Abandon(h)
    /\ handler' = [handler EXCEPT ![h].pc = "cleanup"]
    /\ UNCHANGED <<records, metrics, observed, attempts, tokens, claims, dropped>>

\* use_once returns Unavailable.
LedgerUnavailable(h) ==
    /\ handler[h].pc = "claim"
    /\ Abandon(h)
    /\ Fail(h)
    /\ UNCHANGED <<records, attempts, tokens, claims, dropped>>

\* use_once returns Ok.
Signed(h) ==
    /\ handler[h].pc = "cleanup"
    /\ Sign(h)
    /\ UNCHANGED <<records, late, attempts, claims, dropped>>

-----------------------------------------------------------------------------
\* The environment.

\* Faulty: the timer is stopped at the end of exchange() and not by Drop.
DisconnectUntimed(h) ==
    /\ handler[h].pc # "idle"
    /\ Abandon(h)
    /\ handler' = [handler EXCEPT ![h] = Idle]
    /\ dropped' = [dropped EXCEPT ![ReplicaOf[h]][MyProfile(h)] =
                       IF handler[h].pc = "review" THEN @ ELSE @ + 1]
    /\ UNCHANGED <<records, metrics, observed, attempts, tokens, claims>>

\* The client goes away and the future is dropped at its await.
Disconnect(h) ==
    /\ handler[h].pc # "idle"
    /\ Abandon(h)
    /\ End(h)
    /\ dropped' = [dropped EXCEPT ![ReplicaOf[h]][MyProfile(h)] =
                       IF handler[h].pc = "review" THEN @ ELSE @ + 1]
    /\ UNCHANGED <<records, metrics, attempts, tokens, claims>>

\* The API server applies an abandoned claim, or never gets it.
ApplyLate(k) ==
    /\ late' = late \ {k}
    /\ records' \in {records, records \union {k}}
    /\ UNCHANGED <<handler, metrics, observed, attempts, tokens, claims, dropped>>

Zero == [p \in Profile |-> [c \in Counter |-> 0]]

\* A new process has zero counters.
Restart(r) ==
    /\ handler' = [h \in Handler |-> IF ReplicaOf[h] = r THEN Idle ELSE handler[h]]
    /\ metrics' = [metrics EXCEPT ![r] = Zero]
    /\ observed' = [observed EXCEPT ![r] = 0]
    /\ dropped' = [dropped EXCEPT ![r] = [p \in Profile |-> 0]]
    /\ \E lost \in SUBSET {h \in Handler : ReplicaOf[h] = r /\ handler[h].pc = "claim"} :
           late' = late \union {ReplayKey(My(h)) : h \in lost}
    /\ UNCHANGED <<records, attempts, tokens, claims>>

Init ==
    /\ handler = [h \in Handler |-> Idle]
    /\ records = {} /\ late = {}
    /\ metrics = [r \in Replica |-> Zero]
    /\ observed = [r \in Replica |-> 0]
    /\ attempts = 0
    /\ tokens = [a \in Assertion |-> 0]
    /\ claims = [a \in Assertion |-> 0]
    /\ dropped = [r \in Replica |-> [p \in Profile |-> 0]]

Step(h) ==
    \/ \E a \in Assertion : Receive(h, a)
    \/ ReviewFailed(h) \/ BrowserExchange(h)
    \/ VerifyInvalid(h) \/ VerifyUnavailable(h) \/ Verified(h)
    \/ Claim(h) \/ Replayed(h) \/ LedgerUnavailable(h) \/ Signed(h)
    \/ Disconnect(h)

Next ==
    \/ \E h \in Handler : Step(h)
    \/ \E k \in late : ApplyLate(k)
    \/ \E r \in Replica : Restart(r)

Spec == Init /\ [][Next]_vars

-----------------------------------------------------------------------------
\* Properties.

\* Every variable has its type, and only a handler of a single-use assertion
\* awaits the browser route's review or the ledger.
TypeOK ==
    /\ handler \in [Handler -> [pc : {"idle", "review", "verify", "claim", "cleanup"},
                                assertion : Assertion]]
    /\ \A h \in Handler : handler[h].pc \in {"review", "claim", "cleanup"} => SingleUse(My(h))
    /\ metrics \in [Replica -> [Profile -> [Counter -> Nat]]]
    /\ observed \in [Replica -> Nat]
    /\ attempts \in Nat
    /\ tokens \in [Assertion -> Nat]
    /\ claims \in [Assertion -> Nat]
    /\ dropped \in [Replica -> [Profile -> Nat]]

\* An assertion of a single-use profile yields one token at most, on whichever
\* replicas and however often it is presented, and whatever fails in between:
\* exchange() signs after use_once and signs nothing when that failed.
OneTokenPerAssertion == \A a \in Assertion : SingleUse(a) => tokens[a] <= 1

\* A source is refused as replayed only when another exchange has tried to
\* claim that very assertion: the keys the four profiles pass to use_once keep
\* apart the identifiers of different profiles and of different issuers.
ReplaysAreRepeats ==
    \A h \in Handler :
        handler[h].pc = "claim" /\ ReplayKey(My(h)) \in records => claims[My(h)] > 1

\* What the exchanges past their claim hold in the sense of SingleUse.
Granted == [h \in Handler |-> IF handler[h].pc = "cleanup" THEN {My(h)} ELSE {}]

Spendable == {a \in Assertion : SingleUse(a)}
Issued == [a \in Spendable |-> tokens[a]]

Promise == INSTANCE SingleUse WITH
    Caller <- Handler, Assertion <- Spendable, holding <- Granted, used <- Issued

(***************************************************************************)
(* To its clients the service keeps the promise that the ledger makes to   *)
(* it: an exchange is let past use_once only while no other is and no      *)
(* token was issued for the assertion, and a token is issued only for such *)
(* an exchange, which it ends.                                             *)
(***************************************************************************)
TokensKeepPromise == Promise!Spec

Running(r, p) ==
    {h \in Handler : /\ handler[h].pc \notin {"idle", "review"}
                     /\ ReplicaOf[h] = r /\ MyProfile(h) = p}

\* Replays count as denials in the oidc and the workload profile.
Refused(p, m) == IF p \in {"oidc", "workload"} THEN m["denied"] ELSE m["denied"] + m["replayed"]

\* The counters account for every request: it was issued a token, refused or
\* failed, or its client went away, or it is running; and the duration
\* histogram has an observation for each GitHub exchange that is over.
EveryRequestIsCounted ==
    \A r \in Replica :
        /\ \A p \in Profile :
               LET m == metrics[r][p]
               IN  m["requests"] = m["issued"] + Refused(p, m) + m["errors"] + dropped[r][p]
                                       + Cardinality(Running(r, p))
        /\ observed[r] + Cardinality(Running(r, "github")) = metrics[r]["github"]["requests"]
=============================================================================
