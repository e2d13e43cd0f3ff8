----------------------------- MODULE Readiness -----------------------------
(***************************************************************************)
(* /readyz of one replica: readiness and workload_readiness of src/http.rs *)
(* and the cached look at the ledger, KubernetesLeaseReplayLedger::        *)
(* check_ready of src/replay.rs, which they share behind one mutex.        *)
(*                                                                         *)
(* Durations are counted, in seconds, up to the bound where they stop to   *)
(* matter.  Key windows and the age of the GitHub key set, which           *)
(* KeyRotation and JwksCache model, appear as their verdicts.              *)
(***************************************************************************)
EXTENDS Naturals

CONSTANTS
    Probe,     \* requests to /readyz that can be under way at the same time
    Public,    \* those on the public listener; the others use the workload one
    Key,       \* signing keys in use: "github", and "workload" if that is on
    Ttl,       \* READINESS_CACHE_TTL
    Timeout,   \* READINESS_TIMEOUT
    Patience,  \* how long a client waits at least before it goes away
    NoOne      \* nobody holds the mutex

ASSUME ReadinessAssumption ==
    /\ {Ttl, Timeout} \subseteq Nat \ {0} /\ Patience \in Nat
    /\ Public \subseteq Probe /\ NoOne \notin Probe

VARIABLES
    api,      \* what becomes of a GET: answered in time, refused, or left waiting
    jwks,     \* whether verifier.check_ready() succeeds
    keys,     \* keys whose is_ready_at(now) holds
    cache,    \* ReadinessCache; an age of Ttl is as good as no check at all
    holder,   \* the probe that holds the readiness mutex
    probe,    \* per probe: where it is suspended and its locals
    heard,    \* history: seconds since the API server last answered 200 or 404
    healthy,  \* history: seconds for which everything has been in order
    last      \* history: the answer each probe got, "none" until then

readinessVars == <<api, jwks, keys, cache, holder, probe, heard, healthy, last>>

\* The GET of the sentinel Lease is on its way, lost, or answered and the
\* answer on its way; the probe cannot tell which.
Calling == {"get", "lost", "response"}

Task == [pc : {"idle", "lock"} \cup Calling, failed : BOOLEAN,
         since : 0 .. Patience, wait : 0 .. Timeout]

Idle == [pc |-> "idle", failed |-> FALSE, since |-> 0, wait |-> 0]

\* The bound the histories are counted up to.
HistoryBound == Ttl + Timeout

Limit(n, bound) == IF n < bound THEN n + 1 ELSE n

-----------------------------------------------------------------------------
\* The checks before the ledger's: the signing keys and, on the public
\* listener, the GitHub key set.  They use a `now' read at the start.
Begin(p) ==
    /\ probe[p].pc = "idle"
    /\ probe' = [probe EXCEPT ![p] =
          [Idle EXCEPT !.pc = "lock", !.failed = keys # Key \/ (p \in Public /\ ~jwks)]]
    /\ last' = [last EXCEPT ![p] = "none"]
    /\ UNCHANGED <<api, jwks, keys, cache, holder, heard, healthy>>

\* readiness_response(failed_checks), once the ledger's verdict is known.
AnswerProbe(p, ledgerReady) ==
    /\ probe' = [probe EXCEPT ![p] = Idle]
    /\ last' = [last EXCEPT ![p] =
          IF ledgerReady /\ ~probe[p].failed THEN "ready" ELSE "not_ready"]

\* Faulty: the time of the check is renewed whenever the verdict is used.
LockAndRenew(p) ==
    /\ probe[p].pc = "lock"
    /\ holder = NoOne
    /\ \/ /\ cache.age < Ttl /\ AnswerProbe(p, cache.ready) /\ UNCHANGED holder
          /\ cache' = [cache EXCEPT !.age = 0]
       \/ /\ cache.age = Ttl
          /\ holder' = p
          /\ probe' = [probe EXCEPT ![p].pc = "get"]
          /\ UNCHANGED <<last, cache>>
    /\ UNCHANGED <<api, jwks, keys, heard, healthy>>

\* The mutex is taken; a verdict younger than the TTL is given as it is, good
\* or bad, and otherwise the GET starts with the mutex held.
Lock(p) ==
    /\ probe[p].pc = "lock"
    /\ holder = NoOne
    /\ \/ cache.age < Ttl /\ AnswerProbe(p, cache.ready) /\ UNCHANGED holder
       \/ /\ cache.age = Ttl
          /\ holder' = p
          /\ probe' = [probe EXCEPT ![p].pc = "get"]
          /\ UNCHANGED last
    /\ UNCHANGED <<api, jwks, keys, cache, heard, healthy>>

\* Faulty: a failed check does not replace the verdict.
StoreOnSuccess(p, ready) ==
    /\ cache' = [age |-> 0, ready |-> ready \/ cache.ready]
    /\ holder' = NoOne
    /\ AnswerProbe(p, cache'.ready)

\* checked_at is the time the call ended, whatever came of it.
Store(p, ready) ==
    /\ cache' = [age |-> 0, ready |-> ready]
    /\ holder' = NoOne
    /\ AnswerProbe(p, ready)

\* The API server has the GET and answers 200 or 404.
ApiServes(p) ==
    /\ probe[p].pc = "get" /\ api = "up"
    /\ probe' = [probe EXCEPT ![p].pc = "response"]
    /\ heard' = 0
    /\ UNCHANGED <<api, jwks, keys, cache, holder, healthy, last>>

GetSucceeds(p) ==
    /\ probe[p].pc = "response"
    /\ Store(p, TRUE)
    /\ UNCHANGED <<api, jwks, keys, heard, healthy>>

\* Another status, a refused connection, or unreadable credentials.
GetFails(p) ==
    /\ probe[p].pc = "get" /\ api = "down"
    /\ Store(p, FALSE)
    /\ UNCHANGED <<api, jwks, keys, heard, healthy>>

\* READINESS_TIMEOUT is over, wherever the call got to and whether or not the
\* API server is back meanwhile.
GetTimesOut(p) ==
    /\ probe[p].pc \in Calling /\ probe[p].wait = Timeout
    /\ Store(p, FALSE)
    /\ UNCHANGED <<api, jwks, keys, heard, healthy>>

\* Faulty: the mutex of a dropped probe stays locked.
LeaveLocked(p) ==
    /\ probe[p].pc # "idle" /\ probe[p].since = Patience
    /\ probe' = [probe EXCEPT ![p] = Idle]
    /\ UNCHANGED <<api, jwks, keys, cache, holder, heard, healthy, last>>

\* The client goes away: the handler's future is dropped, and its guard.
Leave(p) ==
    /\ probe[p].pc # "idle" /\ probe[p].since = Patience
    /\ probe' = [probe EXCEPT ![p] = Idle]
    /\ holder' = IF holder = p THEN NoOne ELSE holder
    /\ UNCHANGED <<api, jwks, keys, cache, heard, healthy, last>>

-----------------------------------------------------------------------------
(* The environment.                                                         *)

InOrder == api = "up" /\ jwks /\ keys = Key

\* A call that is under way while the API server is silent may be lost, and
\* stays so when it comes back.
CallLost(p) ==
    /\ probe[p].pc \in {"get", "response"} /\ api = "silent"
    /\ probe' = [probe EXCEPT ![p].pc = "lost"]
    /\ UNCHANGED <<api, jwks, keys, cache, holder, heard, healthy, last>>

ApiChange ==
    /\ api' \in {"up", "down", "silent"} \ {api}
    /\ healthy' = 0
    /\ UNCHANGED <<jwks, keys, cache, holder, probe, heard, last>>

JwksChange ==
    /\ jwks' = ~jwks
    /\ healthy' = 0
    /\ UNCHANGED <<api, keys, cache, holder, probe, heard, last>>

\* A key comes too near to its end; only a restart loads another ring.
KeyExpires(k) ==
    /\ k \in keys
    /\ keys' = keys \ {k}
    /\ healthy' = 0
    /\ UNCHANGED <<api, jwks, cache, holder, probe, heard, last>>

\* A second passes, but not past a deadline and not while the mutex is free
\* and wanted.  For as long as the API server is up it answers what has not
\* been lost before READINESS_TIMEOUT; one that is slower is silent.
ReadinessTick ==
    /\ \A p \in Probe : probe[p].pc \in Calling => probe[p].wait < Timeout
    /\ \A p \in Probe : probe[p].pc \in {"get", "response"} /\ api = "up" =>
                            probe[p].wait + 1 < Timeout
    /\ holder = NoOne => \A p \in Probe : probe[p].pc # "lock"
    /\ cache' = [cache EXCEPT !.age = Limit(@, Ttl)]
    /\ probe' = [p \in Probe |->
          IF probe[p].pc = "idle" THEN Idle
          ELSE [probe[p] EXCEPT !.since = Limit(@, Patience),
                                !.wait = IF probe[p].pc = "lock" THEN 0 ELSE @ + 1]]
    /\ heard' = Limit(heard, HistoryBound)
    /\ healthy' = IF InOrder THEN Limit(healthy, HistoryBound) ELSE 0
    /\ UNCHANGED <<api, jwks, keys, holder, last>>

ReadinessInit ==
    /\ api = "up" /\ jwks = TRUE /\ keys = Key
    /\ cache = [age |-> Ttl, ready |-> FALSE]
    /\ holder = NoOne
    /\ probe = [p \in Probe |-> Idle]
    /\ heard = HistoryBound /\ healthy = 0
    /\ last = [p \in Probe |-> "none"]

Call(p) == ApiServes(p) \/ GetSucceeds(p) \/ GetFails(p) \/ GetTimesOut(p)

ReadinessNext ==
    \/ \E p \in Probe : Begin(p) \/ Lock(p) \/ Call(p) \/ CallLost(p) \/ Leave(p)
    \/ ApiChange \/ JwksChange \/ \E k \in Key : KeyExpires(k)
    \/ ReadinessTick

ReadinessSpec == ReadinessInit /\ [][ReadinessNext]_readinessVars

\* Time passes, even if the API server comes and goes without end; a call that
\* can end ends; and tokio hands the mutex to its waiters in the order they
\* came: nobody is passed over for ever.
ReadinessFairSpec ==
    /\ ReadinessSpec
    /\ SF_readinessVars(ReadinessTick)
    /\ \A p \in Probe : WF_readinessVars(Call(p)) /\ SF_readinessVars(Lock(p))

-----------------------------------------------------------------------------
(* Properties.                                                              *)

\* The state has its types, and the GET is made by the holder of the mutex.
ReadinessTypeOK ==
    /\ api \in {"up", "down", "silent"} /\ jwks \in BOOLEAN /\ keys \subseteq Key
    /\ cache \in [age : 0 .. Ttl, ready : BOOLEAN]
    /\ probe \in [Probe -> Task]
    /\ holder \in Probe \cup {NoOne}
    /\ \A p \in Probe : probe[p].pc \in Calling <=> holder = p
    /\ heard \in 0 .. HistoryBound /\ healthy \in 0 .. HistoryBound
    /\ last \in [Probe -> {"none", "ready", "not_ready"}]

Answered(p, verdict) == last[p] = "none" /\ last'[p] = verdict

(***************************************************************************)
(* A verdict of check_ready is never old: whenever /readyz answers 204,    *)
(* the API server has answered the ledger less than READINESS_CACHE_TTL    *)
(* plus READINESS_TIMEOUT ago, however many probes share the verdict, wait *)
(* for each other or are dropped.                                          *)
(***************************************************************************)
ReadyIsRecent == [][\A p \in Probe : Answered(p, "ready") => heard' < HistoryBound]_readinessVars

(***************************************************************************)
(* A failure is remembered like a success, but not for longer: once the    *)
(* API server, the GitHub key set and the signing keys have been in order  *)
(* for READINESS_CACHE_TTL plus READINESS_TIMEOUT, the ledger's check is   *)
(* no reason for a 503.  The timeout counts because a GET that was lost    *)
(* before the recovery fails after it, and that failure is cached afresh.  *)
(* (A probe that failed another check before may still be on its way,      *)
(* behind a chain of dropped ones.)                                        *)
(***************************************************************************)
RecoversInTime ==
    [][\A p \in Probe : Answered(p, "not_ready") /\ ~probe[p].failed =>
          healthy < HistoryBound]_readinessVars

(***************************************************************************)
(* Every probe comes to its end, although all of them wait for one mutex   *)
(* that is held across a call and whose holder may be dropped.             *)
(***************************************************************************)
EveryProbeEnds == \A p \in Probe : probe[p].pc # "idle" ~> probe[p].pc = "idle"
=============================================================================
