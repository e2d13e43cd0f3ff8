--------------------------- MODULE ReplayLedger ---------------------------
(***************************************************************************)
(* The one-time-use ledger of src/replay.rs: KubernetesLeaseReplayLedger.  *)
(*                                                                         *)
(* Exchange handlers on several replicas verify an assertion and then call *)
(* use_once(jti, exp).  The record of use is a Kubernetes Lease; handlers  *)
(* race on creating it, on reclaiming an expired one by compare-and-swap   *)
(* on resourceVersion, and on deleting expired ones.                       *)
(*                                                                         *)
(* One action is one synchronous segment of the future: from one await to  *)
(* the next.  An API call is in flight while its handler is at the pc that *)
(* names it; the "...Served" action is the API server applying the call    *)
(* and the handler reacting to the response.  A call that its handler      *)
(* stops waiting for (error, timeout, dropped future) may still be applied *)
(* by the API server at any later time: it is kept in `orphans'.           *)
(*                                                                         *)
(* Time is counted in ticks, Second ticks to a second, so that the         *)
(* truncation to whole seconds that the code performs is visible.          *)
(***************************************************************************)
EXTENDS Integers, FiniteSets

CONSTANTS
    Replica,       \* service processes, each with its own ledger value
    Handler,       \* exchange futures that can run at the same time
    ReplicaOf,     \* the replica a handler runs on
    Name,          \* lease names, as numbers in the API's list order
    Assertion,     \* signed assertions
    LeaseName,     \* lease_name(jti) of an assertion
    IssuedAt,      \* its iat claim, in ticks
    ExpiresAt,     \* its exp claim, in ticks
    Second,        \* ticks in a second
    Leeway,        \* clock leeway of the verifier
    Retention,     \* LEASE_RETENTION_SECONDS
    MaxDuration,   \* MAX_LEASE_DURATION_SECONDS
    CallTimeout,   \* the HTTP client's per-request timeout
    Stall,         \* longest pause between verification and use_once
    Skew,          \* how far a replica's clock may be from true time
    PageSize,      \* CLEANUP_PAGE_SIZE
    MaxPages,      \* MAX_CLEANUP_PAGES_PER_EXCHANGE
    MaxTime,       \* bound: last tick explored
    MaxOrphans     \* bound: abandoned calls the network holds at once

ASSUME TimingAssumption ==
    /\ Second \in Nat \ {0}
    /\ {Leeway, Retention, MaxDuration, CallTimeout, Stall, Skew} \subseteq Nat
    /\ {PageSize, MaxPages} \subseteq Nat \ {0}
    /\ {MaxTime, MaxOrphans} \subseteq Nat

ASSUME NamingAssumption ==
    /\ Assertion # {} /\ Name \subseteq Nat \ {0}
    /\ LeaseName \in [Assertion -> Name]
    /\ IssuedAt \in [Assertion -> Nat]
    /\ ExpiresAt \in [Assertion -> Nat]
    /\ ReplicaOf \in [Handler -> Replica]

(***************************************************************************)
(* The source's numbers satisfy this with room: retention is 300 s, the    *)
(* leeway 30 s, a call at most 5 s and an acceptance makes at most five.   *)
(***************************************************************************)
ASSUME RetentionAssumption ==
    Leeway + Second + 2 * Skew + Stall + 5 * CallTimeout < Retention - Second + 2

VARIABLES
    time,              \* true time
    leases,            \* the Lease objects the API server stores
    revision,          \* the API server's revision counter
    orphans,           \* writes whose handler no longer waits for them
    cleanupContinue,   \* per replica: KubernetesLeaseReplayLedger.cleanup_continue
    task,              \* per handler: the state of its future
    accepted           \* history: how often use_once returned Ok per assertion

vars == <<time, leases, revision, orphans, cleanupContinue, task, accepted>>

-----------------------------------------------------------------------------
(* Leases and clocks.                                                       *)

\* LeaseSpec and the resource version; version 0 is "no resourceVersion".
Lease == [renewTime : Nat, duration : Int, version : Nat]

NoLease == [renewTime |-> 0, duration |-> 0, version |-> 0]

NoToken == 0

\* num_seconds() and timestamp(): whole seconds, still counted in ticks.
WholeSeconds(ticks) == ticks - (ticks % Second)

\* What Utc::now() may return on a replica at this moment.
Clock == {t \in (time - Skew) .. (time + Skew) : t >= 0}

\* lease_duration of retained_until(exp, now.timestamp()).
RemainingRetention(a, t) == ExpiresAt[a] + Retention - WholeSeconds(t)

RetentionInRange(a, t) ==
    /\ RemainingRetention(a, t) > 0
    /\ RemainingRetention(a, t) <= MaxDuration

\* Lease::new(name, retained_until, now): the duration loses its fraction.
NewLease(a, t) ==
    [renewTime |-> t,
     duration  |-> WholeSeconds(ExpiresAt[a] + Retention - t),
     version   |-> 0]

Expiry(lease) == lease.renewTime + lease.duration

Expired(lease, t) == lease.duration > 0 /\ Expiry(lease) <= t

Present(n) == leases[n].version # 0

-----------------------------------------------------------------------------
(* A handler's future: where it is suspended and the locals alive there.    *)

Awaits == {"create", "get", "recreate", "update", "list", "recheck", "delete"}

Task == [pc        : {"idle", "verified"} \cup Awaits,
         assertion : Assertion,
         now       : Nat,               \* `now' of use_once, read once
         attempt   : {0, 1},            \* loop counter of reclaim_expired
         seen      : Nat,               \* resourceVersion to present
         cursor    : Name \cup {NoToken}, \* continue token of the next list
         pages     : 0 .. MaxPages,     \* pages it may still list
         victim    : Name \cup {0},     \* lease to delete
         due       : Nat]               \* when the current step is over

Idle == [pc |-> "idle", assertion |-> CHOOSE a \in Assertion : TRUE, now |-> 0,
         attempt |-> 0, seen |-> 0, cursor |-> NoToken, pages |-> 0, victim |-> 0,
         due |-> 0]

\* The name and the replacement lease a handler works with.
MyName(h) == LeaseName[task[h].assertion]
MyLease(h) == NewLease(task[h].assertion, task[h].now)

\* Suspend at the await of an API call with the given locals.
Await(h, call, locals) ==
    task' = [task EXCEPT ![h] = [locals EXCEPT !.pc = call, !.due = time + CallTimeout]]

Leave(h) == task' = [task EXCEPT ![h] = Idle]

-----------------------------------------------------------------------------
(* The Kubernetes API server, as the ledger uses it.                        *)

\* It validates leaseDurationSeconds > 0 on every write of a Lease.
Valid(lease) == lease.duration > 0

Write(n, lease) ==
    /\ leases' = [leases EXCEPT ![n] = [lease EXCEPT !.version = revision + 1]]
    /\ revision' = revision + 1

Remove(n) ==
    /\ leases' = [leases EXCEPT ![n] = NoLease]
    /\ UNCHANGED revision

Request == [op : {"create", "update", "delete"}, name : Name, lease : Lease]

\* The write a handler is waiting for, if it waits for one.
InFlight(h) ==
    CASE task[h].pc \in {"create", "recreate"} ->
            {[op |-> "create", name |-> MyName(h), lease |-> MyLease(h)]}
      [] task[h].pc = "update" ->
            {[op |-> "update", name |-> MyName(h),
              lease |-> [MyLease(h) EXCEPT !.version = task[h].seen]]}
      [] task[h].pc = "delete" ->
            {[op |-> "delete", name |-> task[h].victim,
              lease |-> [NoLease EXCEPT !.version = task[h].seen]]}
      [] OTHER -> {}

\* The handler stops waiting: its write is lost, or still on its way.
Abandon(h) ==
    /\ \E late \in SUBSET InFlight(h) :
          /\ Cardinality(orphans \cup late) <= MaxOrphans
          /\ orphans' = orphans \cup late
    /\ UNCHANGED <<leases, revision>>

\* The API server applies an abandoned write; nobody reads the response.
ApplyOrphan(q) ==
    /\ orphans' = orphans \ {q}
    /\ \/ q.op = "create" /\ ~Present(q.name) /\ Valid(q.lease) /\ Write(q.name, q.lease)
       \/ /\ q.op = "update" /\ Present(q.name) /\ Valid(q.lease)
          /\ leases[q.name].version = q.lease.version
          /\ Write(q.name, q.lease)
       \/ /\ q.op = "delete" /\ Present(q.name)
          /\ leases[q.name].version = q.lease.version
          /\ Remove(q.name)
    /\ UNCHANGED <<time, cleanupContinue, task, accepted>>

\* An abandoned write that is lost, or that the API server refuses.
DropOrphan(q) ==
    /\ orphans' = orphans \ {q}
    /\ UNCHANGED <<time, leases, revision, cleanupContinue, task, accepted>>

-----------------------------------------------------------------------------
(* use_once and reclaim_expired.                                            *)

\* use_once returns Ok(()).
Accept(h) ==
    /\ Leave(h)
    /\ accepted' = [accepted EXCEPT ![task[h].assertion] = @ + 1]

\* The claim is made; cleanup_one(now) starts from the replica's token.
StartCleanup(h) ==
    Await(h, "list", [task[h] EXCEPT !.cursor = cleanupContinue[ReplicaOf[h]],
                                     !.pages = MaxPages])

\* The verifier accepts the assertion: iat and exp are compared in whole seconds.
Verify(h) ==
    /\ task[h].pc = "idle"
    /\ \E a \in Assertion, t \in Clock :
          /\ IssuedAt[a] - Leeway <= WholeSeconds(t)
          /\ WholeSeconds(t) <= ExpiresAt[a] + Leeway
          /\ task' = [task EXCEPT ![h] = [Idle EXCEPT !.pc = "verified",
                                                      !.assertion = a,
                                                      !.due = time + Stall]]
    /\ UNCHANGED <<time, leases, revision, orphans, cleanupContinue, accepted>>

\* use_once up to the first await: the POST of the new lease.
UseOnce(h) ==
    /\ task[h].pc = "verified"
    /\ \E t \in Clock :
          \/ /\ RetentionInRange(task[h].assertion, t)
             /\ Await(h, "create", [task[h] EXCEPT !.now = t])
          \/ /\ ~RetentionInRange(task[h].assertion, t)
             /\ Leave(h)                            \* Err(Unavailable)
    /\ UNCHANGED <<time, leases, revision, orphans, cleanupContinue, accepted>>

\* create(&lease): Created leads to cleanup, Conflict to reclaim_expired.
CreateServed(h) ==
    /\ task[h].pc = "create"
    /\ Valid(MyLease(h))
    /\ \/ /\ ~Present(MyName(h))
          /\ Write(MyName(h), MyLease(h))
          /\ StartCleanup(h)
       \/ /\ Present(MyName(h))
          /\ Await(h, "get", [task[h] EXCEPT !.attempt = 0])
          /\ UNCHANGED <<leases, revision>>
    /\ UNCHANGED <<time, orphans, cleanupContinue, accepted>>

\* get(name) in reclaim_expired.
GetServed(h) ==
    /\ task[h].pc = "get"
    /\ LET existing == leases[MyName(h)] IN
       \/ ~Present(MyName(h)) /\ Await(h, "recreate", task[h])
       \/ /\ Present(MyName(h)) /\ ~Expired(existing, task[h].now)
          /\ Leave(h)                               \* Err(Replayed)
       \/ /\ Present(MyName(h)) /\ Expired(existing, task[h].now)
          /\ Await(h, "update", [task[h] EXCEPT !.seen = existing.version])
    /\ UNCHANGED <<time, leases, revision, orphans, cleanupContinue, accepted>>

\* create(replacement) in reclaim_expired, after the lease was gone.
RecreateServed(h) ==
    /\ task[h].pc = "recreate"
    /\ Valid(MyLease(h))
    /\ \/ /\ ~Present(MyName(h))
          /\ Write(MyName(h), MyLease(h))
          /\ StartCleanup(h)
       \/ /\ Present(MyName(h))
          /\ Leave(h)                               \* Err(Unavailable)
          /\ UNCHANGED <<leases, revision>>
    /\ UNCHANGED <<time, orphans, cleanupContinue, accepted>>

\* Faulty variant: the PUT carries no resourceVersion and overwrites.
UpdateServedUnconditionally(h) ==
    /\ task[h].pc = "update"
    /\ Valid(MyLease(h))
    /\ Present(MyName(h))
    /\ Write(MyName(h), MyLease(h))
    /\ StartCleanup(h)
    /\ UNCHANGED <<time, orphans, cleanupContinue, accepted>>

\* update(name, &update): the PUT carries the resourceVersion that was read.
UpdateServed(h) ==
    /\ task[h].pc = "update"
    /\ Valid(MyLease(h))
    /\ Present(MyName(h)) /\ leases[MyName(h)].version = task[h].seen
    /\ Write(MyName(h), MyLease(h))
    /\ StartCleanup(h)
    /\ UNCHANGED <<time, orphans, cleanupContinue, accepted>>

\* 409: try once more from get, the second time give up.
UpdateConflict(h) ==
    /\ task[h].pc = "update"
    /\ leases[MyName(h)].version # task[h].seen
    /\ \/ task[h].attempt = 0 /\ Await(h, "get", [task[h] EXCEPT !.attempt = 1])
       \/ task[h].attempt = 1 /\ Leave(h)           \* Err(Unavailable)
    /\ UNCHANGED <<time, leases, revision, orphans, cleanupContinue, accepted>>

\* A PUT of a lease that is gone may create it; the 201 is not a 200.
UpdateUpserted(h) ==
    /\ task[h].pc = "update"
    /\ Valid(MyLease(h))
    /\ ~Present(MyName(h))
    /\ Write(MyName(h), MyLease(h))
    /\ Leave(h)                                     \* Err(Unavailable)
    /\ UNCHANGED <<time, orphans, cleanupContinue, accepted>>

\* Any other answer, an error or the timeout: Err(Unavailable).
CallFailed(h) ==
    /\ task[h].pc \in {"create", "get", "recreate", "update"}
    /\ Abandon(h)
    /\ Leave(h)
    /\ UNCHANGED <<time, cleanupContinue, accepted>>

-----------------------------------------------------------------------------
(* cleanup_one(now).                                                        *)

Listed(c) == {n \in Name : n > c /\ Present(n)}

Page(c) == {n \in Listed(c) : Cardinality({m \in Listed(c) : m < n}) < PageSize}

\* The continue token the API server returns with Page(c).
NextTokens(c) ==
    IF Page(c) = Listed(c) THEN {NoToken}
                           ELSE {n \in Page(c) : \A m \in Page(c) : m <= n}

\* expired_owned_leases(...).take(1).
FirstExpired(c, t) ==
    {n \in Page(c) : /\ Expired(leases[n], t)
                     /\ \A m \in Page(c) : Expired(leases[m], t) => n <= m}

\* The end of one iteration of cleanup_one's page loop.
NextPage(h, next) ==
    \/ /\ next = NoToken \/ task[h].pages = 1
       /\ Accept(h)
    \/ /\ next # NoToken /\ task[h].pages > 1
       /\ Await(h, "list", [task[h] EXCEPT !.cursor = next, !.pages = @ - 1])
       /\ UNCHANGED accepted

\* The token is advanced before anything is deleted.
ListServed(h) ==
    /\ task[h].pc = "list"
    /\ \E next \in NextTokens(task[h].cursor) :
          /\ cleanupContinue' = [cleanupContinue EXCEPT ![ReplicaOf[h]] = next]
          /\ \/ /\ FirstExpired(task[h].cursor, task[h].now) = {}
                /\ NextPage(h, next)
             \/ \E v \in FirstExpired(task[h].cursor, task[h].now) :
                /\ Await(h, "recheck", [task[h] EXCEPT !.victim = v, !.cursor = next])
                /\ UNCHANGED accepted
    /\ UNCHANGED <<time, leases, revision, orphans>>

ListFailed(h) ==
    /\ task[h].pc = "list"
    /\ cleanupContinue' = [cleanupContinue EXCEPT ![ReplicaOf[h]] = NoToken]
    /\ Accept(h)
    /\ UNCHANGED <<time, leases, revision, orphans>>

\* Faulty variant: the lease is read again but not its expiry.
RecheckServedExistence(h) ==
    /\ task[h].pc = "recheck"
    /\ LET current == leases[task[h].victim]
           gone    == ~Present(task[h].victim)
       IN  \/ /\ ~gone
              /\ Await(h, "delete", [task[h] EXCEPT !.seen = current.version])
              /\ UNCHANGED accepted
           \/ /\ gone
              /\ NextPage(h, task[h].cursor)
    /\ UNCHANGED <<time, leases, revision, orphans, cleanupContinue>>

\* The lease is read again; only its current version is offered for deletion.
RecheckServed(h) ==
    /\ task[h].pc = "recheck"
    /\ LET current == leases[task[h].victim]
           gone    == ~Present(task[h].victim) \/ ~Expired(current, task[h].now)
       IN  \/ /\ ~gone
              /\ Await(h, "delete", [task[h] EXCEPT !.seen = current.version])
              /\ UNCHANGED accepted
           \/ /\ gone
              /\ NextPage(h, task[h].cursor)
    /\ UNCHANGED <<time, leases, revision, orphans, cleanupContinue>>

RecheckFailed(h) ==
    /\ task[h].pc = "recheck"
    /\ NextPage(h, task[h].cursor)
    /\ UNCHANGED <<time, leases, revision, orphans, cleanupContinue>>

\* Faulty variant: the DELETE carries no precondition.
DeleteServedUnconditionally(h) ==
    /\ task[h].pc = "delete"
    /\ Remove(task[h].victim)
    /\ Accept(h)
    /\ UNCHANGED <<time, orphans, cleanupContinue>>

\* delete(name, resource_version): the precondition may fail; either way return.
DeleteServed(h) ==
    /\ task[h].pc = "delete"
    /\ \/ leases[task[h].victim].version = task[h].seen /\ Remove(task[h].victim)
       \/ leases[task[h].victim].version # task[h].seen /\ UNCHANGED <<leases, revision>>
    /\ Accept(h)
    /\ UNCHANGED <<time, orphans, cleanupContinue>>

DeleteFailed(h) ==
    /\ task[h].pc = "delete"
    /\ Abandon(h)
    /\ Accept(h)
    /\ UNCHANGED <<time, cleanupContinue>>

-----------------------------------------------------------------------------
(* The environment.                                                         *)

\* The client goes away and the handler's future is dropped at an await.
Cancel(h) ==
    /\ task[h].pc # "idle"
    /\ Abandon(h)
    /\ Leave(h)
    /\ UNCHANGED <<time, cleanupContinue, accepted>>

\* A replica crashes and restarts: its handlers and its token are gone.
Restart(r) ==
    /\ task' = [h \in Handler |-> IF ReplicaOf[h] = r THEN Idle ELSE task[h]]
    /\ cleanupContinue' = [cleanupContinue EXCEPT ![r] = NoToken]
    /\ UNCHANGED <<time, leases, revision, orphans, accepted>>

\* Time passes unless a step is due.
Tick ==
    /\ time < MaxTime
    /\ \A h \in Handler : task[h].pc # "idle" => time < task[h].due
    /\ time' = time + 1
    /\ UNCHANGED <<leases, revision, orphans, cleanupContinue, task, accepted>>

Init ==
    /\ time = 0
    /\ leases = [n \in Name |-> NoLease]
    /\ revision = 0
    /\ orphans = {}
    /\ cleanupContinue = [r \in Replica |-> NoToken]
    /\ task = [h \in Handler |-> Idle]
    /\ accepted = [a \in Assertion |-> 0]

Step(h) ==
    \/ Verify(h) \/ UseOnce(h)
    \/ CreateServed(h) \/ GetServed(h) \/ RecreateServed(h)
    \/ UpdateServed(h) \/ UpdateConflict(h) \/ UpdateUpserted(h) \/ CallFailed(h)
    \/ ListServed(h) \/ ListFailed(h) \/ RecheckServed(h) \/ RecheckFailed(h)
    \/ DeleteServed(h) \/ DeleteFailed(h)
    \/ Cancel(h)

Next ==
    \/ \E h \in Handler : Step(h)
    \/ \E q \in orphans : ApplyOrphan(q) \/ DropOrphan(q)
    \/ \E r \in Replica : Restart(r)
    \/ Tick

Spec == Init /\ [][Next]_vars

-----------------------------------------------------------------------------
(* Properties.                                                              *)

(***************************************************************************)
(* Every variable has its type; clean-up re-reads and deletes only names   *)
(* that a list can return.                                                 *)
(***************************************************************************)
TypeOK ==
    /\ time \in Nat
    /\ leases \in [Name -> Lease]
    /\ revision \in Nat
    /\ orphans \subseteq Request
    /\ cleanupContinue \in [Replica -> Name \cup {NoToken}]
    /\ task \in [Handler -> Task]
    /\ \A h \in Handler : task[h].pc \in {"recheck", "delete"} => task[h].victim \in Name
    /\ accepted \in [Assertion -> Nat]

(***************************************************************************)
(* The promise of ReplayLedger::use_once: whatever handlers, clean-up,     *)
(* lost calls, cancellations and restarts do, use_once returns Ok at most  *)
(* once for a verified assertion.                                          *)
(***************************************************************************)
AcceptedAtMostOnce == \A a \in Assertion : accepted[a] <= 1

(***************************************************************************)
(* Reclaiming and clean-up never take a record that is still needed: a     *)
(* stored lease changes or disappears only when its retention is over on   *)
(* some replica's clock.  (A list result, a re-read and the delete or      *)
(* update that follows are three calls; the lease may be renewed between.) *)
(***************************************************************************)
RecordsKeptUntilExpiry ==
    [][\A n \in Name : Present(n) /\ leases'[n] # leases[n] =>
            Expiry(leases[n]) <= time + Skew]_vars

-----------------------------------------------------------------------------
(* Why it holds: the parts of the inductive invariant.                      *)

Claiming == {"create", "get", "recreate", "update"}
Cleaning == {"list", "recheck", "delete"}

\* Some exchange of `a' has its claim: it returned Ok, or is cleaning up.
Claimed(a) ==
    \/ accepted[a] > 0
    \/ \E h \in Handler : task[h].pc \in Cleaning /\ task[h].assertion = a

\* What a handler holds in the sense of SingleUse.
Holding == [h \in Handler |-> IF task[h].pc \in Cleaning THEN {task[h].assertion} ELSE {}]

Promise == INSTANCE SingleUse WITH Caller <- Handler, holding <- Holding, used <- accepted

(***************************************************************************)
(* The leases of KubernetesLeaseReplayLedger keep the promise of the trait *)
(* ReplayLedger: a claim is made only when no other exchange has made one  *)
(* for the assertion and none was answered with Ok.                        *)
(***************************************************************************)
KeepsPromise == Promise!Spec

\* A lease made for `a' expires no earlier than this, on any clock.
EarliestExpiry(a) == ExpiresAt[a] + Retention - Second + 1

\* The latest true time at which `a' can pass verification.
LatestVerification(a) == ExpiresAt[a] + Leeway + Second - 1 + Skew

\* How long after verification a step can still be under way.
Budget(h) ==
    IF task[h].pc = "verified" THEN Stall
    ELSE IF task[h].pc = "create" THEN Stall + CallTimeout
    ELSE Stall + (IF task[h].pc = "get" THEN 2 * CallTimeout ELSE 3 * CallTimeout)
               + (IF task[h].attempt = 1 THEN 2 * CallTimeout ELSE 0)

Timely(h) ==
    LET a == task[h].assertion IN
    /\ task[h].pc # "idle" => time <= task[h].due
    /\ task[h].pc \in {"verified"} \cup Claiming =>
            task[h].due <= LatestVerification(a) + Budget(h)
    /\ task[h].pc \in Claiming =>
            task[h].now <= LatestVerification(a) + Stall + Skew
    /\ task[h].pc \in Claiming \cup Cleaning => task[h].now <= time + Skew

\* A resourceVersion that is still current is that of an expired lease.
Witnesses(n, version, t) ==
    /\ version \in 1 .. revision
    /\ leases[n].version = version => Expiry(leases[n]) <= t

StepsAreTimely == \A h \in Handler : Timely(h)

VersionsAreIssued == \A n \in Name : leases[n].version <= revision

HoldsWitness(h) ==
    /\ task[h].pc = "update" => Witnesses(MyName(h), task[h].seen, task[h].now)
    /\ task[h].pc = "delete" => Witnesses(task[h].victim, task[h].seen, task[h].now)

HandlersHoldWitnesses == \A h \in Handler : HoldsWitness(h)

OrphansHoldWitnesses ==
    \A q \in orphans : q.op \in {"update", "delete"} =>
        Witnesses(q.name, q.lease.version, time + Skew)

\* The record outlives the assertion's last chance to be exchanged again.
ClaimsAreRecorded ==
    \A a \in Assertion : Claimed(a) =>
        \/ /\ Present(LeaseName[a])
           /\ Expiry(leases[LeaseName[a]]) >= EarliestExpiry(a)
        \/ time + Skew >= EarliestExpiry(a)

ClaimsAreExclusive ==
    /\ \A a \in Assertion : accepted[a] <= 1
    /\ \A h \in Handler : task[h].pc \in Cleaning => accepted[task[h].assertion] = 0
    /\ \A g, h \in Handler :
          /\ task[g].pc \in Cleaning /\ task[h].pc \in Cleaning
          /\ task[g].assertion = task[h].assertion
          => g = h

(***************************************************************************)
(* The inductive invariant behind AcceptedAtMostOnce.  A claim is backed   *)
(* by a lease in the store until the assertion can no longer be on its way *)
(* to another claim; every compare-and-swap that could remove the lease    *)
(* carries the version of a lease that had expired.                        *)
(***************************************************************************)
IndInv ==
    /\ TypeOK
    /\ StepsAreTimely
    /\ VersionsAreIssued
    /\ HandlersHoldWitnesses
    /\ OrphansHoldWitnesses
    /\ ClaimsAreRecorded
    /\ ClaimsAreExclusive

=============================================================================
