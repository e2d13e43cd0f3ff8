------------------------ MODULE ReplayLedgerProofs ------------------------
(***************************************************************************)
(* Proofs about ReplayLedger, for every set of replicas, handlers, names   *)
(* and assertions and every timing that meets RetentionAssumption.         *)
(***************************************************************************)
EXTENDS ReplayLedger, TLAPS

\* Truncating to whole seconds loses less than a second.
LEMMA WholeSecondsBound ==
    ASSUME NEW t \in Int
    PROVE  /\ WholeSeconds(t) \in Int
           /\ WholeSeconds(t) <= t
           /\ t - Second + 1 <= WholeSeconds(t)
  <1>1. t % Second \in 0 .. Second - 1
    BY TimingAssumption
  <1> QED
    BY <1>1, TimingAssumption DEF WholeSeconds

\* An idle handler's state is a task.
LEMMA IdleType == Idle \in Task
  <1>1. (CHOOSE a \in Assertion : TRUE) \in Assertion
    BY NamingAssumption
  <1> QED
    BY <1>1, TimingAssumption DEF Idle, Task, NoToken

\* A lease made by Lease::new is a lease that carries no version.
LEMMA NewLeaseType ==
    ASSUME NEW a \in Assertion, NEW t \in Nat
    PROVE  /\ NewLease(a, t) \in Lease
           /\ NewLease(a, t).version = 0
           /\ Expiry(NewLease(a, t)) >= EarliestExpiry(a)
  <1>1. ExpiresAt[a] + Retention - t \in Int
    BY NamingAssumption, TimingAssumption
  <1> QED
    BY <1>1, WholeSecondsBound, NamingAssumption, TimingAssumption
       DEF NewLease, Lease, Expiry, EarliestExpiry

-----------------------------------------------------------------------------
(* Type correctness.                                                        *)

\* Suspending keeps a task a task and touches no other handler.
LEMMA AwaitStep ==
    ASSUME TypeOK, NEW h \in Handler, NEW call \in Awaits, NEW locals \in Task,
           Await(h, call, locals)
    PROVE  /\ task' \in [Handler -> Task]
           /\ \A g \in Handler \ {h} : task'[g] = task[g]
           /\ task'[h].pc = call
           /\ task'[h].due = time + CallTimeout
           /\ task'[h].assertion = locals.assertion
           /\ task'[h].now = locals.now
           /\ task'[h].attempt = locals.attempt
           /\ task'[h].seen = locals.seen
           /\ task'[h].victim = locals.victim
  <1> DEFINE t == [locals EXCEPT !.pc = call, !.due = time + CallTimeout]
  <1>1. time + CallTimeout \in Nat
    BY TimingAssumption DEF TypeOK
  <1>2. /\ t \in Task
        /\ t.pc = call /\ t.due = time + CallTimeout
        /\ t.assertion = locals.assertion /\ t.now = locals.now
        /\ t.attempt = locals.attempt /\ t.seen = locals.seen
        /\ t.victim = locals.victim
    BY <1>1 DEF Task
  <1>3. task' = [task EXCEPT ![h] = t]
    BY DEF Await
  <1> HIDE DEF t
  <1>4. task \in [Handler -> Task]
    BY DEF TypeOK
  <1>5. task'[h] = t
    BY <1>3, <1>4
  <1> QED
    BY <1>2, <1>3, <1>4, <1>5

\* So does returning from the handler.
LEMMA LeaveStep ==
    ASSUME TypeOK, NEW h \in Handler, Leave(h)
    PROVE  /\ task' \in [Handler -> Task]
           /\ task'[h] = Idle
           /\ \A g \in Handler \ {h} : task'[g] = task[g]
  BY IdleType DEF Leave, TypeOK

\* The API server stores leases, each with a version of its own.
LEMMA WriteStep ==
    ASSUME TypeOK, NEW n \in Name, NEW lease \in Lease, Write(n, lease)
    PROVE  /\ leases' \in [Name -> Lease]
           /\ revision' \in Nat
           /\ revision' = revision + 1
           /\ leases'[n].version = revision + 1
           /\ Expiry(leases'[n]) = Expiry(lease)
           /\ \A m \in Name \ {n} : leases'[m] = leases[m]
  <1>1. revision + 1 \in Nat
    BY DEF TypeOK
  <1>2. [lease EXCEPT !.version = revision + 1] \in Lease
    BY <1>1 DEF Lease
  <1> QED
    BY <1>1, <1>2 DEF Write, TypeOK, Expiry, Lease

\* Removing a lease leaves no version behind and touches no other lease.
LEMMA RemoveStep ==
    ASSUME TypeOK, NEW n \in Name, Remove(n)
    PROVE  /\ leases' \in [Name -> Lease]
           /\ revision' = revision
           /\ leases'[n].version = 0
           /\ \A m \in Name \ {n} : leases'[m] = leases[m]
  <1>1. NoLease \in Lease /\ NoLease.version = 0
    BY DEF NoLease, Lease
  <1> QED
    BY <1>1 DEF Remove, TypeOK

\* What a handler works with is typed.
LEMMA MineType ==
    ASSUME TypeOK, NEW h \in Handler
    PROVE  /\ task[h] \in Task
           /\ task[h].assertion \in Assertion
           /\ MyName(h) \in Name
           /\ MyLease(h) \in Lease
           /\ MyLease(h).version = 0
           /\ Expiry(MyLease(h)) >= EarliestExpiry(task[h].assertion)
  <1>1. task[h] \in Task
    BY DEF TypeOK
  <1>2. task[h].assertion \in Assertion /\ task[h].now \in Nat
    BY <1>1 DEF Task
  <1> QED
    BY <1>1, <1>2, NewLeaseType, NamingAssumption DEF MyName, MyLease

\* An abandoned call is a request, and carries the version its handler saw.
LEMMA InFlightType ==
    ASSUME TypeOK, NEW h \in Handler, NEW q \in InFlight(h)
    PROVE  /\ q \in Request
           /\ q.op = "update" => /\ task[h].pc = "update"
                                 /\ q.name = MyName(h)
                                 /\ q.lease.version = task[h].seen
           /\ q.op = "delete" => /\ task[h].pc = "delete"
                                 /\ q.name = task[h].victim
                                 /\ q.lease.version = task[h].seen
  <1>1. task[h] \in Task /\ task[h].seen \in Nat
    BY DEF TypeOK, Task
  <1>2. CASE task[h].pc \in {"create", "recreate"}
    <2>1. q = [op |-> "create", name |-> MyName(h), lease |-> MyLease(h)]
      BY <1>2 DEF InFlight
    <2> QED
      BY <2>1, MineType DEF Request
  <1>3. CASE task[h].pc = "update"
    <2>1. q = [op |-> "update", name |-> MyName(h),
               lease |-> [MyLease(h) EXCEPT !.version = task[h].seen]]
      BY <1>3 DEF InFlight
    <2>2. /\ [MyLease(h) EXCEPT !.version = task[h].seen] \in Lease
          /\ [MyLease(h) EXCEPT !.version = task[h].seen].version = task[h].seen
      BY <1>1, MineType DEF Lease
    <2> QED
      BY <1>3, <2>1, <2>2, MineType DEF Request
  <1>4. CASE task[h].pc = "delete"
    <2>1. q = [op |-> "delete", name |-> task[h].victim,
               lease |-> [NoLease EXCEPT !.version = task[h].seen]]
      BY <1>4 DEF InFlight
    <2>2. /\ [NoLease EXCEPT !.version = task[h].seen] \in Lease
          /\ [NoLease EXCEPT !.version = task[h].seen].version = task[h].seen
      BY <1>1 DEF Lease, NoLease
    <2>3. task[h].victim \in Name
      BY <1>4 DEF TypeOK
    <2> QED
      BY <1>4, <2>1, <2>2, <2>3 DEF Request
  <1>5. CASE task[h].pc \notin {"create", "recreate", "update", "delete"}
    BY <1>5 DEF InFlight
  <1> QED
    BY <1>2, <1>3, <1>4, <1>5

\* A call that is abandoned is a request.
LEMMA AbandonType ==
    ASSUME TypeOK, NEW h \in Handler, Abandon(h)
    PROVE  orphans' \subseteq Request
  BY InFlightType DEF Abandon, TypeOK

-----------------------------------------------------------------------------
(* What every step of a handler has in common.                              *)

Others(h) == \A g \in Handler \ {h} : task'[g] = task[g]

\* The store moves forward, and only expired leases leave it.
StoreStep ==
    /\ revision' \in Nat /\ revision <= revision'
    /\ \A n \in Name :
          /\ leases'[n].version <= revision'
          /\ \/ leases'[n] = leases[n]
             \/ /\ leases'[n].version = 0 \/ leases'[n].version > revision
                /\ Present(n) => Expiry(leases[n]) <= time + Skew

\* Neither claim nor acceptance is gained.
NoClaim(h) ==
    /\ accepted' = accepted
    /\ task'[h].pc \in Cleaning =>
          task[h].pc \in Cleaning /\ task'[h].assertion = task[h].assertion

\* A claim becomes an acceptance.
ClaimAccepted(h) ==
    /\ task[h].pc \in Cleaning
    /\ task'[h].pc \notin Cleaning
    /\ accepted' = [accepted EXCEPT ![task[h].assertion] = @ + 1]

\* A claim is made, for an assertion that nobody has claimed, and recorded.
ClaimMade(h) ==
    LET a == task[h].assertion IN
    /\ task[h].pc \in Claiming
    /\ ~Claimed(a)
    /\ accepted' = accepted
    /\ task'[h].assertion = a
    /\ leases'[LeaseName[a]].version # 0
    /\ Expiry(leases'[LeaseName[a]]) >= EarliestExpiry(a)

GoodStep(h) ==
    /\ TypeOK'
    /\ time' = time
    /\ Others(h)
    /\ StoreStep
    /\ orphans' \subseteq orphans \cup InFlight(h)
    /\ Timely(h)'
    /\ HoldsWitness(h)'
    /\ NoClaim(h) \/ ClaimAccepted(h) \/ ClaimMade(h)

\* A step that leaves the store alone is a step forward.
LEMMA StoreUnchanged ==
    ASSUME IndInv, UNCHANGED <<leases, revision>>
    PROVE  StoreStep
  BY DEF IndInv, TypeOK, VersionsAreIssued, StoreStep

\* So is writing a lease over nothing or over an expired one.
LEMMA StoreWritten ==
    ASSUME IndInv, NEW n \in Name, NEW lease \in Lease, Write(n, lease),
           Present(n) => Expiry(leases[n]) <= time + Skew
    PROVE  StoreStep
  <1>1. TypeOK /\ VersionsAreIssued
    BY DEF IndInv
  <1>2. /\ revision \in Nat
        /\ revision' \in Nat
        /\ revision' = revision + 1
        /\ leases'[n].version = revision + 1
        /\ \A m \in Name \ {n} : leases'[m] = leases[m]
    BY <1>1, WriteStep DEF TypeOK
  <1>3. \A m \in Name : leases[m].version \in Nat
    BY <1>1 DEF TypeOK, Lease
  <1> QED
    BY <1>1, <1>2, <1>3 DEF StoreStep, VersionsAreIssued

\* And so is removing an expired lease.
LEMMA StoreRemoved ==
    ASSUME IndInv, NEW n \in Name, Remove(n),
           Present(n) => Expiry(leases[n]) <= time + Skew
    PROVE  StoreStep
  <1>1. TypeOK /\ VersionsAreIssued
    BY DEF IndInv
  <1>2. /\ revision \in Nat
        /\ revision' = revision
        /\ leases'[n].version = 0
        /\ \A m \in Name \ {n} : leases'[m] = leases[m]
    BY <1>1, RemoveStep DEF TypeOK
  <1> QED
    BY <1>1, <1>2 DEF StoreStep, VersionsAreIssued

\* A handler that returns has no obligations left.
LEMMA LeaveGood ==
    ASSUME TypeOK, NEW h \in Handler, Leave(h)
    PROVE  /\ task' \in [Handler -> Task]
           /\ Others(h)
           /\ task'[h].pc = "idle"
           /\ Timely(h)'
           /\ HoldsWitness(h)'
  <1>1. task'[h] = Idle /\ Idle.pc = "idle"
    BY LeaveStep DEF Idle
  <1> QED
    BY <1>1, LeaveStep DEF Others, Timely, HoldsWitness, Claiming, Cleaning

\* TypeOK' from the parts a handler's step changes.
LEMMA TypeAfter ==
    ASSUME TypeOK, NEW h \in Handler,
           time' = time, task' \in [Handler -> Task], Others(h),
           task'[h].pc \in {"recheck", "delete"} => task'[h].victim \in Name,
           leases' \in [Name -> Lease], revision' \in Nat,
           orphans' \subseteq Request,
           cleanupContinue' \in [Replica -> Name \cup {NoToken}],
           accepted' \in [Assertion -> Nat]
    PROVE  TypeOK'
  BY DEF TypeOK, Others

\* Counting an acceptance keeps the type of the counts.
LEMMA AcceptType ==
    ASSUME TypeOK, NEW a \in Assertion
    PROVE  [accepted EXCEPT ![a] = @ + 1] \in [Assertion -> Nat]
  BY DEF TypeOK

-----------------------------------------------------------------------------
(* A good step preserves the invariant.                                     *)

\* A witness stays one while the store moves forward and time does not stop.
LEMMA WitnessKept ==
    ASSUME IndInv, StoreStep, NEW n \in Name, NEW v, NEW t, Witnesses(n, v, t)
    PROVE  Witnesses(n, v, t)'
  <1>1. revision \in Nat /\ revision' \in Nat /\ revision <= revision'
    BY DEF IndInv, TypeOK, StoreStep
  <1>2. v \in 1 .. revision /\ v \in 1 .. revision'
    BY <1>1 DEF Witnesses
  <1>3. CASE leases'[n] = leases[n]
    BY <1>2, <1>3 DEF Witnesses
  <1>4. CASE leases'[n].version = 0 \/ leases'[n].version > revision
    BY <1>1, <1>2, <1>4 DEF Witnesses
  <1> QED
    BY <1>3, <1>4 DEF StoreStep

\* A record that vanishes has expired, so its assertion can come no more.
LEMMA RecordKept ==
    ASSUME IndInv, StoreStep, TypeOK', time <= time',
           NEW a \in Assertion, Claimed(a)
    PROVE  \/ /\ Present(LeaseName[a])'
              /\ Expiry(leases[LeaseName[a]])' >= EarliestExpiry(a)
           \/ time' + Skew >= EarliestExpiry(a)
  <1> DEFINE n == LeaseName[a]
  <1>1. n \in Name
    BY NamingAssumption
  <1>2. /\ time \in Nat /\ time' \in Nat /\ Skew \in Nat
        /\ EarliestExpiry(a) \in Int
    BY NamingAssumption, TimingAssumption DEF IndInv, TypeOK, EarliestExpiry
  <1>3. Expiry(leases[n]) \in Int
    BY <1>1 DEF IndInv, TypeOK, Lease, Expiry
  <1>4. \/ Present(n) /\ Expiry(leases[n]) >= EarliestExpiry(a)
        \/ time + Skew >= EarliestExpiry(a)
    BY DEF IndInv, ClaimsAreRecorded
  <1>5. CASE leases'[n] = leases[n]
    BY <1>2, <1>4, <1>5 DEF Present
  <1>6. CASE Present(n) => Expiry(leases[n]) <= time + Skew
    BY <1>2, <1>3, <1>4, <1>6
  <1> QED
    BY <1>1, <1>5, <1>6 DEF StoreStep

\* After a good step every claim still has its record, and only one holder.
LEMMA GoodStepClaims ==
    ASSUME IndInv, NEW h \in Handler, GoodStep(h)
    PROVE  ClaimsAreRecorded' /\ ClaimsAreExclusive'
  <1>1. /\ TypeOK /\ ClaimsAreRecorded /\ ClaimsAreExclusive
        /\ TypeOK' /\ time' = time /\ StoreStep /\ Others(h)
        /\ NoClaim(h) \/ ClaimAccepted(h) \/ ClaimMade(h)
    BY DEF IndInv, GoodStep
  <1>2. time \in Nat /\ time <= time'
    BY <1>1 DEF TypeOK
  <1>3. /\ task \in [Handler -> Task] /\ accepted \in [Assertion -> Nat]
        /\ task[h].assertion \in Assertion
    BY <1>1 DEF TypeOK, Task
  <1>4. ASSUME NEW a \in Assertion, Claimed(a)',
               a # task[h].assertion \/ ~ClaimMade(h)
        PROVE  Claimed(a)
    <2>1. CASE NoClaim(h)
      BY <1>1, <1>4, <2>1 DEF NoClaim, Claimed, Others
    <2>2. CASE ClaimAccepted(h)
      BY <1>1, <1>3, <1>4, <2>2 DEF ClaimAccepted, Claimed, Others
    <2>3. CASE ClaimMade(h)
      BY <1>1, <1>4, <2>3 DEF ClaimMade, Claimed, Others
    <2> QED
      BY <1>1, <2>1, <2>2, <2>3
  <1>5. ClaimsAreRecorded'
    <2> SUFFICES ASSUME NEW a \in Assertion, Claimed(a)'
                 PROVE  \/ /\ Present(LeaseName[a])'
                           /\ Expiry(leases[LeaseName[a]])' >= EarliestExpiry(a)
                        \/ time' + Skew >= EarliestExpiry(a)
      BY DEF ClaimsAreRecorded, EarliestExpiry
    <2>1. CASE Claimed(a)
      BY <1>1, <1>2, <2>1, RecordKept
    <2>2. CASE ~Claimed(a)
      <3>1. ClaimMade(h) /\ a = task[h].assertion
        BY <1>4, <2>2
      <3> QED
        BY <3>1 DEF ClaimMade, Present
    <2> QED
      BY <2>1, <2>2
  <1>6. ClaimsAreExclusive'
    <2>1. CASE NoClaim(h)
      BY <1>1, <2>1 DEF NoClaim, ClaimsAreExclusive, Others
    <2>2. CASE ClaimAccepted(h)
      BY <1>1, <1>3, <2>2 DEF ClaimAccepted, ClaimsAreExclusive, Others, TypeOK, Task
    <2>3. CASE ClaimMade(h)
      BY <1>1, <1>3, <2>3 DEF ClaimMade, ClaimsAreExclusive, Claimed, Others
    <2> QED
      BY <1>1, <2>1, <2>2, <2>3
  <1> QED
    BY <1>5, <1>6

\* The bound on a lease's expiry only grows.
LEMMA WitnessWeaken ==
    ASSUME TypeOK, NEW n \in Name, NEW v, NEW t \in Int, NEW u \in Int, t <= u,
           Witnesses(n, v, t)
    PROVE  Witnesses(n, v, u)
  <1>1. Expiry(leases[n]) \in Int
    BY DEF TypeOK, Lease, Expiry
  <1> QED
    BY <1>1 DEF Witnesses

\* A call abandoned by a good step carries the version of an expired lease.
LEMMA GoodStepOrphans ==
    ASSUME IndInv, NEW h \in Handler, GoodStep(h)
    PROVE  OrphansHoldWitnesses'
  <1>1. /\ TypeOK /\ Timely(h) /\ HoldsWitness(h) /\ OrphansHoldWitnesses
        /\ time' = time /\ StoreStep /\ orphans' \subseteq orphans \cup InFlight(h)
    BY DEF IndInv, GoodStep, StepsAreTimely, HandlersHoldWitnesses
  <1>2. /\ time + Skew \in Int
        /\ task[h].now \in Int
        /\ orphans \subseteq Request
    BY <1>1, TimingAssumption DEF TypeOK, Task
  <1> SUFFICES ASSUME NEW q \in orphans', q.op \in {"update", "delete"}
               PROVE  Witnesses(q.name, q.lease.version, time + Skew)'
    BY DEF OrphansHoldWitnesses
  <1>3. q.name \in Name /\ Witnesses(q.name, q.lease.version, time + Skew)
    <2>1. CASE q \in orphans
      BY <1>1, <1>2, <2>1 DEF OrphansHoldWitnesses, Request
    <2>2. CASE q \in InFlight(h)
      <3>1. q \in Request /\ q.name \in Name /\ task[h].pc \in {"update", "delete"}
        BY <1>1, <2>2, InFlightType DEF Request
      <3>2. task[h].now <= time + Skew
        BY <1>1, <3>1 DEF Timely, Claiming, Cleaning
      <3>3. Witnesses(q.name, q.lease.version, task[h].now)
        BY <1>1, <2>2, <3>1, InFlightType DEF HoldsWitness
      <3> QED
        BY <1>1, <1>2, <3>1, <3>2, <3>3, WitnessWeaken
    <2> QED
      BY <1>1, <2>1, <2>2
  <1>4. PICK n, v, t : n = q.name /\ v = q.lease.version /\ t = time + Skew
    OBVIOUS
  <1>5. Witnesses(n, v, t)'
    BY <1>1, <1>3, <1>4, WitnessKept
  <1> QED
    BY <1>1, <1>4, <1>5 DEF Witnesses

\* A good step of one handler preserves the inductive invariant.
LEMMA GoodStepPreserves ==
    ASSUME IndInv, NEW h \in Handler, GoodStep(h)
    PROVE  IndInv'
  <1>1. /\ TypeOK /\ StepsAreTimely /\ HandlersHoldWitnesses
        /\ TypeOK' /\ time' = time /\ StoreStep /\ Others(h)
        /\ Timely(h)' /\ HoldsWitness(h)'
    BY DEF IndInv, GoodStep
  <1>2. StepsAreTimely'
    <2> SUFFICES ASSUME NEW g \in Handler, g # h PROVE Timely(g)'
      BY <1>1 DEF StepsAreTimely
    <2>1. Timely(g) /\ task'[g] = task[g]
      BY <1>1 DEF StepsAreTimely, Others
    <2>2. Budget(g)' = Budget(g)
      BY <2>1 DEF Budget
    <2> QED
      BY <1>1, <2>1, <2>2 DEF Timely, LatestVerification
  <1>3. HandlersHoldWitnesses'
    <2> SUFFICES ASSUME NEW g \in Handler, g # h PROVE HoldsWitness(g)'
      BY <1>1 DEF HandlersHoldWitnesses
    <2>1. HoldsWitness(g) /\ task'[g] = task[g]
      BY <1>1 DEF HandlersHoldWitnesses, Others
    <2>2. task[g].pc = "update" => Witnesses(MyName(g), task[g].seen, task[g].now)'
      <3> HAVE task[g].pc = "update"
      <3>1. Witnesses(MyName(g), task[g].seen, task[g].now) /\ MyName(g) \in Name
        BY <1>1, <2>1, MineType DEF HoldsWitness
      <3>2. PICK n, v, t : n = MyName(g) /\ v = task[g].seen /\ t = task[g].now
        OBVIOUS
      <3>3. Witnesses(n, v, t)'
        BY <1>1, <3>1, <3>2, WitnessKept
      <3>4. MyName(g)' = n
        BY <2>1, <3>2 DEF MyName
      <3> QED
        BY <2>1, <3>2, <3>3, <3>4 DEF Witnesses
    <2>3. task[g].pc = "delete" =>
              Witnesses(task[g].victim, task[g].seen, task[g].now)'
      <3> HAVE task[g].pc = "delete"
      <3>1. Witnesses(task[g].victim, task[g].seen, task[g].now) /\ task[g].victim \in Name
        BY <1>1, <2>1 DEF HoldsWitness, TypeOK
      <3>2. PICK n, v, t : n = task[g].victim /\ v = task[g].seen /\ t = task[g].now
        OBVIOUS
      <3>3. Witnesses(n, v, t)'
        BY <1>1, <3>1, <3>2, WitnessKept
      <3> QED
        BY <2>1, <3>2, <3>3 DEF Witnesses
    <2> QED
      BY <2>1, <2>2, <2>3 DEF HoldsWitness
  <1>4. VersionsAreIssued'
    BY <1>1 DEF VersionsAreIssued, StoreStep
  <1> QED
    BY <1>1, <1>2, <1>3, <1>4, GoodStepOrphans, GoodStepClaims DEF IndInv

-----------------------------------------------------------------------------
(* Every action of a handler is a good step.                                *)

\* A handler that returns without having claimed anything.
LEMMA GiveUpGood ==
    ASSUME IndInv, NEW h \in Handler, Leave(h),
           time' = time, StoreStep, accepted' = accepted,
           leases' \in [Name -> Lease],
           orphans' \subseteq Request, orphans' \subseteq orphans \cup InFlight(h),
           cleanupContinue' \in [Replica -> Name \cup {NoToken}]
    PROVE  GoodStep(h)
  <1>1. TypeOK
    BY DEF IndInv
  <1>2. /\ task' \in [Handler -> Task] /\ Others(h) /\ task'[h].pc = "idle"
        /\ Timely(h)' /\ HoldsWitness(h)'
    BY <1>1, LeaveGood
  <1>3. revision' \in Nat /\ accepted' \in [Assertion -> Nat]
    BY <1>1 DEF StoreStep, TypeOK
  <1>4. TypeOK'
    BY <1>1, <1>2, <1>3, TypeAfter
  <1>5. NoClaim(h)
    BY <1>2 DEF NoClaim, Cleaning
  <1> QED
    BY <1>2, <1>4, <1>5 DEF GoodStep

\* A handler that returns Ok after its claim.
LEMMA AcceptGood ==
    ASSUME IndInv, NEW h \in Handler, Accept(h), task[h].pc \in Cleaning,
           time' = time, StoreStep,
           leases' \in [Name -> Lease],
           orphans' \subseteq Request, orphans' \subseteq orphans \cup InFlight(h),
           cleanupContinue' \in [Replica -> Name \cup {NoToken}]
    PROVE  GoodStep(h)
  <1>1. TypeOK /\ task[h].assertion \in Assertion
    BY MineType DEF IndInv
  <1>2. /\ task' \in [Handler -> Task] /\ Others(h) /\ task'[h].pc = "idle"
        /\ Timely(h)' /\ HoldsWitness(h)'
    BY <1>1, LeaveGood DEF Accept
  <1>3. revision' \in Nat /\ accepted' \in [Assertion -> Nat]
    BY <1>1, AcceptType DEF StoreStep, Accept
  <1>4. TypeOK'
    BY <1>1, <1>2, <1>3, TypeAfter
  <1>5. ClaimAccepted(h)
    BY <1>2 DEF ClaimAccepted, Accept, Cleaning
  <1> QED
    BY <1>2, <1>4, <1>5 DEF GoodStep

\* A call of the acceptance path that follows another one.
LEMMA ClaimingAwaitGood ==
    ASSUME IndInv, NEW h \in Handler, NEW call \in Claiming, NEW locals \in Task,
           Await(h, call, locals),
           locals.assertion = task[h].assertion,
           UNCHANGED <<time, leases, revision, orphans, cleanupContinue, accepted>>,
           time <= LatestVerification(task[h].assertion) + Budget(h),
           Budget(h) + CallTimeout <= Budget(h)',
           locals.now <= LatestVerification(task[h].assertion) + Stall + Skew,
           locals.now <= time + Skew,
           HoldsWitness(h)'
    PROVE  GoodStep(h)
  <1>1. TypeOK
    BY DEF IndInv
  <1>2. call \in Awaits
    BY DEF Awaits, Claiming
  <1>3. /\ task' \in [Handler -> Task] /\ Others(h)
        /\ task'[h].pc = call /\ task'[h].due = time + CallTimeout
        /\ task'[h].assertion = task[h].assertion
        /\ task'[h].now = locals.now
    BY <1>1, <1>2, AwaitStep DEF Others
  <1>4. TypeOK'
    BY <1>1, <1>3, TypeAfter DEF TypeOK, Claiming
  <1>5. Timely(h)'
    <2>1. /\ time \in Nat /\ CallTimeout \in Nat
          /\ LatestVerification(task[h].assertion) \in Int
      BY <1>1, MineType, NamingAssumption, TimingAssumption DEF TypeOK, LatestVerification
    <2>2. Budget(h) \in Int /\ Budget(h)' \in Int
      BY TimingAssumption DEF Budget
    <2>3. LatestVerification(task[h].assertion)' = LatestVerification(task[h].assertion)
      BY <1>3 DEF LatestVerification
    <2> QED
      BY <1>3, <2>1, <2>2, <2>3 DEF Timely, Claiming, Cleaning
  <1>6. NoClaim(h)
    BY <1>3 DEF NoClaim, Claiming, Cleaning
  <1> QED
    BY <1>3, <1>4, <1>5, <1>6, StoreUnchanged DEF GoodStep

\* The limits of a handler on the acceptance path, as numbers.
LEMMA ClaimingBounds ==
    ASSUME IndInv, NEW h \in Handler, task[h].pc \in {"verified"} \cup Claiming
    PROVE  LET a == task[h].assertion IN
           /\ time \in Nat /\ LatestVerification(a) \in Int /\ Budget(h) \in Int
           /\ EarliestExpiry(a) \in Int /\ task[h].now \in Nat
           /\ time <= LatestVerification(a) + Budget(h)
           /\ Budget(h) <= Stall + 5 * CallTimeout
           /\ task[h].pc \in Claiming =>
                 /\ task[h].now <= LatestVerification(a) + Stall + Skew
                 /\ task[h].now <= time + Skew
  <1>1. TypeOK /\ Timely(h) /\ task[h].assertion \in Assertion
    BY MineType DEF IndInv, StepsAreTimely
  <1>2. /\ time \in Nat /\ LatestVerification(task[h].assertion) \in Int
        /\ EarliestExpiry(task[h].assertion) \in Int
        /\ task[h].now \in Nat /\ task[h].due \in Nat
    BY <1>1, NamingAssumption, TimingAssumption
       DEF TypeOK, Task, LatestVerification, EarliestExpiry
  <1>3. Budget(h) \in Int /\ Budget(h) <= Stall + 5 * CallTimeout
    BY TimingAssumption DEF Budget
  <1> QED
    BY <1>1, <1>2, <1>3 DEF Timely, Claiming

\* A handler about to write finds its assertion unclaimed: the record of a
\* claim would still be there and unexpired, by RetentionAssumption.
LEMMA Unclaimed ==
    ASSUME IndInv, NEW h \in Handler, task[h].pc \in Claiming,
           Present(MyName(h)) => /\ task[h].pc = "update"
                                 /\ leases[MyName(h)].version = task[h].seen
    PROVE  /\ ~Claimed(task[h].assertion)
           /\ Present(MyName(h)) => Expiry(leases[MyName(h)]) <= time + Skew
  <1> DEFINE a == task[h].assertion
             n == MyName(h)
  <1>1. TypeOK /\ a \in Assertion /\ n \in Name /\ n = LeaseName[a]
    BY MineType DEF IndInv, MyName
  <1>2. Expiry(leases[n]) \in Int
    BY <1>1 DEF TypeOK, Lease, Expiry
  <1>3. Present(n) => Expiry(leases[n]) <= task[h].now
    BY DEF IndInv, HandlersHoldWitnesses, HoldsWitness, Witnesses
  <1>4. /\ time \in Nat /\ LatestVerification(a) \in Int /\ EarliestExpiry(a) \in Int
        /\ task[h].now \in Nat
        /\ task[h].now <= LatestVerification(a) + Stall + Skew
        /\ task[h].now <= time + Skew
        /\ time <= LatestVerification(a) + Stall + 5 * CallTimeout
    BY ClaimingBounds, TimingAssumption
  <1>5. /\ Skew \in Nat /\ Stall \in Nat /\ CallTimeout \in Nat
        /\ LatestVerification(a) + Stall + 5 * CallTimeout + Skew < EarliestExpiry(a)
    BY <1>1, RetentionAssumption, TimingAssumption, NamingAssumption
       DEF LatestVerification, EarliestExpiry
  <1>6. time + Skew < EarliestExpiry(a)
    BY <1>4, <1>5
  <1>7. Present(n) => Expiry(leases[n]) < EarliestExpiry(a)
    BY <1>2, <1>3, <1>4, <1>5
  <1>8. ~Claimed(a)
    BY <1>1, <1>2, <1>4, <1>5, <1>6, <1>7 DEF IndInv, ClaimsAreRecorded
  <1> QED
    BY <1>2, <1>3, <1>4, <1>5, <1>8

\* The write that claims, with the start of clean-up.
LEMMA ClaimGood ==
    ASSUME IndInv, NEW h \in Handler, task[h].pc \in Claiming,
           Present(MyName(h)) => /\ task[h].pc = "update"
                                 /\ leases[MyName(h)].version = task[h].seen,
           Write(MyName(h), MyLease(h)), StartCleanup(h),
           UNCHANGED <<time, orphans, cleanupContinue, accepted>>
    PROVE  GoodStep(h)
  <1> DEFINE a == task[h].assertion
             n == MyName(h)
             locals == [task[h] EXCEPT !.cursor = cleanupContinue[ReplicaOf[h]],
                                       !.pages = MaxPages]
  <1>1. /\ TypeOK /\ a \in Assertion /\ n \in Name /\ n = LeaseName[a]
        /\ task[h] \in Task /\ MyLease(h) \in Lease
        /\ Expiry(MyLease(h)) >= EarliestExpiry(a)
    BY MineType DEF IndInv, MyName
  <1>2. ~Claimed(a) /\ StoreStep
    BY <1>1, Unclaimed, StoreWritten
  <1>3. /\ leases' \in [Name -> Lease] /\ revision' \in Nat
        /\ leases'[n].version # 0
        /\ Expiry(leases'[n]) = Expiry(MyLease(h))
    BY <1>1, WriteStep DEF TypeOK
  <1>4. /\ locals \in Task /\ locals.assertion = a /\ locals.now = task[h].now
    <2>1. cleanupContinue[ReplicaOf[h]] \in Name \cup {NoToken}
      BY <1>1, NamingAssumption DEF TypeOK
    <2>2. MaxPages \in 0 .. MaxPages
      BY TimingAssumption
    <2> QED
      BY <1>1, <2>1, <2>2 DEF Task
  <1>5. Await(h, "list", locals) /\ "list" \in Awaits
    BY DEF StartCleanup, Awaits
  <1> HIDE DEF locals
  <1>6. /\ task' \in [Handler -> Task] /\ Others(h)
        /\ task'[h].pc = "list" /\ task'[h].due = time + CallTimeout
        /\ task'[h].assertion = a /\ task'[h].now = task[h].now
    BY <1>1, <1>4, <1>5, AwaitStep DEF Others
  <1>7. TypeOK'
    BY <1>1, <1>3, <1>6, TypeAfter DEF TypeOK
  <1>8. Timely(h)' /\ HoldsWitness(h)'
    <2>1. /\ time \in Nat /\ CallTimeout \in Nat /\ task[h].now <= time + Skew
      BY ClaimingBounds, TimingAssumption
    <2> QED
      BY <1>6, <2>1 DEF Timely, HoldsWitness, Claiming, Cleaning
  <1>9. ClaimMade(h)
    BY <1>1, <1>2, <1>3, <1>6 DEF ClaimMade
  <1> QED
    BY <1>2, <1>6, <1>7, <1>8, <1>9 DEF GoodStep

\* A call of clean-up that follows another one.
LEMMA CleaningAwaitGood ==
    ASSUME IndInv, NEW h \in Handler, task[h].pc \in Cleaning,
           task' \in [Handler -> Task], Others(h), task'[h].pc \in Cleaning,
           task'[h].assertion = task[h].assertion, task'[h].now = task[h].now,
           task'[h].due = time + CallTimeout,
           task'[h].pc # "list" => task'[h].victim \in Name,
           HoldsWitness(h)',
           UNCHANGED <<time, leases, revision, orphans, accepted>>,
           cleanupContinue' \in [Replica -> Name \cup {NoToken}]
    PROVE  GoodStep(h)
  <1>1. TypeOK /\ Timely(h)
    BY DEF IndInv, StepsAreTimely
  <1>2. TypeOK'
    BY <1>1, TypeAfter DEF TypeOK, Cleaning
  <1>3. Timely(h)'
    <2>1. time \in Nat /\ CallTimeout \in Nat /\ task[h].now <= time + Skew
      BY <1>1, TimingAssumption DEF TypeOK, Timely
    <2> QED
      BY <2>1 DEF Timely, Claiming, Cleaning
  <1> QED
    BY <1>2, <1>3, StoreUnchanged DEF GoodStep, NoClaim

\* Verification starts the time budget of an exchange.
LEMMA VerifyGood ==
    ASSUME IndInv, NEW h \in Handler, Verify(h)
    PROVE  GoodStep(h)
  <1>1. TypeOK /\ task[h].pc = "idle"
    BY DEF IndInv, Verify
  <1>2. PICK a \in Assertion, c \in Clock :
            /\ WholeSeconds(c) <= ExpiresAt[a] + Leeway
            /\ task' = [task EXCEPT ![h] = [Idle EXCEPT !.pc = "verified",
                                                        !.assertion = a,
                                                        !.due = time + Stall]]
    BY DEF Verify
  <1> DEFINE t == [Idle EXCEPT !.pc = "verified", !.assertion = a, !.due = time + Stall]
  <1>3. time \in Nat /\ time + Stall \in Nat /\ Stall \in Nat
    BY <1>1, TimingAssumption DEF TypeOK
  <1>4. t \in Task /\ t.pc = "verified" /\ t.assertion = a /\ t.due = time + Stall
    BY <1>3, IdleType DEF Task
  <1> HIDE DEF t
  <1>5. task' \in [Handler -> Task] /\ Others(h) /\ task'[h] = t
    BY <1>1, <1>2, <1>4 DEF TypeOK, Others, t
  <1>6. UNCHANGED <<time, leases, revision, orphans, cleanupContinue, accepted>>
    BY DEF Verify
  <1>7. TypeOK'
    BY <1>1, <1>4, <1>5, <1>6, TypeAfter DEF TypeOK
  <1>8. time <= LatestVerification(a)
    <2>1. c \in Int /\ time <= c + Skew
      BY <1>3, TimingAssumption DEF Clock
    <2>2. c <= WholeSeconds(c) + Second - 1 /\ WholeSeconds(c) \in Int
      BY <2>1, WholeSecondsBound, TimingAssumption
    <2> QED
      BY <1>2, <1>3, <2>1, <2>2, NamingAssumption, TimingAssumption DEF LatestVerification
  <1>9. Timely(h)' /\ HoldsWitness(h)'
    <2>1. Budget(h)' = Stall
      BY <1>4, <1>5 DEF Budget
    <2>2. LatestVerification(a) \in Int
      BY NamingAssumption, TimingAssumption DEF LatestVerification
    <2> QED
      BY <1>3, <1>4, <1>5, <1>6, <1>8, <2>1, <2>2
         DEF Timely, HoldsWitness, Claiming, Cleaning, LatestVerification
  <1> QED
    BY <1>4, <1>5, <1>6, <1>7, <1>9, StoreUnchanged DEF GoodStep, NoClaim, Cleaning

\* use_once reads its clock within the stall after verification.
LEMMA UseOnceGood ==
    ASSUME IndInv, NEW h \in Handler, UseOnce(h)
    PROVE  GoodStep(h)
  <1>1. TypeOK /\ task[h].pc = "verified" /\ task[h] \in Task
    BY MineType DEF IndInv, UseOnce
  <1>2. UNCHANGED <<time, leases, revision, orphans, cleanupContinue, accepted>>
    BY DEF UseOnce
  <1>3. CASE Leave(h)
    BY <1>1, <1>2, <1>3, StoreUnchanged, GiveUpGood DEF TypeOK
  <1>4. ASSUME NEW c \in Clock, Await(h, "create", [task[h] EXCEPT !.now = c])
        PROVE  GoodStep(h)
    <2> DEFINE locals == [task[h] EXCEPT !.now = c]
    <2>1. c \in Nat /\ c <= time + Skew
      BY <1>1, TimingAssumption DEF Clock, TypeOK
    <2>2. /\ locals \in Task /\ locals.assertion = task[h].assertion
          /\ locals.now = c
      BY <1>1, <2>1 DEF Task
    <2>3. Await(h, "create", locals) /\ "create" \in Awaits /\ "create" \in Claiming
      BY <1>4 DEF Awaits, Claiming
    <2> HIDE DEF locals
    <2>4. task'[h].pc = "create"
      BY <1>1, <2>2, <2>3, AwaitStep
    <2>5. Budget(h) = Stall /\ Budget(h)' = Stall + CallTimeout
      BY <1>1, <2>4, TimingAssumption DEF Budget
    <2>6. HoldsWitness(h)'
      BY <2>4 DEF HoldsWitness
    <2>7. /\ c <= LatestVerification(task[h].assertion) + Stall + Skew
          /\ time <= LatestVerification(task[h].assertion) + Budget(h)
      BY <1>1, <2>1, <2>5, ClaimingBounds, TimingAssumption
    <2>8. Budget(h) + CallTimeout <= Budget(h)'
      BY <2>5, TimingAssumption
    <2> QED
      BY <1>2, <2>1, <2>2, <2>3, <2>6, <2>7, <2>8, ClaimingAwaitGood
  <1> QED
    BY <1>3, <1>4 DEF UseOnce

\* The POST makes a claim, or finds a lease and goes on to reclaim_expired.
LEMMA CreateServedGood ==
    ASSUME IndInv, NEW h \in Handler, CreateServed(h)
    PROVE  GoodStep(h)
  <1>1. TypeOK /\ task[h].pc = "create" /\ task[h] \in Task /\ task[h].pc \in Claiming
    BY MineType DEF IndInv, CreateServed, Claiming
  <1>2. CASE ~Present(MyName(h)) /\ Write(MyName(h), MyLease(h)) /\ StartCleanup(h)
    BY <1>1, <1>2, ClaimGood DEF CreateServed
  <1>3. CASE /\ Await(h, "get", [task[h] EXCEPT !.attempt = 0])
             /\ UNCHANGED <<leases, revision>>
    <2> DEFINE locals == [task[h] EXCEPT !.attempt = 0]
    <2>1. /\ locals \in Task /\ locals.assertion = task[h].assertion
          /\ locals.now = task[h].now /\ locals.attempt = 0
      BY <1>1 DEF Task
    <2>2. Await(h, "get", locals) /\ "get" \in Awaits /\ "get" \in Claiming
      BY <1>3 DEF Awaits, Claiming
    <2> HIDE DEF locals
    <2>3. task'[h].pc = "get" /\ task'[h].attempt = 0
      BY <1>1, <2>1, <2>2, AwaitStep
    <2>4. Budget(h) = Stall + CallTimeout /\ Budget(h)' = Stall + 2 * CallTimeout
      BY <1>1, <2>3, TimingAssumption DEF Budget
    <2>5. HoldsWitness(h)'
      BY <2>3 DEF HoldsWitness
    <2>6. Budget(h) + CallTimeout <= Budget(h)'
      BY <2>4, TimingAssumption
    <2>7. UNCHANGED <<time, leases, revision, orphans, cleanupContinue, accepted>>
      BY <1>3 DEF CreateServed
    <2> QED
      BY <1>1, <2>1, <2>2, <2>5, <2>6, <2>7, ClaimingBounds, ClaimingAwaitGood
  <1> QED
    BY <1>2, <1>3 DEF CreateServed

\* The GET of reclaim_expired witnesses the version of an expired lease.
LEMMA GetServedGood ==
    ASSUME IndInv, NEW h \in Handler, GetServed(h)
    PROVE  GoodStep(h)
  <1> DEFINE n == MyName(h)
  <1>1. /\ TypeOK /\ task[h].pc = "get" /\ task[h] \in Task /\ task[h].pc \in Claiming
        /\ n \in Name /\ leases[n] \in Lease /\ task[h].attempt \in {0, 1}
    BY MineType DEF IndInv, GetServed, Claiming, TypeOK, Task
  <1>2. UNCHANGED <<time, leases, revision, orphans, cleanupContinue, accepted>>
    BY DEF GetServed
  <1>3. Budget(h) = IF task[h].attempt = 0 THEN Stall + 2 * CallTimeout
                                           ELSE Stall + 4 * CallTimeout
    BY <1>1, TimingAssumption DEF Budget
  <1>4. CASE Await(h, "recreate", task[h])
    <2>1. "recreate" \in Awaits /\ "recreate" \in Claiming
      BY DEF Awaits, Claiming
    <2>2. task'[h].pc = "recreate" /\ task'[h].attempt = task[h].attempt
      BY <1>1, <1>4, <2>1, AwaitStep
    <2>3. Budget(h)' = IF task[h].attempt = 0 THEN Stall + 3 * CallTimeout
                                              ELSE Stall + 5 * CallTimeout
      BY <1>1, <2>2, TimingAssumption DEF Budget
    <2>4. Budget(h) + CallTimeout <= Budget(h)'
      BY <1>3, <2>3, TimingAssumption
    <2>5. HoldsWitness(h)'
      BY <2>2 DEF HoldsWitness
    <2> QED
      BY <1>1, <1>2, <1>4, <2>1, <2>4, <2>5, ClaimingBounds, ClaimingAwaitGood
  <1>5. CASE Leave(h)
    BY <1>1, <1>2, <1>5, StoreUnchanged, GiveUpGood DEF TypeOK
  <1>6. CASE /\ Present(n) /\ Expired(leases[n], task[h].now)
             /\ Await(h, "update", [task[h] EXCEPT !.seen = leases[n].version])
    <2> DEFINE locals == [task[h] EXCEPT !.seen = leases[n].version]
    <2>1. leases[n].version \in Nat
      BY <1>1 DEF Lease
    <2>2. /\ locals \in Task /\ locals.assertion = task[h].assertion
          /\ locals.now = task[h].now /\ locals.attempt = task[h].attempt
          /\ locals.seen = leases[n].version
      BY <1>1, <2>1 DEF Task
    <2>3. Await(h, "update", locals) /\ "update" \in Awaits /\ "update" \in Claiming
      BY <1>6 DEF Awaits, Claiming
    <2> HIDE DEF locals
    <2>4. /\ task'[h].pc = "update" /\ task'[h].attempt = task[h].attempt
          /\ task'[h].seen = leases[n].version /\ task'[h].now = task[h].now
          /\ task'[h].assertion = task[h].assertion
      BY <1>1, <2>2, <2>3, AwaitStep
    <2>5. Budget(h)' = IF task[h].attempt = 0 THEN Stall + 3 * CallTimeout
                                              ELSE Stall + 5 * CallTimeout
      BY <1>1, <2>4, TimingAssumption DEF Budget
    <2>6. Budget(h) + CallTimeout <= Budget(h)'
      BY <1>3, <2>5, TimingAssumption
    <2>7. HoldsWitness(h)'
      <3>1. leases[n].version \in 1 .. revision
        BY <1>1, <1>6, <2>1 DEF IndInv, VersionsAreIssued, Present, TypeOK
      <3>2. MyName(h)' = n
        BY <2>4 DEF MyName
      <3> QED
        BY <1>2, <1>6, <2>4, <3>1, <3>2 DEF HoldsWitness, Witnesses, Expired
    <2> QED
      BY <1>1, <1>2, <2>2, <2>3, <2>6, <2>7, ClaimingBounds, ClaimingAwaitGood
  <1> QED
    BY <1>4, <1>5, <1>6 DEF GetServed

\* The second POST makes a claim or fails.
LEMMA RecreateServedGood ==
    ASSUME IndInv, NEW h \in Handler, RecreateServed(h)
    PROVE  GoodStep(h)
  <1>1. TypeOK /\ task[h].pc = "recreate" /\ task[h].pc \in Claiming
    BY DEF IndInv, RecreateServed, Claiming
  <1>2. CASE ~Present(MyName(h)) /\ Write(MyName(h), MyLease(h)) /\ StartCleanup(h)
    BY <1>1, <1>2, ClaimGood DEF RecreateServed
  <1>3. CASE Leave(h) /\ UNCHANGED <<leases, revision>>
    BY <1>1, <1>3, StoreUnchanged, GiveUpGood DEF RecreateServed, TypeOK
  <1> QED
    BY <1>2, <1>3 DEF RecreateServed

\* The PUT makes a claim over the expired lease it witnessed.
LEMMA UpdateServedGood ==
    ASSUME IndInv, NEW h \in Handler, UpdateServed(h)
    PROVE  GoodStep(h)
  BY ClaimGood DEF UpdateServed, Claiming

\* A refused PUT is retried once, within the budget.
LEMMA UpdateConflictGood ==
    ASSUME IndInv, NEW h \in Handler, UpdateConflict(h)
    PROVE  GoodStep(h)
  <1>1. TypeOK /\ task[h].pc = "update" /\ task[h] \in Task /\ task[h].pc \in Claiming
    BY MineType DEF IndInv, UpdateConflict, Claiming
  <1>2. UNCHANGED <<time, leases, revision, orphans, cleanupContinue, accepted>>
    BY DEF UpdateConflict
  <1>3. CASE task[h].attempt = 0 /\ Await(h, "get", [task[h] EXCEPT !.attempt = 1])
    <2> DEFINE locals == [task[h] EXCEPT !.attempt = 1]
    <2>1. /\ locals \in Task /\ locals.assertion = task[h].assertion
          /\ locals.now = task[h].now /\ locals.attempt = 1
      BY <1>1 DEF Task
    <2>2. Await(h, "get", locals) /\ "get" \in Awaits /\ "get" \in Claiming
      BY <1>3 DEF Awaits, Claiming
    <2> HIDE DEF locals
    <2>3. task'[h].pc = "get" /\ task'[h].attempt = 1
      BY <1>1, <2>1, <2>2, AwaitStep
    <2>4. Budget(h) + CallTimeout <= Budget(h)'
      BY <1>1, <1>3, <2>3, TimingAssumption DEF Budget
    <2>5. HoldsWitness(h)'
      BY <2>3 DEF HoldsWitness
    <2> QED
      BY <1>1, <1>2, <2>1, <2>2, <2>4, <2>5, ClaimingBounds, ClaimingAwaitGood
  <1>4. CASE Leave(h)
    BY <1>1, <1>2, <1>4, StoreUnchanged, GiveUpGood DEF TypeOK
  <1> QED
    BY <1>3, <1>4 DEF UpdateConflict

\* The API server may create what it was asked to update; nobody counts it.
LEMMA UpdateUpsertedGood ==
    ASSUME IndInv, NEW h \in Handler, UpdateUpserted(h)
    PROVE  GoodStep(h)
  <1>1. TypeOK /\ MyName(h) \in Name /\ MyLease(h) \in Lease
    BY MineType DEF IndInv
  <1>2. /\ Write(MyName(h), MyLease(h)) /\ ~Present(MyName(h)) /\ Leave(h)
        /\ UNCHANGED <<time, orphans, cleanupContinue, accepted>>
    BY DEF UpdateUpserted
  <1>3. StoreStep /\ leases' \in [Name -> Lease]
    BY <1>1, <1>2, StoreWritten, WriteStep
  <1> QED
    BY <1>1, <1>2, <1>3, GiveUpGood DEF TypeOK

\* Abandoning a call leaves the store alone.
LEMMA AbandonGood ==
    ASSUME IndInv, NEW h \in Handler, Abandon(h)
    PROVE  /\ StoreStep /\ leases' \in [Name -> Lease]
           /\ orphans' \subseteq Request /\ orphans' \subseteq orphans \cup InFlight(h)
  <1>1. TypeOK /\ UNCHANGED <<leases, revision>>
    BY DEF IndInv, Abandon
  <1>2. orphans' \subseteq orphans \cup InFlight(h)
    BY DEF Abandon
  <1> QED
    BY <1>1, <1>2, AbandonType, StoreUnchanged DEF TypeOK

\* A failed call ends the exchange without a claim.
LEMMA CallFailedGood ==
    ASSUME IndInv, NEW h \in Handler, CallFailed(h) \/ Cancel(h)
    PROVE  GoodStep(h)
  <1>1. TypeOK /\ Abandon(h) /\ Leave(h) /\ UNCHANGED <<time, cleanupContinue, accepted>>
    BY DEF IndInv, CallFailed, Cancel
  <1> QED
    BY <1>1, AbandonGood, GiveUpGood DEF TypeOK

\* The end of a page, however it is reached.
LEMMA NextPageGood ==
    ASSUME IndInv, NEW h \in Handler, task[h].pc \in Cleaning,
           NEW next \in Name \cup {NoToken}, NextPage(h, next),
           UNCHANGED <<time, leases, revision, orphans>>,
           cleanupContinue' \in [Replica -> Name \cup {NoToken}]
    PROVE  GoodStep(h)
  <1>1. TypeOK
    BY DEF IndInv
  <1>2. CASE Accept(h)
    BY <1>1, <1>2, StoreUnchanged, AcceptGood DEF TypeOK
  <1>3. CASE ~Accept(h)
    <2>1. /\ task' \in [Handler -> Task] /\ Others(h)
          /\ task'[h].pc = "list"
          /\ task'[h].assertion = task[h].assertion
          /\ task'[h].now = task[h].now
          /\ task'[h].due = time + CallTimeout
          /\ accepted' = accepted
      <3> DEFINE locals == [task[h] EXCEPT !.cursor = next, !.pages = @ - 1]
      <3>1. task[h].pages > 1 /\ Await(h, "list", locals) /\ accepted' = accepted
        BY <1>3 DEF NextPage
      <3>2. "list" \in Awaits /\ task[h] \in Task
        BY <1>1, MineType DEF Awaits
      <3>3. /\ locals \in Task /\ locals.assertion = task[h].assertion
            /\ locals.now = task[h].now
        <4>1. task[h].pages - 1 \in 0 .. MaxPages
          <5>1. task[h].pages \in 0 .. MaxPages
            BY <3>2 DEF Task
          <5> QED
            BY <3>1, <5>1, TimingAssumption
        <4> QED
          BY <3>2, <4>1 DEF Task
      <3> HIDE DEF locals
      <3> QED
        BY <1>1, <3>1, <3>2, <3>3, AwaitStep DEF Others
    <2>2. HoldsWitness(h)' /\ task'[h].pc \in Cleaning
      BY <2>1 DEF HoldsWitness, Cleaning
    <2> QED
      BY <2>1, <2>2, CleaningAwaitGood
  <1> QED
    BY <1>2, <1>3

\* A served list advances the token and may select a lease.
LEMMA ListServedGood ==
    ASSUME IndInv, NEW h \in Handler, ListServed(h)
    PROVE  GoodStep(h)
  <1>1. /\ TypeOK /\ task[h].pc = "list" /\ task[h] \in Task
        /\ task[h].pc \in Cleaning /\ ReplicaOf[h] \in Replica
    BY MineType, NamingAssumption DEF IndInv, ListServed, Cleaning
  <1>2. PICK next \in NextTokens(task[h].cursor) :
          /\ cleanupContinue' = [cleanupContinue EXCEPT ![ReplicaOf[h]] = next]
          /\ \/ NextPage(h, next)
             \/ \E v \in FirstExpired(task[h].cursor, task[h].now) :
                /\ Await(h, "recheck", [task[h] EXCEPT !.victim = v, !.cursor = next])
                /\ UNCHANGED accepted
    BY DEF ListServed
  <1>3. next \in Name \cup {NoToken}
    BY DEF NextTokens, Page, Listed
  <1>4. /\ cleanupContinue' \in [Replica -> Name \cup {NoToken}]
        /\ UNCHANGED <<time, leases, revision, orphans>>
    BY <1>1, <1>2, <1>3 DEF TypeOK, ListServed
  <1>5. CASE NextPage(h, next)
    BY <1>1, <1>3, <1>4, <1>5, NextPageGood
  <1>6. ASSUME NEW v \in FirstExpired(task[h].cursor, task[h].now),
               Await(h, "recheck", [task[h] EXCEPT !.victim = v, !.cursor = next]),
               UNCHANGED accepted
        PROVE  GoodStep(h)
    <2> DEFINE locals == [task[h] EXCEPT !.victim = v, !.cursor = next]
    <2>1. v \in Name
      BY DEF FirstExpired, Page, Listed
    <2>2. /\ locals \in Task /\ locals.assertion = task[h].assertion
          /\ locals.now = task[h].now /\ locals.victim = v
      BY <1>1, <1>3, <2>1 DEF Task
    <2>3. Await(h, "recheck", locals) /\ "recheck" \in Awaits /\ "recheck" \in Cleaning
      BY <1>6 DEF Awaits, Cleaning
    <2> HIDE DEF locals
    <2>4. /\ task' \in [Handler -> Task] /\ Others(h)
          /\ task'[h].pc = "recheck" /\ task'[h].due = time + CallTimeout
          /\ task'[h].assertion = task[h].assertion /\ task'[h].now = task[h].now
          /\ task'[h].victim = v
      BY <1>1, <2>2, <2>3, AwaitStep DEF Others
    <2>5. HoldsWitness(h)'
      BY <2>4 DEF HoldsWitness
    <2> QED
      BY <1>1, <1>4, <1>6, <2>1, <2>3, <2>4, <2>5, CleaningAwaitGood
  <1> QED
    BY <1>2, <1>5, <1>6

\* A failed list resets the token and accepts.
LEMMA ListFailedGood ==
    ASSUME IndInv, NEW h \in Handler, ListFailed(h)
    PROVE  GoodStep(h)
  <1>1. TypeOK /\ task[h].pc \in Cleaning /\ ReplicaOf[h] \in Replica /\ Accept(h)
    BY NamingAssumption DEF IndInv, ListFailed, Cleaning
  <1>2. /\ cleanupContinue' \in [Replica -> Name \cup {NoToken}]
        /\ UNCHANGED <<time, leases, revision, orphans>>
    BY <1>1 DEF TypeOK, ListFailed
  <1> QED
    BY <1>1, <1>2, StoreUnchanged, AcceptGood DEF TypeOK

\* The re-read witnesses the version of an expired lease.
LEMMA RecheckServedGood ==
    ASSUME IndInv, NEW h \in Handler, RecheckServed(h)
    PROVE  GoodStep(h)
  <1> DEFINE n == task[h].victim
  <1>1. /\ TypeOK /\ task[h].pc = "recheck" /\ task[h] \in Task
        /\ task[h].pc \in Cleaning /\ n \in Name /\ leases[n] \in Lease
        /\ task[h].cursor \in Name \cup {NoToken}
    BY MineType DEF IndInv, RecheckServed, Cleaning, TypeOK, Task
  <1>2. /\ UNCHANGED <<time, leases, revision, orphans>>
        /\ cleanupContinue' \in [Replica -> Name \cup {NoToken}]
    BY <1>1 DEF RecheckServed, TypeOK
  <1>3. CASE NextPage(h, task[h].cursor)
    BY <1>1, <1>2, <1>3, NextPageGood
  <1>4. CASE /\ Present(n) /\ Expired(leases[n], task[h].now)
             /\ Await(h, "delete", [task[h] EXCEPT !.seen = leases[n].version])
             /\ UNCHANGED accepted
    <2> DEFINE locals == [task[h] EXCEPT !.seen = leases[n].version]
    <2>1. leases[n].version \in Nat
      BY <1>1 DEF Lease
    <2>2. /\ locals \in Task /\ locals.assertion = task[h].assertion
          /\ locals.now = task[h].now /\ locals.victim = n
          /\ locals.seen = leases[n].version
      BY <1>1, <2>1 DEF Task
    <2>3. Await(h, "delete", locals) /\ "delete" \in Awaits /\ "delete" \in Cleaning
      BY <1>4 DEF Awaits, Cleaning
    <2> HIDE DEF locals
    <2>4. /\ task' \in [Handler -> Task] /\ Others(h)
          /\ task'[h].pc = "delete" /\ task'[h].due = time + CallTimeout
          /\ task'[h].assertion = task[h].assertion /\ task'[h].now = task[h].now
          /\ task'[h].victim = n /\ task'[h].seen = leases[n].version
      BY <1>1, <2>2, <2>3, AwaitStep DEF Others
    <2>5. HoldsWitness(h)'
      <3>1. leases[n].version \in 1 .. revision
        BY <1>1, <1>4, <2>1 DEF IndInv, VersionsAreIssued, Present, TypeOK
      <3> QED
        BY <1>2, <1>4, <2>4, <3>1 DEF HoldsWitness, Witnesses, Expired
    <2> QED
      BY <1>1, <1>2, <1>4, <2>3, <2>4, <2>5, CleaningAwaitGood
  <1> QED
    BY <1>3, <1>4 DEF RecheckServed

\* A failed re-read leaves the lease alone.
LEMMA RecheckFailedGood ==
    ASSUME IndInv, NEW h \in Handler, RecheckFailed(h)
    PROVE  GoodStep(h)
  <1>1. /\ TypeOK /\ task[h].pc \in Cleaning
        /\ task[h].cursor \in Name \cup {NoToken}
    BY DEF IndInv, RecheckFailed, Cleaning, TypeOK, Task
  <1>2. /\ UNCHANGED <<time, leases, revision, orphans>>
        /\ cleanupContinue' \in [Replica -> Name \cup {NoToken}]
    BY <1>1 DEF RecheckFailed, TypeOK
  <1> QED
    BY <1>1, <1>2, NextPageGood DEF RecheckFailed

\* The DELETE removes only the expired version it witnessed.
LEMMA DeleteServedGood ==
    ASSUME IndInv, NEW h \in Handler, DeleteServed(h)
    PROVE  GoodStep(h)
  <1> DEFINE n == task[h].victim
  <1>1. /\ TypeOK /\ task[h].pc = "delete" /\ task[h].pc \in Cleaning /\ n \in Name
        /\ Accept(h) /\ UNCHANGED <<time, orphans, cleanupContinue>>
    BY DEF IndInv, DeleteServed, Cleaning, TypeOK
  <1>2. StoreStep /\ leases' \in [Name -> Lease]
    <2>1. CASE leases[n].version = task[h].seen /\ Remove(n)
      <3>1. Expiry(leases[n]) <= task[h].now
        BY <1>1, <2>1 DEF IndInv, HandlersHoldWitnesses, HoldsWitness, Witnesses
      <3>2. task[h].now <= time + Skew
        BY <1>1 DEF IndInv, StepsAreTimely, Timely
      <3>3. Expiry(leases[n]) \in Int /\ task[h].now \in Int /\ time + Skew \in Int
        BY <1>1, TimingAssumption DEF TypeOK, Lease, Expiry, Task
      <3>4. Expiry(leases[n]) <= time + Skew
        BY <3>1, <3>2, <3>3
      <3> QED
        BY <1>1, <2>1, <3>4, StoreRemoved, RemoveStep
    <2>2. CASE UNCHANGED <<leases, revision>>
      BY <1>1, <2>2, StoreUnchanged DEF TypeOK
    <2> QED
      BY <2>1, <2>2 DEF DeleteServed
  <1> QED
    BY <1>1, <1>2, AcceptGood DEF TypeOK

\* A failed DELETE may still be applied later.
LEMMA DeleteFailedGood ==
    ASSUME IndInv, NEW h \in Handler, DeleteFailed(h)
    PROVE  GoodStep(h)
  <1>1. /\ TypeOK /\ task[h].pc \in Cleaning /\ Abandon(h) /\ Accept(h)
        /\ UNCHANGED <<time, cleanupContinue>>
    BY DEF IndInv, DeleteFailed, Cleaning
  <1> QED
    BY <1>1, AbandonGood, AcceptGood DEF TypeOK

\* Every step of a handler is a good step.
LEMMA StepGood ==
    ASSUME IndInv, NEW h \in Handler, Step(h)
    PROVE  GoodStep(h)
  BY VerifyGood, UseOnceGood, CreateServedGood, GetServedGood, RecreateServedGood,
     UpdateServedGood, UpdateConflictGood, UpdateUpsertedGood, CallFailedGood,
     ListServedGood, ListFailedGood, RecheckServedGood, RecheckFailedGood,
     DeleteServedGood, DeleteFailedGood
     DEF Step

-----------------------------------------------------------------------------
(* The environment.                                                         *)

\* A step that claims nothing: handlers go on or are gone, time may pass.
LEMMA QuietStep ==
    ASSUME IndInv, TypeOK', time <= time', StoreStep, accepted' = accepted,
           orphans' \subseteq orphans,
           \A g \in Handler : task'[g] = task[g] \/ task'[g].pc = "idle",
           StepsAreTimely'
    PROVE  IndInv'
  <1>1. /\ TypeOK /\ HandlersHoldWitnesses /\ OrphansHoldWitnesses
        /\ ClaimsAreRecorded /\ ClaimsAreExclusive
    BY DEF IndInv
  <1>2. VersionsAreIssued'
    BY DEF VersionsAreIssued, StoreStep
  <1>3. HandlersHoldWitnesses'
    <2> SUFFICES ASSUME NEW g \in Handler, task'[g] = task[g] PROVE HoldsWitness(g)'
      BY DEF HandlersHoldWitnesses, HoldsWitness
    <2>1. HoldsWitness(g)
      BY <1>1 DEF HandlersHoldWitnesses
    <2>2. PICK m, n, v, t : /\ m = MyName(g) /\ n = task[g].victim
                            /\ v = task[g].seen /\ t = task[g].now
      OBVIOUS
    <2>3. task[g].pc = "update" => Witnesses(m, v, t)'
      BY <1>1, <2>1, <2>2, MineType, WitnessKept DEF HoldsWitness
    <2>4. task[g].pc = "delete" => Witnesses(n, v, t)'
      BY <1>1, <2>1, <2>2, WitnessKept DEF HoldsWitness, TypeOK
    <2>5. MyName(g)' = m
      BY <2>2 DEF MyName
    <2> QED
      BY <2>2, <2>3, <2>4, <2>5 DEF HoldsWitness, Witnesses
  <1>4. OrphansHoldWitnesses'
    <2> SUFFICES ASSUME NEW q \in orphans', q.op \in {"update", "delete"}
                 PROVE  Witnesses(q.name, q.lease.version, time + Skew)'
      BY DEF OrphansHoldWitnesses
    <2>1. q.name \in Name /\ Witnesses(q.name, q.lease.version, time + Skew)
      BY <1>1 DEF OrphansHoldWitnesses, TypeOK, Request
    <2>2. /\ time + Skew \in Int /\ time' + Skew \in Int
          /\ time + Skew <= time' + Skew
      BY <1>1, TimingAssumption DEF TypeOK
    <2>3. PICK n, v, t : n = q.name /\ v = q.lease.version /\ t = time' + Skew
      OBVIOUS
    <2>4. Witnesses(n, v, t)'
      BY <1>1, <2>1, <2>2, <2>3, WitnessWeaken, WitnessKept
    <2> QED
      BY <2>3, <2>4 DEF Witnesses
  <1>5. ClaimsAreRecorded'
    <2> SUFFICES ASSUME NEW a \in Assertion, Claimed(a)'
                 PROVE  \/ /\ Present(LeaseName[a])'
                           /\ Expiry(leases[LeaseName[a]])' >= EarliestExpiry(a)
                        \/ time' + Skew >= EarliestExpiry(a)
      BY DEF ClaimsAreRecorded, EarliestExpiry
    <2>1. Claimed(a)
      BY DEF Claimed, Cleaning
    <2> QED
      BY <2>1, RecordKept
  <1>6. ClaimsAreExclusive'
    BY <1>1 DEF ClaimsAreExclusive, Cleaning
  <1> QED
    BY <1>2, <1>3, <1>4, <1>5, <1>6 DEF IndInv

\* Idle or unchanged handlers stay in time when time stands still.
LEMMA TimelyKept ==
    ASSUME IndInv, time' = time,
           \A g \in Handler : task'[g] = task[g] \/ task'[g].pc = "idle"
    PROVE  StepsAreTimely'
  <1> SUFFICES ASSUME NEW g \in Handler PROVE Timely(g)'
    BY DEF StepsAreTimely
  <1>1. CASE task'[g].pc = "idle"
    BY <1>1 DEF Timely, Claiming, Cleaning
  <1>2. CASE task'[g] = task[g]
    <2>1. Budget(g)' = Budget(g)
      BY <1>2 DEF Budget
    <2> QED
      BY <1>2, <2>1 DEF IndInv, StepsAreTimely, Timely, LatestVerification
  <1> QED
    BY <1>1, <1>2

\* A late call that is applied moves the store forward.
LEMMA ApplyOrphanStore ==
    ASSUME IndInv, NEW q \in orphans, ApplyOrphan(q)
    PROVE  StoreStep /\ leases' \in [Name -> Lease] /\ revision' \in Nat
  <1>1. TypeOK /\ q \in Request /\ q.name \in Name /\ q.lease \in Lease
    BY DEF IndInv, TypeOK, Request
  <1>2. CASE ~Present(q.name) /\ Write(q.name, q.lease)
    BY <1>1, <1>2, StoreWritten, WriteStep
  <1>3. CASE /\ q.op \in {"update", "delete"}
             /\ leases[q.name].version = q.lease.version
    <2>1. Expiry(leases[q.name]) <= time + Skew
      BY <1>3 DEF IndInv, OrphansHoldWitnesses, Witnesses
    <2>2. CASE Write(q.name, q.lease)
      BY <1>1, <2>1, <2>2, StoreWritten, WriteStep
    <2>3. CASE Remove(q.name)
      BY <1>1, <2>1, <2>3, StoreRemoved, RemoveStep DEF TypeOK
    <2> QED
      BY <1>3, <2>2, <2>3 DEF ApplyOrphan
  <1> QED
    BY <1>2, <1>3 DEF ApplyOrphan

\* Late and lost calls preserve the inductive invariant.
LEMMA OrphanPreserves ==
    ASSUME IndInv, NEW q \in orphans, ApplyOrphan(q) \/ DropOrphan(q)
    PROVE  IndInv'
  <1>1. /\ UNCHANGED <<time, cleanupContinue, task, accepted>>
        /\ orphans' \subseteq orphans /\ TypeOK
    BY DEF IndInv, ApplyOrphan, DropOrphan
  <1>2. StoreStep /\ leases' \in [Name -> Lease] /\ revision' \in Nat
    <2>1. CASE ApplyOrphan(q)
      BY <2>1, ApplyOrphanStore
    <2>2. CASE DropOrphan(q)
      BY <1>1, <2>2, StoreUnchanged DEF DropOrphan, TypeOK
    <2> QED
      BY <2>1, <2>2
  <1>3. TypeOK' /\ time <= time'
    BY <1>1, <1>2 DEF TypeOK
  <1> QED
    BY <1>1, <1>2, <1>3, TimelyKept, QuietStep

\* The restart of a replica preserves the inductive invariant.
LEMMA RestartPreserves ==
    ASSUME IndInv, NEW r \in Replica, Restart(r)
    PROVE  IndInv'
  <1>1. /\ UNCHANGED <<time, leases, revision, orphans, accepted>>
        /\ cleanupContinue' = [cleanupContinue EXCEPT ![r] = NoToken]
        /\ TypeOK
    BY DEF IndInv, Restart
  <1>2. Idle.pc = "idle"
    BY DEF Idle
  <1>3. \A g \in Handler : task'[g] = task[g] \/ (task'[g] = Idle /\ task'[g].pc = "idle")
    BY <1>2 DEF Restart
  <1>4. task' \in [Handler -> Task]
    BY <1>1, IdleType DEF Restart, TypeOK
  <1>5. TypeOK' /\ time <= time'
    BY <1>1, <1>3, <1>4 DEF TypeOK
  <1> QED
    BY <1>1, <1>3, <1>5, StoreUnchanged, TimelyKept, QuietStep

\* So does the passing of time while no step is due.
LEMMA TickPreserves ==
    ASSUME IndInv, Tick
    PROVE  IndInv'
  <1>1. /\ UNCHANGED <<leases, revision, orphans, cleanupContinue, task, accepted>>
        /\ time' = time + 1 /\ TypeOK /\ time \in Nat
        /\ \A h \in Handler : task[h].pc # "idle" => time < task[h].due
    BY DEF IndInv, Tick, TypeOK
  <1>2. TypeOK' /\ time <= time'
    BY <1>1 DEF TypeOK
  <1>3. StepsAreTimely'
    <2> SUFFICES ASSUME NEW g \in Handler PROVE Timely(g)'
      BY DEF StepsAreTimely
    <2>1. Timely(g) /\ task[g].due \in Nat /\ task[g].now \in Nat
      BY <1>1 DEF IndInv, StepsAreTimely, TypeOK, Task
    <2>2. Budget(g)' = Budget(g)
      BY <1>1 DEF Budget
    <2>3. LatestVerification(task[g].assertion)' = LatestVerification(task[g].assertion)
      BY <1>1 DEF LatestVerification
    <2> QED
      BY <1>1, <2>1, <2>2, <2>3, TimingAssumption DEF Timely
  <1> QED
    BY <1>1, <1>2, <1>3, StoreUnchanged, QuietStep

\* So does a step that changes nothing.
LEMMA StutterPreserves ==
    ASSUME IndInv, UNCHANGED vars
    PROVE  IndInv'
  <1>1. /\ UNCHANGED <<time, leases, revision, orphans, cleanupContinue, task, accepted>>
        /\ TypeOK
    BY DEF IndInv, vars
  <1>2. TypeOK' /\ time <= time'
    BY <1>1 DEF TypeOK
  <1> QED
    BY <1>1, <1>2, StoreUnchanged, TimelyKept, QuietStep

-----------------------------------------------------------------------------
(* The theorems.                                                            *)

\* The empty ledger satisfies the inductive invariant.
LEMMA InitIndInv == Init => IndInv
  <1> SUFFICES ASSUME Init PROVE IndInv
    OBVIOUS
  <1>1. Idle \in Task /\ Idle.pc = "idle"
    BY IdleType DEF Idle
  <1>2. NoLease \in Lease /\ NoLease.version = 0
    BY DEF NoLease, Lease
  <1>3. \A h \in Handler : task[h] = Idle
    BY DEF Init
  <1>4. TypeOK
    BY <1>1, <1>2 DEF Init, TypeOK, Request
  <1>5. StepsAreTimely /\ HandlersHoldWitnesses
    BY <1>1, <1>3 DEF StepsAreTimely, Timely, HandlersHoldWitnesses, HoldsWitness,
                      Claiming, Cleaning
  <1>6. VersionsAreIssued /\ OrphansHoldWitnesses
    BY <1>2 DEF Init, VersionsAreIssued, OrphansHoldWitnesses
  <1>7. ClaimsAreRecorded /\ ClaimsAreExclusive
    BY <1>1, <1>3 DEF Init, ClaimsAreRecorded, ClaimsAreExclusive, Claimed, Cleaning
  <1> QED
    BY <1>4, <1>5, <1>6, <1>7 DEF IndInv

\* Every step preserves the inductive invariant.
LEMMA NextIndInv == IndInv /\ [Next]_vars => IndInv'
  <1> SUFFICES ASSUME IndInv, [Next]_vars PROVE IndInv'
    OBVIOUS
  <1>1. ASSUME NEW h \in Handler, Step(h) PROVE IndInv'
    BY <1>1, StepGood, GoodStepPreserves
  <1>2. ASSUME NEW q \in orphans, ApplyOrphan(q) \/ DropOrphan(q) PROVE IndInv'
    BY <1>2, OrphanPreserves
  <1>3. ASSUME NEW r \in Replica, Restart(r) PROVE IndInv'
    BY <1>3, RestartPreserves
  <1>4. CASE Tick
    BY <1>4, TickPreserves
  <1>5. CASE UNCHANGED vars
    BY <1>5, StutterPreserves
  <1> QED
    BY <1>1, <1>2, <1>3, <1>4, <1>5 DEF Next

(***************************************************************************)
(* The ledger's invariant holds in every reachable state: every claim is   *)
(* backed by a stored lease for as long as its assertion may come again.   *)
(***************************************************************************)
THEOREM LedgerInvariant == Spec => []IndInv
  BY InitIndInv, NextIndInv, PTL DEF Spec

(***************************************************************************)
(* Every variable of the ledger keeps its type.                            *)
(***************************************************************************)
THEOREM LedgerTypes == Spec => []TypeOK
  <1>1. IndInv => TypeOK
    BY DEF IndInv
  <1> QED
    BY <1>1, LedgerInvariant, PTL

(***************************************************************************)
(* KubernetesLeaseReplayLedger::use_once returns Ok at most once for a     *)
(* verified assertion, for any number of replicas and concurrent exchanges *)
(* and any loss, delay, cancellation and restart, if the retention exceeds *)
(* leeway, clock skew, stall and five call timeouts.                       *)
(***************************************************************************)
THEOREM UseOnceIsOnce == Spec => []AcceptedAtMostOnce
  <1>1. IndInv => AcceptedAtMostOnce
    BY DEF IndInv, ClaimsAreExclusive, AcceptedAtMostOnce
  <1> QED
    BY <1>1, LedgerInvariant, PTL

\* Every step moves the store forward and takes only expired leases from it.
LEMMA NextStoreStep == IndInv /\ [Next]_vars => StoreStep
  <1> SUFFICES ASSUME IndInv, [Next]_vars PROVE StoreStep
    OBVIOUS
  <1>1. ASSUME NEW h \in Handler, Step(h) PROVE StoreStep
    BY <1>1, StepGood DEF GoodStep
  <1>2. ASSUME NEW q \in orphans, ApplyOrphan(q) PROVE StoreStep
    BY <1>2, ApplyOrphanStore
  <1>3. CASE UNCHANGED <<leases, revision>>
    BY <1>3, StoreUnchanged
  <1> QED
    BY <1>1, <1>2, <1>3 DEF Next, vars, DropOrphan, Restart, Tick

(***************************************************************************)
(* No reclaim and no clean-up, however late its call is applied, replaces  *)
(* or deletes a lease before some replica's clock has passed its expiry.   *)
(***************************************************************************)
THEOREM LedgerKeepsRecords == Spec => RecordsKeptUntilExpiry
  <1>1. IndInv /\ [Next]_vars =>
          [\A n \in Name : Present(n) /\ leases'[n] # leases[n] =>
              Expiry(leases[n]) <= time + Skew]_vars
    BY NextStoreStep DEF StoreStep
  <1> QED
    BY <1>1, LedgerInvariant, PTL DEF Spec, RecordsKeptUntilExpiry

-----------------------------------------------------------------------------
(* The ledger keeps the promise of SingleUse.                               *)

\* Nobody holds anything at first.
LEMMA InitPromise == Init => Promise!Init
  <1> SUFFICES ASSUME Init PROVE Promise!Init
    OBVIOUS
  <1>1. \A h \in Handler : task[h].pc = "idle"
    BY DEF Init, Idle
  <1> QED
    BY <1>1 DEF Init, Promise!Init, Holding, Cleaning

\* Handlers that only let go of what they hold forfeit it.
LEMMA LetGo ==
    ASSUME accepted' = accepted,
           \A g \in Handler : Holding'[g] = Holding[g] \/ Holding'[g] = {}
    PROVE  Promise!Next
  <1> DEFINE lost == {g \in Handler : Holding'[g] = {}}
  <1>1. lost \in SUBSET Handler
    OBVIOUS
  <1>2. Holding' = [g \in Handler |-> IF g \in lost THEN {} ELSE Holding[g]]
    BY DEF Holding
  <1>3. Promise!Forfeit(lost)
    BY <1>2 DEF Promise!Forfeit
  <1> QED
    BY <1>1, <1>3 DEF Promise!Next

\* A handler's step is a step of the promise.
LEMMA StepPromise ==
    ASSUME IndInv, NEW h \in Handler, GoodStep(h)
    PROVE  Promise!Next
  <1> DEFINE a == task[h].assertion
  <1>1. a \in Assertion
    BY MineType DEF IndInv
  <1>2. \A g \in Handler \ {h} : Holding'[g] = Holding[g]
    BY DEF GoodStep, Others, Holding
  <1>3. CASE NoClaim(h)
    <2>1. Holding'[h] = Holding[h] \/ Holding'[h] = {}
      BY <1>3 DEF NoClaim, Holding
    <2> QED
      BY <1>2, <1>3, <2>1, LetGo DEF NoClaim
  <1>4. CASE ClaimAccepted(h)
    <2>1. a \in Holding[h] /\ Holding'[h] = {}
      BY <1>4 DEF ClaimAccepted, Holding
    <2>2. Holding' = [Holding EXCEPT ![h] = {}]
      BY <1>2, <2>1 DEF Holding
    <2>3. Promise!Use(h, a)
      BY <1>4, <2>1, <2>2 DEF ClaimAccepted, Promise!Use
    <2> QED
      BY <1>1, <2>3 DEF Promise!Next
  <1>5. CASE ClaimMade(h) /\ task'[h].pc \in Cleaning
    <2>1. Holding'[h] = {a}
      BY <1>5 DEF ClaimMade, Holding
    <2>2. Holding' = [Holding EXCEPT ![h] = {a}]
      BY <1>2, <2>1 DEF Holding
    <2>3. accepted[a] = 0
      BY <1>1, <1>5 DEF ClaimMade, Claimed, IndInv, TypeOK
    <2>4. \A g \in Handler : a \notin Holding[g]
      BY <1>5 DEF ClaimMade, Claimed, Holding
    <2>5. Promise!Grant(h, a)
      BY <1>5, <2>2, <2>3, <2>4 DEF ClaimMade, Promise!Grant
    <2> QED
      BY <1>1, <2>5 DEF Promise!Next
  <1>6. CASE ClaimMade(h) /\ task'[h].pc \notin Cleaning
    <2>1. Holding'[h] = {}
      BY <1>6 DEF Holding
    <2> QED
      BY <1>2, <1>6, <2>1, LetGo DEF ClaimMade
  <1> QED
    BY <1>3, <1>4, <1>5, <1>6 DEF GoodStep

\* Every step of the ledger is one of the promise, or invisible to it.
LEMMA NextPromise == IndInv /\ [Next]_vars => [Promise!Next]_Promise!vars
  <1> SUFFICES ASSUME IndInv, [Next]_vars PROVE [Promise!Next]_Promise!vars
    OBVIOUS
  <1>1. ASSUME NEW h \in Handler, Step(h) PROVE Promise!Next
    BY <1>1, StepGood, StepPromise
  <1>2. CASE UNCHANGED <<task, accepted>>
    BY <1>2 DEF Holding, Promise!vars
  <1>3. ASSUME NEW r \in Replica, Restart(r) PROVE Promise!Next
    <2>1. \A g \in Handler : task'[g] = task[g] \/ task'[g].pc = "idle"
      BY <1>3 DEF Restart, Idle
    <2>2. \A g \in Handler : Holding'[g] = Holding[g] \/ Holding'[g] = {}
      BY <2>1 DEF Holding, Cleaning
    <2> QED
      BY <1>3, <2>2, LetGo DEF Restart
  <1> QED
    BY <1>1, <1>2, <1>3 DEF Next, vars, ApplyOrphan, DropOrphan, Tick

(***************************************************************************)
(* KubernetesLeaseReplayLedger implements SingleUse, the promise of the    *)
(* trait ReplayLedger, for any number of replicas and exchanges.           *)
(***************************************************************************)
THEOREM LedgerKeepsPromise == Spec => KeepsPromise
  BY InitPromise, NextPromise, LedgerInvariant, PTL DEF Spec, KeepsPromise, Promise!Spec

=============================================================================
