--------------------------- MODULE UseOnceProofs ---------------------------
(***************************************************************************)
(* What an exchange spends on use_once, and what its clean-up does there.  *)
(*                                                                         *)
(* TokensAreYoung for every timeout, lifetime and source token: each await *)
(* of use_once is charged against a budget of ten calls.  When a call is   *)
(* sent its timeout, and one more for each call that may follow, still fit *)
(* into ten timeouts after `now'.                                          *)
(*                                                                         *)
(* The safety of CleanupSweep for every set of names, number of handlers,  *)
(* page size and page bound: pages are gap-free stretches of the list, so  *)
(* the token passes nothing that was not looked at, and what a handler     *)
(* judged expired is still expired when it deletes it.                     *)
(***************************************************************************)
EXTENDS TaskToken, CleanupSweep, FiniteSetTheorems, TLAPS

-----------------------------------------------------------------------------
(* The call budget.                                                         *)

\* Calls that can follow the one in flight.
CallsLeft ==
    IF pc = "create" THEN 9
    ELSE IF pc = "get" THEN (IF attempt = 0 THEN 8 ELSE 6)
    ELSE IF pc = "update" THEN (IF attempt = 0 THEN 7 ELSE 5)
    ELSE IF pc = "recreate" THEN 5
    ELSE IF pc = "list" THEN (IF pages = 2 THEN 4 ELSE 2)
    ELSE IF pc = "recheck" THEN (IF pages = 2 THEN 3 ELSE 1)
    ELSE 0

\* The inductive invariant behind TokensAreYoung: use_once never has more
\* calls ahead than its budget of ten allows.
IndInv ==
    /\ TypeOK
    /\ now <= time
    /\ pc \in Call => time <= due
    /\ pc \in {"review", "create"} => attempt = 0
    /\ pc \in {"list", "recheck"} => pages > 0
    /\ pc \in Call \ {"review"} => due + CallsLeft * CallTimeout <= now + 10 * CallTimeout
    /\ TokensAreYoung

\* The budget has room when the review of exchange() sends the first call.
LEMMA InitOK == Init => IndInv
  BY TaskTokenAssumption DEF Init, IndInv, TypeOK, TokensAreYoung, Call, Outcome

\* One more call costs one more timeout (the budget of use_once).
LEMMA Multiples ==
  ASSUME NEW few \in 0 .. 9, NEW many \in 0 .. 9, NEW t \in Nat, few + 1 <= many
  PROVE  few * t + t <= many * t
<1>1. PICK k \in Nat : many = (few + 1) + k
  <2>. WITNESS many - (few + 1) \in Nat
  <2>. QED OBVIOUS
<1>2. k * t \in Nat /\ few * t \in Nat
  OBVIOUS
<1>3. many * t = (few * t + t) + k * t
  BY <1>1
<1>. QED BY <1>2, <1>3

\* Returning a token or an error keeps the invariant: the call that ends was
\* within the budget.
LEMMA ReturnOK ==
  ASSUME IndInv, NEW outcome \in Outcome, Return(outcome),
         UNCHANGED <<now, attempt>>, pages' \in 0 .. 2, pc \in Call \ {"review"}
  PROVE  IndInv'
<1>1. time <= due /\ due + CallsLeft * CallTimeout <= now + 10 * CallTimeout
  BY DEF IndInv
<1>2. CallsLeft * CallTimeout >= 0
  BY TaskTokenAssumption DEF CallsLeft
<1>3. {time, now, due} \subseteq Nat /\ CallTimeout \in Nat /\ TokenTtl \in Nat
  BY TaskTokenAssumption DEF IndInv, TypeOK
<1>4. CallsLeft * CallTimeout \in Int
  BY TaskTokenAssumption DEF CallsLeft
<1>5. (now + TokenTtl) - time >= TokenTtl - 10 * CallTimeout
  BY <1>1, <1>2, <1>3, <1>4
<1>6. TokensAreYoung'
  BY <1>5 DEF Return, TokensAreYoung
<1>7. TypeOK'
  BY DEF IndInv, TypeOK, Return, Outcome
<1>. QED
  BY <1>6, <1>7 DEF IndInv, Return, Outcome, Call

\* Sending a call keeps it when the call leaves at least one fewer to follow.
LEMMA AwaitOK ==
  ASSUME IndInv, NEW call \in Call \ {"review", "create"}, Await(call),
         UNCHANGED now, attempt' \in {0, 1}, pages' \in 0 .. 2,
         call \in {"list", "recheck"} => pages' > 0,
         pc \in Call \ {"review"}, CallsLeft' + 1 <= CallsLeft
  PROVE  IndInv'
<1>1. time <= due /\ due + CallsLeft * CallTimeout <= now + 10 * CallTimeout
  BY DEF IndInv
<1>2. /\ CallsLeft \in 0 .. 9 /\ CallsLeft' \in 0 .. 9
      /\ CallTimeout \in Nat /\ {time, now, due} \subseteq Nat
  BY TaskTokenAssumption DEF CallsLeft, IndInv, TypeOK
<1>3. CallsLeft' * CallTimeout + CallTimeout <= CallsLeft * CallTimeout
  BY <1>2, Multiples
<1>4. CallsLeft * CallTimeout \in Int /\ CallsLeft' * CallTimeout \in Int
  BY <1>2
<1>5. due' = time + CallTimeout /\ time' = time /\ now' = now /\ pc' = call
  BY DEF Await
<1>. DEFINE before == CallsLeft * CallTimeout
            after == CallsLeft' * CallTimeout
<1>6. due' + after <= now' + 10 * CallTimeout
  <2>1. before \in Int /\ after \in Int /\ after + CallTimeout <= before
    BY <1>3, <1>4
  <2>2. due + before <= now + 10 * CallTimeout
    BY <1>1
  <2>. HIDE DEF before, after
  <2>. QED BY <1>1, <1>2, <1>5, <2>1, <2>2
<1>7. TypeOK'
  BY <1>2, <1>5 DEF IndInv, TypeOK, Await
<1>8. TokensAreYoung' /\ now' <= time' /\ time' <= due'
  BY <1>2, <1>5 DEF IndInv, TokensAreYoung, Call
<1>. QED
  BY <1>5, <1>6, <1>7, <1>8 DEF IndInv, Call

\* One step per action of exchange() and use_once.
LEMMA NextOK == IndInv /\ [Next]_vars => IndInv'
<1>. SUFFICES ASSUME IndInv, [Next]_vars PROVE IndInv'
  OBVIOUS
<1>. USE TaskTokenAssumption
<1>1. CASE ReviewRefused
  BY <1>1 DEF ReviewRefused, Return, IndInv, TypeOK, TokensAreYoung, Call, Outcome
<1>2. CASE ReviewedPlain
  BY <1>2 DEF ReviewedPlain, Sign, Return, IndInv, TypeOK, TokensAreYoung, Call, Outcome
<1>3. CASE ReviewedTask
  <2>. pc = "review" /\ now' = time /\ UNCHANGED <<attempt, pages>>
    BY <1>3 DEF ReviewedTask
  <2>1. CASE Return("denied") \/ Return("failed")
    BY <2>1 DEF Return, IndInv, TypeOK, TokensAreYoung, Call, Outcome
  <2>2. CASE Await("create")
    <3>1. pc' = "create" /\ due' = time + CallTimeout /\ now' = time /\ time' = time
      BY <2>2 DEF Await
    <3>2. CallsLeft' = 9
      BY <3>1 DEF CallsLeft
    <3>3. due' + CallsLeft' * CallTimeout <= now' + 10 * CallTimeout
      BY <3>1, <3>2 DEF IndInv, TypeOK
    <3>4. attempt' = 0 /\ TypeOK'
      BY <2>2 DEF Await, IndInv, TypeOK, Call
    <3>. QED
      BY <3>1, <3>3, <3>4 DEF IndInv, TypeOK, TokensAreYoung, Call
  <2>. QED BY <1>3, <2>1, <2>2 DEF ReviewedTask
<1>4. CASE ClaimFails
  BY <1>4, ReturnOK DEF ClaimFails, Call, Outcome, IndInv, TypeOK
<1>5. CASE Created
  <2>1. pc' = "list" /\ pages' = 2 /\ attempt' = attempt /\ now' = now /\ Await("list")
    BY <1>5 DEF Created, BeginCleanup, Await
  <2>2. CallsLeft' = 4 /\ CallsLeft >= 5 /\ pc \in Call \ {"review"}
    BY <1>5, <2>1 DEF CallsLeft, Created, Call
  <2>. QED BY <2>1, <2>2, AwaitOK DEF Call, IndInv, TypeOK
<1>6. CASE CreateConflict
  <2>1. pc = "create" /\ Await("get") /\ UNCHANGED <<now, attempt, pages>> /\ attempt = 0
    BY <1>6 DEF CreateConflict, IndInv
  <2>2. CallsLeft' = 8 /\ CallsLeft = 9
    BY <2>1 DEF CallsLeft, Await
  <2>. QED BY <2>1, <2>2, AwaitOK DEF Call, IndInv, TypeOK
<1>7. CASE GetServed
  <2>1. CASE Return("denied")
    BY <1>7, <2>1, ReturnOK DEF GetServed, Call, Outcome, IndInv, TypeOK
  <2>2. CASE Await("recreate")
    <3>1. CallsLeft' = 5 /\ CallsLeft >= 6
      BY <1>7, <2>2 DEF CallsLeft, Await, GetServed
    <3>. QED BY <1>7, <2>2, <3>1, AwaitOK DEF GetServed, Call, IndInv, TypeOK
  <2>3. CASE Await("update")
    <3>1. CallsLeft' + 1 = CallsLeft
      BY <1>7, <2>3 DEF CallsLeft, Await, GetServed
    <3>2. CallsLeft' + 1 <= CallsLeft
      BY <3>1 DEF CallsLeft
    <3>. QED BY <1>7, <2>3, <3>2, AwaitOK DEF GetServed, Call, IndInv, TypeOK
  <2>. QED BY <1>7, <2>1, <2>2, <2>3 DEF GetServed
<1>8. CASE Updated
  <2>1. pc' = "list" /\ pages' = 2 /\ attempt' = attempt /\ now' = now /\ Await("list")
    BY <1>8 DEF Updated, BeginCleanup, Await
  <2>2. CallsLeft' = 4 /\ CallsLeft >= 5 /\ pc \in Call \ {"review"}
    BY <1>8, <2>1 DEF CallsLeft, Updated, Call
  <2>. QED BY <2>1, <2>2, AwaitOK DEF Call, IndInv, TypeOK
<1>9. CASE UpdateConflict
  <2>1. CASE attempt = 0 /\ Await("get") /\ attempt' = 1
    <3>1. CallsLeft' = 6 /\ CallsLeft = 7
      BY <1>9, <2>1 DEF CallsLeft, Await, UpdateConflict
    <3>. QED BY <1>9, <2>1, <3>1, AwaitOK DEF UpdateConflict, Call, IndInv, TypeOK
  <2>2. CASE attempt = 1 /\ Return("failed") /\ UNCHANGED attempt
    BY <1>9, <2>2, ReturnOK DEF UpdateConflict, Call, Outcome, IndInv, TypeOK
  <2>. QED BY <1>9, <2>1, <2>2 DEF UpdateConflict
<1>10. ASSUME pc \in {"list", "recheck"}, PageDone, UNCHANGED <<now, attempt>>
       PROVE  IndInv'
  <2>1. CASE pages > 1 /\ Await("list") /\ pages' = pages - 1
    <3>1. pages = 2 /\ pages' = 1
      BY <2>1 DEF IndInv, TypeOK
    <3>2. CallsLeft' = 2 /\ CallsLeft >= 3
      BY <1>10, <2>1, <3>1 DEF CallsLeft, Await
    <3>. QED BY <1>10, <2>1, <3>1, <3>2, AwaitOK DEF Call, IndInv, TypeOK
  <2>2. CASE Sign /\ UNCHANGED pages
    BY <1>10, <2>2, ReturnOK DEF Sign, Call, Outcome, IndInv, TypeOK
  <2>. QED BY <1>10, <2>1, <2>2 DEF PageDone
<1>11. CASE ListServed
  <2>1. CASE Await("recheck") /\ UNCHANGED pages
    <3>1. pages' > 0 /\ pages \in {1, 2}
      BY <1>11, <2>1 DEF ListServed, IndInv, TypeOK
    <3>2. CallsLeft' + 1 = CallsLeft
      BY <1>11, <2>1, <3>1 DEF CallsLeft, Await, ListServed
    <3>3. CallsLeft' + 1 <= CallsLeft
      BY <3>2 DEF CallsLeft
    <3>. QED BY <1>11, <2>1, <3>1, <3>3, AwaitOK DEF ListServed, Call, IndInv, TypeOK
  <2>. QED BY <1>10, <1>11, <2>1 DEF ListServed
<1>12. CASE ListFails
  BY <1>12, ReturnOK DEF ListFails, Sign, Call, Outcome, IndInv, TypeOK
<1>13. CASE RecheckServed
  <2>1. CASE Await("delete") /\ UNCHANGED pages
    <3>1. CallsLeft' = 0 /\ CallsLeft >= 1
      BY <1>13, <2>1 DEF CallsLeft, Await, RecheckServed
    <3>. QED BY <1>13, <2>1, <3>1, AwaitOK DEF RecheckServed, Call, IndInv, TypeOK
  <2>. QED BY <1>10, <1>13, <2>1 DEF RecheckServed
<1>14. CASE DeleteServed
  BY <1>14, ReturnOK DEF DeleteServed, Sign, Call, Outcome, IndInv, TypeOK
<1>15. CASE Tick
  <2>1. CallsLeft' = CallsLeft
    BY <1>15 DEF Tick, CallsLeft
  <2>. QED BY <1>15, <2>1 DEF Tick, IndInv, TypeOK, TokensAreYoung, Call, Outcome
<1>16. CASE UNCHANGED vars
  <2>1. CallsLeft' = CallsLeft
    BY <1>16 DEF vars, CallsLeft
  <2>. QED BY <1>16, <2>1 DEF vars, IndInv, TypeOK, TokensAreYoung
<1>. QED
  BY <1>1, <1>2, <1>3, <1>4, <1>5, <1>6, <1>7, <1>8, <1>9, <1>11, <1>12, <1>13,
     <1>14, <1>15, <1>16 DEF Next, Step

\* The calls of use_once stay within a budget of ten.
THEOREM CallBudget == Spec => []IndInv
  BY InitOK, NextOK, PTL DEF Spec

\* A workload token has at least its lifetime less ten call timeouts left
\* when exchange() returns it.
THEOREM YoungTokens == Spec => []TokensAreYoung
<1>1. IndInv => TokensAreYoung
  BY DEF IndInv
<1>. QED BY <1>1, CallBudget, PTL

-----------------------------------------------------------------------------
(* Pages.                                                                   *)

\* A finite set of list positions has a first one: of the sets of those before
\* a position, one is minimal, and it is empty.
LEMMA FirstExists ==
  ASSUME NEW S \in SUBSET Nat, IsFiniteSet(S), S # {}
  PROVE  \E first \in S : \A n \in S : first <= n
<1>. DEFINE Before(n) == {m \in S : m < n}
            Befores == {Before(n) : n \in S}
            R == StrictSubsetOrdering(S)
<1>1. IsWellFoundedOn(R, SUBSET S)
  BY FS_StrictSubsetOrderingWellFounded, FS_FiniteSubsetsOfFinite
<1>2. Befores \subseteq SUBSET S /\ Befores # {}
  OBVIOUS
<1>3. \E b \in Befores : \A c \in Befores : <<c, b>> \notin R
  <2>. HIDE DEF Befores, R
  <2>. QED BY <1>1, <1>2, WFMin
<1>4. PICK first \in S : \A n \in S : <<Before(n), Before(first)>> \notin R
  BY <1>3
<1>5. ASSUME NEW n \in S, n < first
      PROVE  FALSE
  <2>1. \A m \in S : m < n => m < first
    <3>1. S \subseteq Nat /\ n \in Nat /\ first \in Nat
      OBVIOUS
    <3>. QED BY <1>5, <3>1
  <2>2. Before(n) \subseteq Before(first)
    BY <2>1
  <2>3. n \in Before(first) /\ n \notin Before(n)
    BY <1>5
  <2>. QED BY <1>4, <2>2, <2>3 DEF StrictSubsetOrdering
<1>. QED BY <1>5

\* It has a last one as well.
LEMMA LastExists ==
  ASSUME NEW S \in SUBSET Nat, IsFiniteSet(S), S # {}
  PROVE  \E last \in S : \A n \in S : last >= n
<1>. DEFINE Behind(n) == {m \in S : m > n}
            Behinds == {Behind(n) : n \in S}
            R == StrictSubsetOrdering(S)
<1>1. IsWellFoundedOn(R, SUBSET S)
  BY FS_StrictSubsetOrderingWellFounded, FS_FiniteSubsetsOfFinite
<1>2. Behinds \subseteq SUBSET S /\ Behinds # {}
  OBVIOUS
<1>3. \E b \in Behinds : \A c \in Behinds : <<c, b>> \notin R
  <2>. HIDE DEF Behinds, R
  <2>. QED BY <1>1, <1>2, WFMin
<1>4. PICK last \in S : \A n \in S : <<Behind(n), Behind(last)>> \notin R
  BY <1>3
<1>5. ASSUME NEW n \in S, n > last
      PROVE  FALSE
  <2>1. \A m \in S : m > n => m > last
    <3>1. S \subseteq Nat /\ n \in Nat /\ last \in Nat
      OBVIOUS
    <3>. QED BY <1>5, <3>1
  <2>2. Behind(n) \subseteq Behind(last)
    BY <2>1
  <2>3. n \in Behind(last) /\ n \notin Behind(n)
    BY <1>5
  <2>. QED BY <1>4, <2>2, <2>3 DEF StrictSubsetOrdering
<1>. QED BY <1>5

\* Min picks the first of the expired items of a page (take(1)).
LEMMA MinIsFirst ==
  ASSUME NEW S \in SUBSET Nat, IsFiniteSet(S), S # {}
  PROVE  Min(S) \in S /\ \A n \in S : Min(S) <= n
BY FirstExists DEF Min

\* Max picks the last item of a page, where the API's token points.
LEMMA MaxIsLast ==
  ASSUME NEW S \in SUBSET Nat, IsFiniteSet(S), S # {}
  PROVE  Max(S) \in S /\ \A n \in S : n <= Max(S)
BY LastExists DEF Max

\* A page of a list call lies behind the token it was asked for with.
LEMMA PageOfNames ==
  ASSUME NEW cursor \in Name \cup {NoToken}
  PROVE  /\ Page(cursor) \subseteq Remaining(cursor)
         /\ Remaining(cursor) \subseteq Present
         /\ Present \subseteq Name
         /\ Name \subseteq Nat
         /\ \A n \in Remaining(cursor) : n > cursor
         /\ \A S \in SUBSET Name : IsFiniteSet(S) /\ S \subseteq Nat
<1>1. \A S \in SUBSET Name : IsFiniteSet(S)
  BY FS_Subset, SweepAssumption
<1>. QED BY <1>1, SweepAssumption DEF Page, Remaining, Present

\* A page is empty only at the end of the list: lists move on.
LEMMA PageHasFirst ==
  ASSUME NEW cursor \in Name \cup {NoToken}, Remaining(cursor) # {}
  PROVE  Page(cursor) # {}
<1>1. PICK first \in Remaining(cursor) : \A n \in Remaining(cursor) : first <= n
  BY PageOfNames, FirstExists
<1>2. {m \in Remaining(cursor) : m < first} = {}
  BY <1>1, PageOfNames
<1>3. Cardinality({m \in Remaining(cursor) : m < first}) < PageSize
  BY <1>2, FS_EmptySet, SweepAssumption
<1>. QED BY <1>1, <1>3 DEF Page

\* The token of a response points behind the one of the request, at the last
\* item of the page.
LEMMA NextTokenMovesOn ==
  ASSUME NEW cursor \in Name \cup {NoToken}
  PROVE  /\ NextToken(cursor) \in Name \cup {NoToken}
         /\ NextToken(cursor) # NoToken =>
               /\ NextToken(cursor) \in Page(cursor)
               /\ \A n \in Page(cursor) : n <= NextToken(cursor)
<1>1. CASE Page(cursor) = Remaining(cursor)
  BY <1>1 DEF NextToken
<1>2. CASE Page(cursor) # Remaining(cursor)
  <2>1. Page(cursor) # {}
    BY <1>2, PageOfNames, PageHasFirst
  <2>2. /\ Max(Page(cursor)) \in Page(cursor)
        /\ \A n \in Page(cursor) : n <= Max(Page(cursor))
    <3>1. Page(cursor) \in SUBSET Nat /\ IsFiniteSet(Page(cursor))
      BY PageOfNames
    <3>. QED BY <2>1, <3>1, MaxIsLast
  <2>. QED BY <1>2, <2>2, PageOfNames DEF NextToken
<1>. QED BY <1>1, <1>2

\* No record falls between two pages: up to the token of the response, or to
\* the end of the list when there is none, a page has every record there is.
LEMMA PagesHaveNoGaps ==
  ASSUME NEW cursor \in Name \cup {NoToken}, NEW n \in Remaining(cursor),
         NextToken(cursor) = NoToken \/ n <= NextToken(cursor)
  PROVE  n \in Page(cursor)
<1>1. CASE Page(cursor) = Remaining(cursor)
  BY <1>1
<1>2. CASE Page(cursor) # Remaining(cursor)
  <2>. DEFINE Before(k) == {m \in Remaining(cursor) : m < k}
              last == NextToken(cursor)
  <2>1. Page(cursor) # {} /\ last = Max(Page(cursor))
    BY <1>2, PageOfNames, PageHasFirst DEF NextToken
  <2>2. last \in Page(cursor)
    <3>1. Page(cursor) \in SUBSET Nat /\ IsFiniteSet(Page(cursor))
      BY PageOfNames
    <3>. HIDE DEF last
    <3>. QED BY <2>1, <3>1, MaxIsLast
  <2>3. n <= last
    <3>1. last # NoToken
      BY <2>2, PageOfNames, SweepAssumption DEF NoToken
    <3>. QED BY <3>1
  <2>4. Cardinality(Before(last)) < PageSize
    BY <2>2 DEF Page
  <2>5. Before(n) \subseteq Before(last) /\ Before(last) \subseteq Name
    <3>. HIDE DEF last
    <3>. QED BY <2>2, <2>3, PageOfNames
  <2>6. /\ Cardinality(Before(n)) <= Cardinality(Before(last))
        /\ Cardinality(Before(n)) \in Nat /\ Cardinality(Before(last)) \in Nat
    <3>1. IsFiniteSet(Before(last)) /\ IsFiniteSet(Before(n))
      BY <2>5, PageOfNames
    <3>. HIDE DEF Before, last
    <3>. QED BY <2>5, <3>1, FS_Subset, FS_CardinalityType
  <2>7. Cardinality(Before(n)) < PageSize
    <3>. HIDE DEF Before, last
    <3>. QED BY <2>4, <2>6, SweepAssumption
  <2>. QED BY <2>7 DEF Page
<1>. QED BY <1>1, <1>2

-----------------------------------------------------------------------------
(* The inductive invariant of clean-up.                                     *)

\* SweepIndInv of one handler.
TaskOK(t) ==
    /\ t \in Task
    /\ t.pc # "idle" => t.pages > 0
    /\ t.judged \subseteq ExpiredNames
    /\ t.pc \in {"recheck", "delete"} =>
          /\ t.cursor < t.victim
          /\ t.next # NoToken => t.victim <= t.next

\* SweepIndInv, one handler at a time.
LEMMA SweepByTask ==
  SweepIndInv <=>
    /\ record \in [Name -> {"absent", "live", "expired"}]
    /\ continueToken \in Name \cup {NoToken}
    /\ handler \in [Handler -> Task]
    /\ \A h \in Handler : TaskOK(handler[h])
    /\ calm \in BOOLEAN
<1>1. handler \in [Handler -> Task] => \A h \in Handler : handler[h] \in Task
  OBVIOUS
<1>. QED
  BY <1>1 DEF SweepIndInv, SweepTypeOK, JudgedHaveExpired, VictimsAreListed, TaskOK

\* A future that is not suspended in cleanup_one is in order.
LEMMA IdleOK == TaskOK(Idle)
  BY SweepAssumption DEF TaskOK, Idle, Task, NoToken

\* A step of one handler that leaves the ledger alone keeps the invariant when
\* it leaves its own future in order.
LEMMA OneTask ==
  ASSUME SweepIndInv, NEW h \in Handler, NEW t, TaskOK(t),
         handler' = [handler EXCEPT ![h] = t],
         continueToken' \in Name \cup {NoToken}, UNCHANGED <<record, calm>>
  PROVE  SweepIndInv'
<1>1. handler' \in [Handler -> Task]
  BY SweepByTask DEF TaskOK
<1>2. \A g \in Handler : TaskOK(handler'[g])
  BY SweepByTask
<1>3. \A g \in Handler : TaskOK(handler[g])'
  BY <1>2 DEF TaskOK, ExpiredNames
<1>. QED BY <1>1, <1>3, SweepByTask DEF SweepIndInv, SweepTypeOK,
       JudgedHaveExpired, VictimsAreListed, TaskOK

\* The next page, or the end of cleanup_one: the page bound holds.
LEMMA GoOnOK ==
  ASSUME SweepIndInv, NEW h \in Handler, handler[h].pc # "idle",
         NEW next \in Name \cup {NoToken}, GoOn(h, next),
         continueToken' \in Name \cup {NoToken}, UNCHANGED <<record, calm>>
  PROVE  SweepIndInv'
<1>. DEFINE t == IF next = NoToken \/ handler[h].pages <= 1
                 THEN Idle
                 ELSE [handler[h] EXCEPT !.pc = "list", !.cursor = next,
                           !.next = NoToken, !.victim = 0, !.pages = @ - 1]
<1>1. handler' = [handler EXCEPT ![h] = t]
  BY DEF GoOn
<1>2. TaskOK(t)
  <2>1. CASE next = NoToken \/ handler[h].pages <= 1
    BY <2>1, IdleOK
  <2>2. CASE ~(next = NoToken \/ handler[h].pages <= 1)
    <3>1. TaskOK(handler[h]) /\ handler[h].pages \in 0 .. MaxPages
      BY SweepByTask DEF Task
    <3>2. handler[h].pages - 1 \in 0 .. MaxPages /\ handler[h].pages - 1 > 0
      BY <2>2, <3>1, SweepAssumption
    <3>. QED BY <2>2, <3>1, <3>2 DEF TaskOK, Task, NoToken
  <2>. QED BY <2>1, <2>2
<1>. HIDE DEF t
<1>. QED BY <1>1, <1>2, OneTask

\* A write to a record takes it from everyone's `judged': its resourceVersion
\* is another one.
LEMMA ReplaceOK ==
  ASSUME SweepIndInv, NEW n \in Name, NEW state \in {"absent", "live"},
         NEW tasks \in [Handler -> Task], \A h \in Handler : TaskOK(tasks[h]),
         Replace(n, state, tasks), UNCHANGED <<continueToken, calm>>
  PROVE  SweepIndInv'
<1>. DEFINE spared(h) == [tasks[h] EXCEPT !.judged = tasks[h].judged \ {n}]
<1>1. record' = [record EXCEPT ![n] = state] /\ handler' = [h \in Handler |-> spared(h)]
  BY DEF Replace
<1>2. record' \in [Name -> {"absent", "live", "expired"}]
  BY <1>1, SweepByTask
<1>3. ASSUME NEW h \in Handler
      PROVE  /\ spared(h) \in Task
             /\ spared(h).judged = tasks[h].judged \ {n}
             /\ spared(h).pc = tasks[h].pc /\ spared(h).pages = tasks[h].pages
             /\ spared(h).cursor = tasks[h].cursor /\ spared(h).next = tasks[h].next
             /\ spared(h).victim = tasks[h].victim
  BY DEF Task
<1>4. \A h \in Handler : spared(h).judged \subseteq ExpiredNames'
  <2>1. \A m \in ExpiredNames : m # n => m \in ExpiredNames'
    BY <1>1, SweepByTask DEF ExpiredNames
  <2>2. \A h \in Handler : tasks[h].judged \subseteq ExpiredNames
    BY DEF TaskOK
  <2>. HIDE DEF spared
  <2>. QED BY <1>3, <2>1, <2>2
<1>5. \A h \in Handler : handler'[h] = spared(h)
  BY <1>1
<1>6. handler' \in [Handler -> Task]
  <2>. HIDE DEF spared
  <2>. QED BY <1>1, <1>3
<1>7. \A h \in Handler : TaskOK(handler[h])'
  <2>. HIDE DEF spared
  <2>. QED BY <1>3, <1>4, <1>5 DEF TaskOK
<1>. QED BY <1>2, <1>6, <1>7, SweepByTask DEF SweepIndInv, SweepTypeOK,
       JudgedHaveExpired, VictimsAreListed, TaskOK

\* What every handler of a good state may rely on.
LEMMA TaskFacts ==
  ASSUME SweepIndInv, NEW h \in Handler
  PROVE  /\ TaskOK(handler[h]) /\ handler[h] \in Task
         /\ handler[h].cursor \in Name \cup {NoToken}
         /\ handler[h].next \in Name \cup {NoToken}
         /\ handler[h].judged \subseteq Name
  BY SweepByTask DEF Task

\* cleanup_one begins: it judges what has expired.
LEMMA BeginOK ==
  ASSUME SweepIndInv, NEW h \in Handler, NEW n \in Name, Begin(h, n)
  PROVE  SweepIndInv'
<1>. DEFINE t == [Idle EXCEPT !.pc = "list", !.cursor = continueToken,
                      !.pages = MaxPages, !.judged = ExpiredNames]
            tasks == [handler EXCEPT ![h] = t]
<1>1. TaskOK(t)
  <2>1. continueToken \in Name \cup {NoToken} /\ ExpiredNames \subseteq Name
    BY SweepByTask DEF ExpiredNames
  <2>2. MaxPages \in 0 .. MaxPages /\ MaxPages > 0
    BY SweepAssumption
  <2>3. Idle \in Task
    BY IdleOK DEF TaskOK
  <2>4. /\ t \in Task
        /\ t.pc = "list" /\ t.pages = MaxPages /\ t.judged = ExpiredNames
    BY <2>1, <2>2, <2>3 DEF Task
  <2>. HIDE DEF t
  <2>. QED BY <2>2, <2>4 DEF TaskOK
<1>2. tasks \in [Handler -> Task] /\ \A g \in Handler : TaskOK(tasks[g])
  <2>1. t \in Task
    BY <1>1 DEF TaskOK
  <2>. HIDE DEF t
  <2>. QED BY <1>1, <2>1, SweepByTask
<1>3. Replace(n, "live", tasks) /\ UNCHANGED <<continueToken, calm>>
  BY DEF Begin
<1>. HIDE DEF tasks
<1>. QED BY <1>2, <1>3, ReplaceOK

\* The list call is answered: the victim lies on the page.
LEMMA PageServedOK ==
  ASSUME SweepIndInv, NEW h \in Handler, PageServed(h)
  PROVE  SweepIndInv'
<1>. DEFINE cursor == handler[h].cursor
            next == NextToken(cursor)
            found == Page(cursor) \cap handler[h].judged
<1>1. /\ handler[h].pc = "list" /\ continueToken' = next /\ UNCHANGED <<record, calm>>
      /\ \/ /\ found # {}
            /\ handler' = [handler EXCEPT ![h] =
                  [@ EXCEPT !.pc = "recheck", !.victim = Min(found), !.next = next]]
         \/ found = {} /\ GoOn(h, next)
  BY DEF PageServed
<1>2. cursor \in Name \cup {NoToken}
  BY TaskFacts
<1>3. /\ next \in Name \cup {NoToken}
      /\ next # NoToken => \A n \in Page(cursor) : n <= next
  <2>. HIDE DEF cursor
  <2>. QED BY <1>2, NextTokenMovesOn
<1>4. CASE found = {} /\ GoOn(h, next)
  <2>. HIDE DEF next
  <2>. QED BY <1>1, <1>3, <1>4, GoOnOK
<1>5. CASE found # {} /\ handler' = [handler EXCEPT ![h] =
               [@ EXCEPT !.pc = "recheck", !.victim = Min(found), !.next = next]]
  <2>. DEFINE t == [handler[h] EXCEPT !.pc = "recheck", !.victim = Min(found), !.next = next]
  <2>1. Min(found) \in found /\ found \subseteq Name
    <3>1. found \in SUBSET Nat /\ IsFiniteSet(found) /\ found \subseteq Name
      <4>. HIDE DEF cursor
      <4>. QED BY <1>2, PageOfNames
    <3>. HIDE DEF found
    <3>. QED BY <1>5, <3>1, MinIsFirst
  <2>2. cursor < Min(found) /\ (next # NoToken => Min(found) <= next)
    <3>1. Min(found) \in Page(cursor)
      BY <2>1
    <3>2. \A n \in Page(cursor) : n > cursor
      <4>. HIDE DEF cursor
      <4>. QED BY <1>2, PageOfNames
    <3>. HIDE DEF cursor, next, found
    <3>. QED BY <1>3, <3>1, <3>2
  <2>3. t \in Task
    <3>1. handler[h] \in Task
      BY TaskFacts
    <3>. HIDE DEF found, next
    <3>. QED BY <3>1, <1>3, <2>1 DEF Task
  <2>4. /\ t.pc = "recheck" /\ t.victim = Min(found) /\ t.next = next
        /\ t.cursor = cursor /\ t.pages = handler[h].pages
        /\ t.judged = handler[h].judged
    <3>1. handler[h] \in Task
      BY TaskFacts
    <3>. HIDE DEF found, next
    <3>. QED BY <3>1 DEF Task
  <2>5. handler[h].pages > 0 /\ handler[h].judged \subseteq ExpiredNames
    BY <1>1, TaskFacts DEF TaskOK
  <2>6. TaskOK(t)
    <3>. HIDE DEF t, found, next, cursor
    <3>. QED BY <2>2, <2>3, <2>4, <2>5 DEF TaskOK
  <2>7. handler' = [handler EXCEPT ![h] = t]
    BY <1>5
  <2>. HIDE DEF t, next
  <2>. QED BY <1>1, <1>3, <2>6, <2>7, OneTask
<1>. QED BY <1>1, <1>4, <1>5

\* The re-check finds the victim expired still.
LEMMA VictimExpiredOK ==
  ASSUME SweepIndInv, NEW h \in Handler, VictimExpired(h)
  PROVE  SweepIndInv'
<1>. DEFINE t == [handler[h] EXCEPT !.pc = "delete"]
<1>1. TaskOK(t)
  BY TaskFacts DEF TaskOK, Task, VictimExpired
<1>2. handler' = [handler EXCEPT ![h] = t] /\ UNCHANGED <<record, continueToken, calm>>
  BY DEF VictimExpired
<1>. HIDE DEF t
<1>. QED BY <1>1, <1>2, SweepByTask, OneTask

\* The deletion: the record goes, and cleanup_one returns.
LEMMA VictimDeletedOK ==
  ASSUME SweepIndInv, NEW h \in Handler, VictimDeleted(h)
  PROVE  SweepIndInv'
<1>. DEFINE tasks == [handler EXCEPT ![h] = Idle]
<1>1. tasks \in [Handler -> Task] /\ \A g \in Handler : TaskOK(tasks[g])
  <2>1. Idle \in Task
    BY IdleOK DEF TaskOK
  <2>. QED BY <2>1, IdleOK, SweepByTask
<1>2. handler[h].victim \in Name
  BY TaskFacts DEF VictimDeleted
<1>3. Replace(handler[h].victim, "absent", tasks) /\ UNCHANGED <<continueToken, calm>>
  BY DEF VictimDeleted
<1>. HIDE DEF tasks
<1>. QED BY <1>1, <1>2, <1>3, ReplaceOK

\* cleanup_one ends with an error, or its future is dropped.
LEMMA EndsOK ==
  ASSUME SweepIndInv, NEW h \in Handler, handler' = [handler EXCEPT ![h] = Idle],
         continueToken' \in {continueToken, NoToken}, UNCHANGED <<record, calm>>
  PROVE  SweepIndInv'
BY IdleOK, SweepByTask, OneTask

\* Every step of clean-up and of its environment keeps the invariant.
LEMMA SweepNextOK ==
  ASSUME SweepIndInv, [SweepNext]_sweepVars
  PROVE  SweepIndInv'
<1>1. CASE Exchange
  BY <1>1, BeginOK DEF Exchange
<1>2. ASSUME NEW h \in Handler, Respond(h) \/ PageFails(h) \/ Leave(h)
      PROVE  SweepIndInv'
  <2>1. CASE PageServed(h)
    BY <2>1, PageServedOK
  <2>2. CASE VictimExpired(h)
    BY <2>2, VictimExpiredOK
  <2>3. CASE VictimSkipped(h)
    <3>1. /\ GoOn(h, handler[h].next) /\ handler[h].pc # "idle"
          /\ UNCHANGED <<record, continueToken, calm>>
      BY <2>3 DEF VictimSkipped
    <3>2. handler[h].next \in Name \cup {NoToken}
      BY TaskFacts
    <3>. QED BY <3>1, <3>2, GoOnOK, SweepByTask
  <2>4. CASE VictimDeleted(h)
    BY <2>4, VictimDeletedOK
  <2>5. CASE VictimKept(h)
    BY <2>5, EndsOK DEF VictimKept
  <2>6. CASE PageFails(h)
    BY <2>6, EndsOK DEF PageFails
  <2>7. CASE Leave(h)
    BY <2>7, EndsOK DEF Leave
  <2>. QED BY <1>2, <2>1, <2>2, <2>3, <2>4, <2>5, <2>6, <2>7 DEF Respond
<1>3. ASSUME NEW n \in Name, Expire(n)
      PROVE  SweepIndInv'
  <2>1. ExpiredNames \subseteq ExpiredNames'
    BY <1>3, SweepByTask DEF Expire, ExpiredNames
  <2>2. record' \in [Name -> {"absent", "live", "expired"}]
    BY <1>3, SweepByTask DEF Expire
  <2>. QED BY <1>3, <2>1, <2>2 DEF Expire, SweepIndInv, SweepTypeOK,
         JudgedHaveExpired, VictimsAreListed
<1>4. CASE Restart
  <2>1. /\ handler' = [h \in Handler |-> Idle] /\ continueToken' = NoToken
        /\ UNCHANGED <<record, calm>>
    BY <1>4 DEF Restart
  <2>2. Idle \in Task
    BY IdleOK DEF TaskOK
  <2>3. \A h \in Handler : TaskOK(handler[h])'
    BY <2>1, IdleOK DEF TaskOK, ExpiredNames
  <2>. QED BY <2>1, <2>2, <2>3 DEF TaskOK, SweepIndInv, SweepTypeOK,
         JudgedHaveExpired, VictimsAreListed
<1>5. CASE WeatherChanges
  BY <1>5 DEF WeatherChanges, SweepIndInv, SweepTypeOK, JudgedHaveExpired,
     VictimsAreListed, ExpiredNames
<1>6. CASE UNCHANGED sweepVars
  BY <1>6 DEF sweepVars, SweepIndInv, SweepTypeOK, JudgedHaveExpired,
     VictimsAreListed, ExpiredNames
<1>. QED BY <1>1, <1>2, <1>3, <1>4, <1>5, <1>6 DEF SweepNext

\* A new process has no clean-up under way.
LEMMA SweepInitOK == SweepInit => SweepIndInv
<1>1. Idle \in Task
  BY IdleOK DEF TaskOK
<1>2. Idle.pc = "idle" /\ Idle.judged = {}
  BY DEF Idle
<1>3. SweepInit => SweepTypeOK
  BY <1>1, <1>2 DEF SweepInit, SweepTypeOK
<1>4. SweepInit => JudgedHaveExpired /\ VictimsAreListed
  BY <1>2 DEF SweepInit, JudgedHaveExpired, VictimsAreListed
<1>. QED BY <1>3, <1>4 DEF SweepIndInv

\* Clean-up stays within its page bound, and what its handlers believe of the
\* ledger across their awaits stays true.
THEOREM SweepInvariant == Sweep => []SweepIndInv
  BY SweepInitOK, SweepNextOK, PTL DEF Sweep

\* Types of the clean-up, and the bound on the pages of an exchange.
THEOREM SweepTypes == Sweep => []SweepTypeOK
<1>1. SweepIndInv => SweepTypeOK
  BY DEF SweepIndInv
<1>. QED BY <1>1, SweepInvariant, PTL

-----------------------------------------------------------------------------
(* What clean-up deletes, and what it passes.                               *)

\* Clean-up and the claims of the other exchanges take no live record away,
\* however late a handler's deletion arrives.
SparesLive ==
    [][\A n \in Name : record[n] = "live" => record'[n] # "absent"]_sweepVars

\* Only a deletion removes a record, and its victim has expired.
LEMMA StepSparesLive ==
  ASSUME SweepIndInv, [SweepNext]_sweepVars, NEW n \in Name, record[n] = "live"
  PROVE  record'[n] # "absent"
<1>1. ASSUME NEW h \in Handler, NEW m \in Name, Begin(h, m)
      PROVE  record'[n] # "absent"
  BY <1>1, SweepByTask DEF Begin, Replace
<1>2. ASSUME NEW h \in Handler, VictimDeleted(h)
      PROVE  record'[n] # "absent"
  <2>1. handler[h].victim \in ExpiredNames
    BY <1>2 DEF VictimDeleted, SweepIndInv, JudgedHaveExpired
  <2>2. handler[h].victim # n
    BY <2>1 DEF ExpiredNames
  <2>. QED BY <1>2, <2>2, SweepByTask DEF VictimDeleted, Replace
<1>3. ASSUME NEW m \in Name, Expire(m)
      PROVE  record'[n] # "absent"
  BY <1>3, SweepByTask DEF Expire
<1>4. CASE UNCHANGED record
  BY <1>4
<1>. QED BY <1>1, <1>2, <1>3, <1>4 DEF SweepNext, Exchange, Respond, PageServed,
       VictimExpired, VictimSkipped, VictimKept, PageFails, Leave, Restart,
       WeatherChanges, sweepVars

\* No live record is taken away: a record judged expired before an await is
\* the same record when it is deleted after it.
THEOREM LiveRecordsStay == Sweep => SparesLive
<1>1. SweepIndInv /\ [SweepNext]_sweepVars
        => [\A n \in Name : record[n] = "live" => record'[n] # "absent"]_sweepVars
  BY StepSparesLive
<1>. QED BY <1>1, SweepInvariant, PTL DEF Sweep, SparesLive

\* The page that moves the token past an expired record has it or an earlier
\* one as the victim.
LEMMA StepPassesVictims ==
  ASSUME SweepIndInv, NEW h \in Handler, NEW n \in Name, PageServed(h),
         n \in handler[h].judged, n > handler[h].cursor,
         continueToken' = NoToken \/ n <= continueToken'
  PROVE  handler'[h].pc = "recheck" /\ handler'[h].victim <= n
<1>. DEFINE cursor == handler[h].cursor
            next == NextToken(cursor)
            found == Page(cursor) \cap handler[h].judged
<1>1. cursor \in Name \cup {NoToken}
  BY TaskFacts
<1>2. n \in Remaining(cursor)
  BY DEF Remaining, Present, SweepIndInv, JudgedHaveExpired, ExpiredNames
<1>3. continueToken' = next
  BY DEF PageServed
<1>4. n \in found
  <2>1. next = NoToken \/ n <= next
    BY <1>3
  <2>2. n \in Page(cursor)
    <3>. HIDE DEF cursor
    <3>. QED BY <1>1, <1>2, <2>1, PagesHaveNoGaps
  <2>. QED BY <2>2
<1>5. handler' = [handler EXCEPT ![h] =
          [@ EXCEPT !.pc = "recheck", !.victim = Min(found), !.next = next]]
  BY <1>4 DEF PageServed
<1>6. Min(found) <= n
  <2>1. found \in SUBSET Nat /\ IsFiniteSet(found)
    <3>. HIDE DEF cursor
    <3>. QED BY <1>1, PageOfNames
  <2>. HIDE DEF found
  <2>. QED BY <1>4, <2>1, MinIsFirst
<1>. HIDE DEF found, next
<1>. QED BY <1>5, <1>6, TaskFacts, SweepByTask DEF Task

\* The continue token leaves no expired record behind for which the handler
\* that moved it does not attempt a deletion on the same page.
THEOREM PassedRecords == Sweep => TokenPassesVictims
<1>1. SweepIndInv /\ [SweepNext]_sweepVars
        => [\A h \in Handler, n \in Name :
              /\ PageServed(h)
              /\ n \in handler[h].judged
              /\ n > handler[h].cursor
              /\ continueToken' = NoToken \/ n <= continueToken'
              => handler'[h].pc = "recheck" /\ handler'[h].victim <= n]_sweepVars
  BY StepPassesVictims
<1>. QED BY <1>1, SweepInvariant, PTL DEF Sweep, TokenPassesVictims
=============================================================================
