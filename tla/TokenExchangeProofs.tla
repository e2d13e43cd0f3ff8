------------------------ MODULE TokenExchangeProofs ------------------------
(***************************************************************************)
(* A single-use assertion yields one token at most, a replay is a repeated *)
(* claim, and the counters account for every request, for any number of    *)
(* replicas, handlers and assertions.                                      *)
(***************************************************************************)
EXTENDS TokenExchange, FiniteSetTheorems, TLAPS

-----------------------------------------------------------------------------
\* Why there is one token: an exchange past its claim is the only one.

CleaningUpIsRecorded ==
    \A h \in Handler : handler[h].pc = "cleanup" =>
        ReplayKey(My(h)) \in records /\ tokens[My(h)] = 0

CleaningUpIsExclusive ==
    \A g, h \in Handler :
        handler[g].pc = "cleanup" /\ handler[h].pc = "cleanup" /\ My(g) = My(h) => g = h

TokensAreRecorded ==
    \A a \in Assertion : SingleUse(a) /\ tokens[a] > 0 => ReplayKey(a) \in records

\* The inductive invariant behind OneTokenPerAssertion: the record that
\* use_once makes stays, and only its maker goes on to sign.
IndInv ==
    /\ TypeOK
    /\ CleaningUpIsRecorded
    /\ CleaningUpIsExclusive
    /\ TokensAreRecorded
    /\ OneTokenPerAssertion

-----------------------------------------------------------------------------
\* Why a replay is a repetition.

Claiming(h, a) == handler[h].pc = "claim" /\ My(h) = a

\* A record, or a claim that may still become one.
Spent(a) == ReplayKey(a) \in records \union late

\* Every exchange that went to claim an assertion was counted: each that is at
\* it now, and one more where there is a record or a late claim.
ClaimsAreCounted ==
    \A a \in Assertion :
        /\ Spent(a) => claims[a] > 0
        /\ \A h \in Handler : Claiming(h, a) =>
              /\ claims[a] > 0
              /\ Spent(a) => claims[a] > 1
              /\ \A g \in Handler \ {h} : Claiming(g, a) => claims[a] > 1

-----------------------------------------------------------------------------

\* The handlers' states.
PCs == {"idle", "review", "verify", "claim", "cleanup"}
States == [pc : PCs, assertion : Assertion]

\* No handler is started without an assertion to present.
LEMMA IdleIsAState ==
    Idle \in States /\ Idle.pc = "idle"
BY ExchangeAssumption DEF Idle, States, PCs

\* Counting keeps the counters' type.
LEMMA CountType ==
    ASSUME TypeOK, NEW h \in Handler, NEW names, Count(h, names)
    PROVE  metrics' \in [Replica -> [Profile -> [Counter -> Nat]]]
<1>1. ReplicaOf[h] \in Replica /\ MyProfile(h) \in Profile
  BY ExchangeAssumption DEF TypeOK, MyProfile, My
<1> DEFINE r == ReplicaOf[h]
           p == MyProfile(h)
           m == [c \in Counter |-> IF c \in names THEN metrics[r][p][c] + 1 ELSE metrics[r][p][c]]
<1>2. metrics[r] \in [Profile -> [Counter -> Nat]] /\ metrics[r][p] \in [Counter -> Nat]
  BY <1>1 DEF TypeOK
<1>3. m \in [Counter -> Nat]
  BY <1>2
<1>4. metrics' = [metrics EXCEPT ![r] = [metrics[r] EXCEPT ![p] = m]]
  BY <1>1, <1>2 DEF Count, TypeOK
<1> HIDE DEF m
<1>5. [metrics[r] EXCEPT ![p] = m] \in [Profile -> [Counter -> Nat]]
  BY <1>2, <1>3
<1> QED
  BY <1>1, <1>4, <1>5 DEF TypeOK

\* Ending a handler keeps the types of what it changes.
LEMMA EndType ==
    ASSUME TypeOK, NEW h \in Handler, End(h)
    PROVE  /\ handler' \in [Handler -> States]
           /\ handler'[h].pc = "idle"
           /\ \A g \in Handler \ {h} : handler'[g] = handler[g]
           /\ observed' \in [Replica -> Nat]
<1>2. Idle \in States /\ Idle.pc = "idle"
  BY IdleIsAState
<1>3. handler \in [Handler -> States] /\ observed \in [Replica -> Nat]
  BY DEF TypeOK, States, PCs
<1>4. ReplicaOf[h] \in Replica
  BY ExchangeAssumption
<1>5. handler' = [handler EXCEPT ![h] = Idle]
  BY DEF End
<1>6. /\ handler' \in [Handler -> States]
      /\ handler'[h].pc = "idle"
      /\ \A g \in Handler \ {h} : handler'[g] = handler[g]
  BY <1>2, <1>3, <1>5
<1>7. observed' \in [Replica -> Nat]
  BY <1>3, <1>4 DEF End
<1> QED
  BY <1>6, <1>7

\* What a step may do without disturbing the invariant: handlers that did not
\* move, records that only grow and no token.
LEMMA QuietStep ==
    ASSUME IndInv, TypeOK', records \subseteq records', tokens' = tokens,
           \A g \in Handler : handler'[g].pc = "cleanup" => handler'[g] = handler[g]
    PROVE  IndInv'
<1>1. CleaningUpIsRecorded'
  BY DEF IndInv, CleaningUpIsRecorded, My
<1>2. CleaningUpIsExclusive'
  BY DEF IndInv, CleaningUpIsExclusive, My
<1>3. TokensAreRecorded' /\ OneTokenPerAssertion'
  BY DEF IndInv, TokensAreRecorded, OneTokenPerAssertion
<1> QED
  BY <1>1, <1>2, <1>3 DEF IndInv

\* Before any request there is no record and no token.
LEMMA ExchangeInit ==
    Init => IndInv
<1> SUFFICES ASSUME Init PROVE IndInv
  OBVIOUS
<1>1. Idle \in States /\ Idle.pc = "idle"
  BY IdleIsAState
<1>2. handler \in [Handler -> States] /\ \A h \in Handler : handler[h].pc = "idle"
  BY <1>1 DEF Init
<1>3. Zero \in [Profile -> [Counter -> Nat]]
  BY DEF Zero
<1>4. metrics \in [Replica -> [Profile -> [Counter -> Nat]]]
  BY <1>3 DEF Init
<1>5. dropped \in [Replica -> [Profile -> Nat]]
  BY DEF Init
<1>6. /\ observed \in [Replica -> Nat] /\ attempts \in Nat
      /\ tokens \in [Assertion -> Nat] /\ claims \in [Assertion -> Nat]
  BY DEF Init
<1>7. TypeOK
  BY <1>2, <1>4, <1>5, <1>6 DEF TypeOK, States, PCs
<1>8. \A a \in Assertion : tokens[a] = 0
  BY DEF Init
<1> QED
  BY <1>2, <1>7, <1>8 DEF IndInv, CleaningUpIsRecorded, CleaningUpIsExclusive,
                          TokensAreRecorded, OneTokenPerAssertion

\* A handler ends without a token: refused, failed or cut off.
LEMMA EndingStep ==
    ASSUME IndInv, NEW h \in Handler, End(h),
           metrics' \in [Replica -> [Profile -> [Counter -> Nat]]],
           dropped' \in [Replica -> [Profile -> Nat]],
           UNCHANGED <<records, attempts, tokens, claims>>
    PROVE  IndInv'
<1>1. TypeOK
  BY DEF IndInv
<1>2. /\ handler' \in [Handler -> States]
      /\ handler'[h].pc = "idle"
      /\ \A g \in Handler \ {h} : handler'[g] = handler[g]
      /\ observed' \in [Replica -> Nat]
  BY <1>1, EndType
<1>3. \A g \in Handler : handler'[g].pc \in {"review", "claim", "cleanup"} => handler'[g] = handler[g]
  BY <1>2
<1>4. TypeOK'
  BY <1>1, <1>2, <1>3 DEF TypeOK, States, PCs, My
<1> QED
  BY <1>3, <1>4, QuietStep

\* A handler goes on to another await than the clean-up, without a token.
LEMMA MovingStep ==
    ASSUME IndInv, NEW h \in Handler, NEW s \in States,
           s.pc # "cleanup", s.pc \in {"review", "claim"} => SingleUse(s.assertion),
           handler' = [handler EXCEPT ![h] = s],
           metrics' \in [Replica -> [Profile -> [Counter -> Nat]]],
           attempts' \in Nat, claims' \in [Assertion -> Nat],
           UNCHANGED <<records, observed, tokens, dropped>>
    PROVE  IndInv'
<1>1. TypeOK
  BY DEF IndInv
<1>2. handler \in [Handler -> States]
  BY <1>1 DEF TypeOK, States, PCs
<1>3. /\ handler' \in [Handler -> States] /\ handler'[h] = s
      /\ \A g \in Handler \ {h} : handler'[g] = handler[g]
  BY <1>2
<1>4. \A g \in Handler : handler'[g].pc = "cleanup" => handler'[g] = handler[g]
  BY <1>3
<1>5. \A g \in Handler : handler'[g].pc \in {"review", "claim", "cleanup"} => SingleUse(handler'[g].assertion)
  BY <1>1, <1>3 DEF TypeOK, My
<1>6. TypeOK'
  BY <1>1, <1>3, <1>5 DEF TypeOK, States, PCs, My
<1> QED
  BY <1>4, <1>6, QuietStep

\* AwaitLedger of a handler whose assertion is single-use.
LEMMA AwaitingStep ==
    ASSUME IndInv, NEW h \in Handler, AwaitLedger(h), SingleUse(My(h)),
           metrics' \in [Replica -> [Profile -> [Counter -> Nat]]],
           UNCHANGED <<records, attempts, tokens, dropped>>
    PROVE  IndInv'
<1>1. handler \in [Handler -> States] /\ claims \in [Assertion -> Nat] /\ attempts \in Nat
  BY DEF IndInv, TypeOK, States, PCs
<1> DEFINE s == [handler[h] EXCEPT !.pc = "claim"]
<1>2. s \in States /\ s.pc = "claim" /\ s.assertion = My(h)
  BY <1>1 DEF States, PCs, My
<1>3. handler' = [handler EXCEPT ![h] = s]
  BY <1>1 DEF AwaitLedger
<1>4. claims' \in [Assertion -> Nat]
  <2>1. My(h) \in Assertion
    BY <1>1 DEF My, States
  <2> QED
    BY <1>1, <2>1 DEF AwaitLedger
<1> HIDE DEF s
<1> QED
  BY <1>1, <1>2, <1>3, <1>4, MovingStep DEF AwaitLedger

\* A request arrives.
LEMMA ReceiveStep ==
    ASSUME IndInv, NEW h \in Handler, NEW a \in Assertion, Receive(h, a) PROVE IndInv'
<1>1. TypeOK
  BY DEF IndInv
<1>2. attempts' \in Nat /\ claims' \in [Assertion -> Nat]
  BY <1>1 DEF Receive, TypeOK
<1>3. CASE /\ ProfileOf[a] = "browser"
           /\ handler' = [handler EXCEPT ![h] = [pc |-> "review", assertion |-> a]]
           /\ UNCHANGED metrics
  <2> DEFINE s == [pc |-> "review", assertion |-> a]
  <2>1. s \in States /\ s.pc # "cleanup" /\ SingleUse(s.assertion)
    BY <1>3 DEF States, PCs, SingleUse
  <2>2. handler' = [handler EXCEPT ![h] = s]
    BY <1>3
  <2> HIDE DEF s
  <2> QED
    BY <1>1, <1>2, <1>3, <2>1, <2>2, MovingStep DEF TypeOK, Receive
<1>4. CASE /\ handler' = [handler EXCEPT ![h] = [pc |-> "verify", assertion |-> a]]
           /\ metrics' = [metrics EXCEPT ![ReplicaOf[h]][ProfileOf[a]]["requests"] = @ + 1]
  <2> DEFINE s == [pc |-> "verify", assertion |-> a]
             r == ReplicaOf[h]
             p == ProfileOf[a]
             m == [metrics[r][p] EXCEPT !["requests"] = @ + 1]
  <2>1. s \in States /\ s.pc \notin {"review", "claim", "cleanup"}
    BY DEF States, PCs
  <2>2. handler' = [handler EXCEPT ![h] = s]
    BY <1>4
  <2>3. r \in Replica /\ p \in Profile
    BY ExchangeAssumption
  <2>4. metrics[r] \in [Profile -> [Counter -> Nat]] /\ metrics[r][p] \in [Counter -> Nat]
    BY <1>1, <2>3 DEF TypeOK
  <2>5. m \in [Counter -> Nat]
    BY <2>4 DEF Counter
  <2>6. metrics' = [metrics EXCEPT ![r] = [metrics[r] EXCEPT ![p] = m]]
    BY <1>1, <1>4, <2>3, <2>4 DEF TypeOK
  <2> HIDE DEF m, s
  <2>7. [metrics[r] EXCEPT ![p] = m] \in [Profile -> [Counter -> Nat]]
    BY <2>4, <2>5
  <2>8. metrics' \in [Replica -> [Profile -> [Counter -> Nat]]]
    BY <1>1, <2>6, <2>7 DEF TypeOK
  <2> QED
    BY <1>2, <2>1, <2>2, <2>8, MovingStep DEF Receive
<1> QED
  BY <1>3, <1>4 DEF Receive

\* Signing, by a handler whose record is made or whose profile needs none.
LEMMA SignStep ==
    ASSUME IndInv, NEW h \in Handler, Sign(h),
           handler[h].pc = "cleanup" \/ ~SingleUse(My(h)),
           UNCHANGED <<records, attempts, claims, dropped>>
    PROVE  IndInv'
<1>1. TypeOK /\ End(h) /\ My(h) \in Assertion
  BY DEF IndInv, Sign, TypeOK, My
<1>2. metrics' \in [Replica -> [Profile -> [Counter -> Nat]]]
  BY <1>1, CountType DEF Sign
<1>3. dropped' \in [Replica -> [Profile -> Nat]]
  BY <1>1 DEF TypeOK
<1>4. CASE UNCHANGED tokens
  BY <1>1, <1>2, <1>3, <1>4, EndingStep
<1>5. CASE tokens' = [tokens EXCEPT ![My(h)] = @ + 1]
  <2>1. /\ handler' \in [Handler -> States]
        /\ handler'[h].pc = "idle"
        /\ \A g \in Handler \ {h} : handler'[g] = handler[g]
        /\ observed' \in [Replica -> Nat]
    BY <1>1, EndType
  <2>2. \A g \in Handler : handler'[g].pc \in {"review", "claim", "cleanup"} =>
            g # h /\ handler'[g] = handler[g] /\ SingleUse(My(g))
    BY <1>1, <2>1 DEF TypeOK, My
  <2>3. tokens' \in [Assertion -> Nat]
    BY <1>1, <1>5 DEF TypeOK
  <2>4. TypeOK'
    BY <1>1, <1>2, <1>3, <2>1, <2>2, <2>3 DEF TypeOK, States, PCs, My
  <2>5. \A a \in Assertion \ {My(h)} : tokens'[a] = tokens[a]
    BY <1>1, <1>5 DEF TypeOK
  <2>6. \A g \in Handler : handler'[g].pc = "cleanup" => My(g) # My(h) /\ My(g) \in Assertion
    <3> SUFFICES ASSUME NEW g \in Handler, handler'[g].pc = "cleanup"
                 PROVE  My(g) # My(h) /\ My(g) \in Assertion
      OBVIOUS
    <3>1. g # h /\ handler[g].pc = "cleanup" /\ SingleUse(My(g))
      BY <2>2
    <3>2. My(g) \in Assertion
      BY <1>1 DEF TypeOK, My
    <3>3. CASE handler[h].pc = "cleanup"
      BY <3>1, <3>2, <3>3 DEF IndInv, CleaningUpIsExclusive
    <3>4. CASE ~SingleUse(My(h))
      BY <3>1, <3>2, <3>4
    <3> QED
      BY <3>3, <3>4
  <2>7. CleaningUpIsRecorded'
    BY <2>2, <2>5, <2>6 DEF IndInv, CleaningUpIsRecorded, My
  <2>8. CleaningUpIsExclusive'
    BY <2>2 DEF IndInv, CleaningUpIsExclusive, My
  <2>9. SingleUse(My(h)) => ReplayKey(My(h)) \in records /\ tokens[My(h)] = 0
    BY DEF IndInv, CleaningUpIsRecorded
  <2>10. TokensAreRecorded'
    BY <2>5, <2>9 DEF IndInv, TokensAreRecorded
  <2>11. tokens'[My(h)] = tokens[My(h)] + 1
    BY <1>1, <1>5 DEF TypeOK
  <2>12. OneTokenPerAssertion'
    BY <2>5, <2>9, <2>11 DEF IndInv, OneTokenPerAssertion
  <2> QED
    BY <2>4, <2>7, <2>8, <2>10, <2>12 DEF IndInv
<1> QED
  BY <1>4, <1>5 DEF Sign

\* use_once makes the record: there was no token and no other exchange at the
\* clean-up, since both leave a record.
LEMMA ClaimStep ==
    ASSUME IndInv, NEW h \in Handler, Claim(h) PROVE IndInv'
<1>1. /\ handler[h].pc = "claim" /\ ReplayKey(My(h)) \notin records
      /\ records' = records \union {ReplayKey(My(h))}
      /\ handler' = [handler EXCEPT ![h].pc = "cleanup"]
      /\ UNCHANGED <<metrics, observed, attempts, tokens, claims, dropped>>
  BY DEF Claim
<1>2. TypeOK /\ handler \in [Handler -> States]
  BY DEF IndInv, TypeOK, States, PCs
<1>3. My(h) \in Assertion /\ SingleUse(My(h)) /\ tokens[My(h)] \in Nat
  BY <1>1, <1>2 DEF TypeOK, My
<1> DEFINE s == [handler[h] EXCEPT !.pc = "cleanup"]
<1>4. s \in States /\ s.pc = "cleanup" /\ s.assertion = My(h)
  BY <1>2 DEF States, PCs, My
<1>5. handler' = [handler EXCEPT ![h] = s]
  BY <1>1, <1>2
<1> HIDE DEF s
<1>6. /\ handler' \in [Handler -> States] /\ handler'[h] = s
      /\ \A g \in Handler \ {h} : handler'[g] = handler[g]
  BY <1>2, <1>4, <1>5
<1>7. \A g \in Handler : handler'[g].assertion = My(g)
  BY <1>4, <1>6 DEF My
<1>8. TypeOK'
  <2>1. \A g \in Handler : handler'[g].pc \in {"review", "claim", "cleanup"} => SingleUse(handler'[g].assertion)
    BY <1>2, <1>3, <1>4, <1>6 DEF TypeOK, My
  <2> QED
    BY <1>1, <1>2, <1>6, <2>1 DEF TypeOK, States, PCs, My
<1>9. tokens[My(h)] = 0
  BY <1>1, <1>3 DEF IndInv, TokensAreRecorded
<1>10. \A g \in Handler \ {h} : handler'[g].pc = "cleanup" =>
          ReplayKey(My(g)) \in records /\ tokens[My(g)] = 0 /\ My(g) # My(h)
  BY <1>1, <1>6 DEF IndInv, CleaningUpIsRecorded
<1>11. CleaningUpIsRecorded'
  BY <1>1, <1>7, <1>9, <1>10 DEF CleaningUpIsRecorded, My
<1>12. CleaningUpIsExclusive'
  BY <1>6, <1>7, <1>10 DEF IndInv, CleaningUpIsExclusive, My
<1>13. TokensAreRecorded' /\ OneTokenPerAssertion'
  BY <1>1 DEF IndInv, TokensAreRecorded, OneTokenPerAssertion
<1> QED
  BY <1>8, <1>11, <1>12, <1>13 DEF IndInv

\* Steps that end a handler with one of the counters of Deny and Fail.
LEMMA RefusingStep ==
    ASSUME IndInv, NEW h \in Handler, NEW names, End(h), Count(h, names),
           UNCHANGED <<records, attempts, tokens, claims, dropped>>
    PROVE  IndInv'
<1>1. TypeOK
  BY DEF IndInv
<1>2. /\ metrics' \in [Replica -> [Profile -> [Counter -> Nat]]]
      /\ dropped' \in [Replica -> [Profile -> Nat]]
  BY <1>1, CountType DEF TypeOK
<1> QED
  BY <1>2, EndingStep

\* Every step of a handler.
LEMMA HandlerStep ==
    ASSUME IndInv, NEW h \in Handler, Step(h) PROVE IndInv'
<1>1. TypeOK
  BY DEF IndInv
<1>2. CASE \E a \in Assertion : Receive(h, a)
  BY <1>2, ReceiveStep
<1>3. CASE ReviewFailed(h)
  <2>1. /\ metrics' \in [Replica -> [Profile -> [Counter -> Nat]]]
        /\ dropped' \in [Replica -> [Profile -> Nat]]
    BY <1>1, <1>3 DEF TypeOK, ReviewFailed
  <2> QED
    BY <1>3, <2>1, EndingStep DEF ReviewFailed
<1>4. CASE BrowserExchange(h)
  <2>1. CASE End(h) /\ Count(h, {"requests", "denied"}) /\ UNCHANGED claims
    BY <1>4, <2>1, RefusingStep DEF BrowserExchange
  <2>2. CASE AwaitLedger(h) /\ Count(h, {"requests"})
    <3>1. metrics' \in [Replica -> [Profile -> [Counter -> Nat]]]
      BY <1>1, <2>2, CountType
    <3>2. SingleUse(My(h))
      BY <1>1, <1>4 DEF BrowserExchange, TypeOK
    <3> QED
      BY <1>4, <2>2, <3>1, <3>2, AwaitingStep DEF BrowserExchange
  <2> QED
    BY <1>4, <2>1, <2>2 DEF BrowserExchange
<1>5. CASE VerifyInvalid(h)
  BY <1>5, RefusingStep DEF VerifyInvalid, Deny
<1>6. CASE VerifyUnavailable(h)
  BY <1>6, RefusingStep DEF VerifyUnavailable, Fail
<1>7. CASE Verified(h)
  <2>1. CASE Deny(h) /\ UNCHANGED <<tokens, claims>>
    BY <1>7, <2>1, RefusingStep DEF Verified, Deny
  <2>2. CASE SingleUse(My(h)) /\ AwaitLedger(h) /\ UNCHANGED <<metrics, tokens>>
    <3>1. metrics' \in [Replica -> [Profile -> [Counter -> Nat]]]
      BY <1>1, <2>2 DEF TypeOK
    <3> QED
      BY <1>7, <2>2, <3>1, AwaitingStep DEF Verified
  <2>3. CASE ~SingleUse(My(h)) /\ Sign(h) /\ UNCHANGED claims
    BY <1>7, <2>3, SignStep DEF Verified
  <2> QED
    BY <1>7, <2>1, <2>2, <2>3 DEF Verified
<1>8. CASE Claim(h)
  BY <1>8, ClaimStep
<1>9. CASE Replayed(h)
  BY <1>9, RefusingStep DEF Replayed
<1>10. CASE LedgerUnavailable(h)
  BY <1>10, RefusingStep DEF LedgerUnavailable, Fail
<1>11. CASE Signed(h)
  BY <1>11, SignStep DEF Signed
<1>12. CASE Disconnect(h)
  <2>1. metrics' \in [Replica -> [Profile -> [Counter -> Nat]]]
    BY <1>1, <1>12 DEF TypeOK, Disconnect
  <2>2. ReplicaOf[h] \in Replica /\ MyProfile(h) \in Profile
    BY <1>1, ExchangeAssumption DEF TypeOK, MyProfile, My
  <2>3. dropped' \in [Replica -> [Profile -> Nat]]
    <3>1. dropped[ReplicaOf[h]] \in [Profile -> Nat]
      BY <1>1, <2>2 DEF TypeOK
    <3> DEFINE r == ReplicaOf[h]
               p == MyProfile(h)
               n == IF handler[h].pc = "review" THEN dropped[r][p] ELSE dropped[r][p] + 1
    <3>2. n \in Nat
      BY <2>2, <3>1
    <3>3. dropped' = [dropped EXCEPT ![r] = [dropped[r] EXCEPT ![p] = n]]
      BY <1>1, <1>12, <2>2, <3>1 DEF TypeOK, Disconnect
    <3> HIDE DEF n
    <3>4. [dropped[r] EXCEPT ![p] = n] \in [Profile -> Nat]
      BY <3>1, <3>2
    <3> QED
      BY <1>1, <2>2, <3>3, <3>4 DEF TypeOK
  <2> QED
    BY <1>12, <2>1, <2>3, EndingStep DEF Disconnect
<1> QED
  BY <1>2, <1>3, <1>4, <1>5, <1>6, <1>7, <1>8, <1>9, <1>10, <1>11, <1>12 DEF Step

\* A claim that nobody waits for can only add a record.
LEMMA ApplyLateStep ==
    ASSUME IndInv, NEW k, ApplyLate(k) PROVE IndInv'
<1>1. /\ records \subseteq records'
      /\ UNCHANGED <<handler, metrics, observed, attempts, tokens, claims, dropped>>
  BY DEF ApplyLate
<1>2. TypeOK'
  BY <1>1 DEF IndInv, TypeOK, My
<1> QED
  BY <1>1, <1>2, QuietStep

\* A restart forgets the handlers of a replica and none of the records.
LEMMA RestartStep ==
    ASSUME IndInv, NEW r \in Replica, Restart(r) PROVE IndInv'
<1>1. TypeOK
  BY DEF IndInv
<1>2. Idle \in States /\ Idle.pc = "idle"
  BY IdleIsAState
<1>3. handler \in [Handler -> States]
  BY <1>1 DEF TypeOK, States, PCs
<1>4. handler' = [h \in Handler |-> IF ReplicaOf[h] = r THEN Idle ELSE handler[h]]
  BY DEF Restart
<1>5. /\ handler' \in [Handler -> States]
      /\ \A h \in Handler : handler'[h].pc # "idle" => handler'[h] = handler[h]
  BY <1>2, <1>3, <1>4
<1>6. metrics' \in [Replica -> [Profile -> [Counter -> Nat]]]
  <2>1. Zero \in [Profile -> [Counter -> Nat]]
    BY DEF Zero
  <2> QED
    BY <1>1, <2>1 DEF Restart, TypeOK
<1>7. observed' \in [Replica -> Nat] /\ dropped' \in [Replica -> [Profile -> Nat]]
  BY <1>1 DEF Restart, TypeOK
<1>8. UNCHANGED <<records, attempts, tokens, claims>>
  BY DEF Restart
<1>9. \A h \in Handler :
          handler'[h].pc \in {"review", "claim", "cleanup"} => SingleUse(handler'[h].assertion)
  BY <1>1, <1>5 DEF TypeOK, My
<1>10. TypeOK'
  BY <1>1, <1>5, <1>6, <1>7, <1>8, <1>9 DEF TypeOK, States, PCs, My
<1> QED
  BY <1>5, <1>8, <1>10, QuietStep

\* Every step keeps the invariant.
LEMMA ExchangeStep ==
    IndInv /\ [Next]_vars => IndInv'
<1> SUFFICES ASSUME IndInv, [Next]_vars PROVE IndInv'
  OBVIOUS
<1>1. CASE \E h \in Handler : Step(h)
  BY <1>1, HandlerStep
<1>2. CASE \E k \in late : ApplyLate(k)
  BY <1>2, ApplyLateStep
<1>3. CASE \E r \in Replica : Restart(r)
  BY <1>3, RestartStep
<1>4. CASE UNCHANGED vars
  <2>1. TypeOK'
    BY <1>4 DEF vars, IndInv, TypeOK, My
  <2> QED
    BY <1>4, <2>1, QuietStep DEF vars
<1> QED
  BY <1>1, <1>2, <1>3, <1>4 DEF Next

\* The invariant behind the single token holds for every number of replicas,
\* handlers and assertions: the record of use_once (service.rs, oidc.rs,
\* workload.rs, browser_hop1.rs) is there before anything is signed.
THEOREM ExchangeInvariant == Spec => []IndInv
<1>1. Init => IndInv
  BY ExchangeInit
<1>2. IndInv /\ [Next]_vars => IndInv'
  BY ExchangeStep
<1> QED
  BY <1>1, <1>2, PTL DEF Spec

\* exchange() issues one token at most for a single-use assertion, through
\* disconnects, lost and late claims, failing signatures and restarts.
THEOREM SingleToken == Spec => []OneTokenPerAssertion
<1>1. IndInv => OneTokenPerAssertion
  BY DEF IndInv
<1> QED
  BY <1>1, ExchangeInvariant, PTL

-----------------------------------------------------------------------------
(* The service keeps the promise of the ledger.                             *)

\* Nothing is granted and nothing issued when the process starts.
LEMMA PromiseInit == Init => Promise!Init
<1> SUFFICES ASSUME Init PROVE Promise!Init
  OBVIOUS
<1>1. \A h \in Handler : handler[h].pc = "idle"
  BY IdleIsAState DEF Init
<1>2. \A a \in Spendable : tokens[a] = 0
  BY DEF Init, Spendable
<1> QED
  BY <1>1, <1>2 DEF Promise!Init, Granted, Issued

\* Exchanges that only end forfeit what they hold.
LEMMA LetGo ==
    ASSUME \A a \in Spendable : tokens'[a] = tokens[a],
           \A g \in Handler : Granted'[g] = Granted[g] \/ Granted'[g] = {}
    PROVE  Promise!Next
<1> DEFINE lost == {g \in Handler : Granted'[g] = {}}
<1>1. lost \in SUBSET Handler
  OBVIOUS
<1>2. Granted' = [g \in Handler |-> IF g \in lost THEN {} ELSE Granted[g]]
  BY DEF Granted
<1>3. Issued' = Issued
  BY DEF Issued
<1>4. Promise!Forfeit(lost)
  BY <1>2, <1>3 DEF Promise!Forfeit
<1> QED
  BY <1>1, <1>4 DEF Promise!Next

\* So it is when one handler goes on to any await but the clean-up.
LEMMA MoveOn ==
    ASSUME NEW h \in Handler, handler'[h].pc # "cleanup", tokens' = tokens,
           \A g \in Handler \ {h} : handler'[g] = handler[g]
    PROVE  Promise!Next
<1>1. \A g \in Handler : Granted'[g] = Granted[g] \/ Granted'[g] = {}
  BY DEF Granted, My
<1> QED
  BY <1>1, LetGo

\* use_once lets an exchange past it: nobody else is, and there is no token.
LEMMA ClaimGrants ==
    ASSUME IndInv, NEW h \in Handler, Claim(h) PROVE Promise!Next
<1> DEFINE a == My(h)
<1>1. a \in Spendable
  BY DEF IndInv, TypeOK, Claim, Spendable, My
<1>2. ReplayKey(a) \notin records
  BY DEF Claim
<1>3. tokens[a] = 0
  <2>1. tokens[a] \in Nat /\ ~(tokens[a] > 0)
    BY <1>1, <1>2 DEF IndInv, TypeOK, TokensAreRecorded, Spendable
  <2> QED
    BY <2>1
<1>4. \A g \in Handler : a \notin Granted[g]
  BY <1>2 DEF IndInv, CleaningUpIsRecorded, Granted
<1>5. /\ handler'[h].pc = "cleanup" /\ handler'[h].assertion = a
      /\ \A g \in Handler \ {h} : handler'[g] = handler[g]
  BY DEF IndInv, TypeOK, Claim, My
<1>6. Granted' = [Granted EXCEPT ![h] = {a}]
  BY <1>5 DEF Granted, My
<1>7. Issued[a] = 0 /\ Issued' = Issued
  BY <1>1, <1>3 DEF Issued, Claim
<1>8. Promise!Grant(h, a)
  BY <1>4, <1>6, <1>7 DEF Promise!Grant
<1> QED
  BY <1>1, <1>8 DEF Promise!Next

\* Signing ends the exchange: with a token for what it holds, or without.
LEMMA SignUses ==
    ASSUME IndInv, NEW h \in Handler, Sign(h), handler[h].pc = "cleanup" \/ ~SingleUse(My(h))
    PROVE  Promise!Next
<1> DEFINE a == My(h)
<1>1. /\ handler'[h].pc = "idle" /\ a \in Assertion
      /\ \A g \in Handler \ {h} : handler'[g] = handler[g]
  BY EndType DEF IndInv, Sign, TypeOK, My
<1>2. CASE UNCHANGED tokens
  BY <1>1, <1>2, MoveOn
<1>3. CASE tokens' = [tokens EXCEPT ![a] = @ + 1] /\ ~SingleUse(a)
  <2>1. \A b \in Spendable : tokens'[b] = tokens[b]
    BY <1>3 DEF Spendable, IndInv, TypeOK
  <2>2. \A g \in Handler : Granted'[g] = Granted[g] \/ Granted'[g] = {}
    BY <1>1 DEF Granted, My
  <2> QED
    BY <2>1, <2>2, LetGo
<1>4. CASE tokens' = [tokens EXCEPT ![a] = @ + 1] /\ SingleUse(a)
  <2>1. a \in Spendable /\ a \in Granted[h]
    BY <1>1, <1>4 DEF Spendable, Granted
  <2>2. Granted' = [Granted EXCEPT ![h] = {}]
    BY <1>1 DEF Granted, My
  <2>3. Issued' = [Issued EXCEPT ![a] = @ + 1]
    BY <1>4, <2>1 DEF Issued, Spendable, IndInv, TypeOK
  <2>4. Promise!Use(h, a)
    BY <2>1, <2>2, <2>3 DEF Promise!Use
  <2> QED
    BY <2>1, <2>4 DEF Promise!Next
<1> QED
  BY <1>2, <1>3, <1>4 DEF Sign

\* Every step of the service is one of the promise, or invisible to it.
LEMMA PromiseStep == IndInv /\ [Next]_vars => [Promise!Next]_Promise!vars
<1> SUFFICES ASSUME IndInv, [Next]_vars PROVE [Promise!Next]_Promise!vars
  OBVIOUS
<1>1. TypeOK /\ handler \in [Handler -> States]
  BY DEF IndInv, TypeOK, States, PCs
<1>2. ASSUME NEW h \in Handler, End(h), UNCHANGED tokens PROVE Promise!Next
  BY <1>1, <1>2, EndType, MoveOn
<1>3. ASSUME NEW h \in Handler, AwaitLedger(h), UNCHANGED tokens PROVE Promise!Next
  BY <1>1, <1>3, MoveOn DEF AwaitLedger, States
<1>4. ASSUME NEW h \in Handler, NEW a \in Assertion, Receive(h, a) PROVE Promise!Next
  BY <1>1, <1>4, MoveOn DEF Receive
<1>5. ASSUME NEW h \in Handler, Verified(h) PROVE Promise!Next
  BY <1>2, <1>3, <1>5, SignUses DEF Verified, Deny
<1>6. ASSUME NEW h \in Handler, Signed(h) PROVE Promise!Next
  BY <1>6, SignUses DEF Signed
<1>7. ASSUME NEW h \in Handler, BrowserExchange(h) PROVE Promise!Next
  BY <1>2, <1>3, <1>7 DEF BrowserExchange
<1>8. ASSUME NEW h \in Handler, Step(h) PROVE Promise!Next
  <2>1. CASE ReviewFailed(h) \/ VerifyInvalid(h) \/ VerifyUnavailable(h) \/ Replayed(h)
             \/ LedgerUnavailable(h) \/ Disconnect(h)
    BY <1>2, <2>1 DEF ReviewFailed, VerifyInvalid, VerifyUnavailable, Replayed,
                     LedgerUnavailable, Disconnect, Deny, Fail
  <2> QED
    BY <1>4, <1>5, <1>6, <1>7, <1>8, <2>1, ClaimGrants DEF Step
<1>9. ASSUME NEW r \in Replica, Restart(r) PROVE Promise!Next
  <2>1. \A g \in Handler : handler'[g] = handler[g] \/ handler'[g].pc = "idle"
    BY <1>9, IdleIsAState DEF Restart
  <2>2. \A g \in Handler : Granted'[g] = Granted[g] \/ Granted'[g] = {}
    BY <2>1 DEF Granted, My
  <2> QED
    BY <1>9, <2>2, LetGo DEF Restart
<1>10. ASSUME UNCHANGED <<handler, tokens>> PROVE UNCHANGED Promise!vars
  BY <1>10 DEF Promise!vars, Granted, Issued, My
<1> QED
  BY <1>8, <1>9, <1>10 DEF Next, ApplyLate, vars

\* The four exchange() together implement SingleUse, the promise of the trait
\* ReplayLedger, with the tokens they issue in place of the answers of use_once.
THEOREM ServiceKeepsPromise == Spec => TokensKeepPromise
  BY PromiseInit, PromiseStep, ExchangeInvariant, PTL DEF Spec, TokensKeepPromise, Promise!Spec

-----------------------------------------------------------------------------
(* Replays are repeats.                                                     *)

\* No two assertions are claimed under one key.
LEMMA ReplayKeyIsOwn ==
    ASSUME NEW a \in Assertion, NEW b \in Assertion, ReplayKey(a) = ReplayKey(b)
    PROVE  a = b
<1>1. ProfileOf[a] \in Profile /\ ProfileOf[b] \in Profile
  BY ExchangeAssumption
<1>2. SourceId[a] = SourceId[b]
  BY DEF ReplayKey
<1>3. \/ ProfileOf[a] = "oidc" /\ ProfileOf[b] = "oidc" /\ IssuerOf[a] = IssuerOf[b]
      \/ ProfileOf[a] = "browser" /\ ProfileOf[b] = "browser"
      \/ {ProfileOf[a], ProfileOf[b]} \subseteq {"github", "workload"}
  BY <1>1 DEF ReplayKey, Profile
<1> QED
  BY <1>2, <1>3, IdentifierAssumption

\* A step by which no handler goes to claim: what is spent by it was claimed
\* by a handler that does not wait for it any more.
LEMMA NoNewClaim ==
    ASSUME TypeOK, ClaimsAreCounted, claims' = claims,
           \A g \in Handler : handler'[g].pc = "claim" => handler'[g] = handler[g],
           \A k \in records' \union late' :
               \/ k \in records \union late
               \/ \E h \in Handler : /\ handler[h].pc = "claim" /\ handler'[h].pc # "claim"
                                     /\ k = ReplayKey(My(h))
    PROVE  ClaimsAreCounted'
<1>1. \A g \in Handler, a \in Assertion : Claiming(g, a)' => Claiming(g, a)
  BY DEF Claiming, My
<1>2. \A h \in Handler : My(h) \in Assertion
  BY DEF TypeOK, My
<1>3. ASSUME NEW a \in Assertion, Spent(a)'
      PROVE  \/ Spent(a)
             \/ \E h \in Handler : Claiming(h, a) /\ ~Claiming(h, a)'
  <2>1. ReplayKey(a) \in records' \union late'
    BY <1>3 DEF Spent, ReplayKey
  <2>2. CASE ReplayKey(a) \in records \union late
    BY <2>2 DEF Spent
  <2>3. ASSUME NEW h \in Handler, handler[h].pc = "claim", handler'[h].pc # "claim",
               ReplayKey(a) = ReplayKey(My(h))
        PROVE  Claiming(h, a) /\ ~Claiming(h, a)'
    <3>1. a = My(h)
      BY <1>2, <2>3, ReplayKeyIsOwn
    <3> QED
      BY <2>3, <3>1 DEF Claiming
  <2> QED
    BY <2>1, <2>2, <2>3
<1> SUFFICES ASSUME NEW a \in Assertion
             PROVE  /\ Spent(a)' => claims[a] > 0
                    /\ \A h \in Handler : Claiming(h, a)' =>
                          /\ claims[a] > 0
                          /\ Spent(a)' => claims[a] > 1
                          /\ \A g \in Handler \ {h} : Claiming(g, a)' => claims[a] > 1
  BY DEF ClaimsAreCounted
<1>4. Spent(a)' => claims[a] > 0
  BY <1>3 DEF ClaimsAreCounted
<1>5. ASSUME NEW h \in Handler, Claiming(h, a)', Spent(a)' PROVE claims[a] > 1
  BY <1>1, <1>3, <1>5 DEF ClaimsAreCounted
<1> QED
  BY <1>1, <1>4, <1>5 DEF ClaimsAreCounted

\* A handler goes to claim its assertion, and that is counted.
LEMMA NewClaim ==
    ASSUME TypeOK, ClaimsAreCounted, NEW h \in Handler, AwaitLedger(h),
           handler[h].pc # "claim", UNCHANGED <<records, late>>
    PROVE  ClaimsAreCounted'
<1>1. handler \in [Handler -> States] /\ claims \in [Assertion -> Nat] /\ My(h) \in Assertion
  BY DEF TypeOK, States, PCs, My
<1>2. PICK b \in Assertion : b = My(h)
  BY <1>1
<1>3. /\ handler'[h].pc = "claim" /\ handler'[h].assertion = b
      /\ \A g \in Handler \ {h} : handler'[g] = handler[g]
  BY <1>1, <1>2 DEF AwaitLedger, My, States
<1>4. claims'[b] = claims[b] + 1 /\ \A a \in Assertion \ {b} : claims'[a] = claims[a]
  BY <1>1, <1>2 DEF AwaitLedger
<1>5. \A a \in Assertion : Spent(a)' <=> Spent(a)
  BY DEF Spent, ReplayKey
<1>6. \A a \in Assertion, g \in Handler \ {h} : Claiming(g, a)' <=> Claiming(g, a)
  BY <1>3 DEF Claiming, My
<1>7. \A a \in Assertion : Claiming(h, a)' <=> a = b
  BY <1>3 DEF Claiming, My
<1> SUFFICES ASSUME NEW a \in Assertion
             PROVE  /\ Spent(a)' => claims'[a] > 0
                    /\ \A f \in Handler : Claiming(f, a)' =>
                          /\ claims'[a] > 0
                          /\ Spent(a)' => claims'[a] > 1
                          /\ \A g \in Handler \ {f} : Claiming(g, a)' => claims'[a] > 1
  BY DEF ClaimsAreCounted
<1>8. CASE a # b
  BY <1>4, <1>5, <1>6, <1>7, <1>8 DEF ClaimsAreCounted
<1>9. CASE a = b
  <2>1. claims[b] \in Nat /\ claims'[b] = claims[b] + 1
    BY <1>1, <1>4
  <2>2. Spent(b) => claims[b] > 0
    BY DEF ClaimsAreCounted
  <2>3. \A g \in Handler : Claiming(g, b) => claims[b] > 0
    BY DEF ClaimsAreCounted
  <2>4. claims'[b] > 0
    BY <2>1
  <2>5. Spent(b)' => claims'[b] > 1
    BY <1>5, <2>1, <2>2
  <2>6. \A g \in Handler \ {h} : Claiming(g, b)' => claims'[b] > 1
    BY <1>6, <2>1, <2>3
  <2> QED
    BY <1>9, <2>4, <2>5, <2>6
<1> QED
  BY <1>8, <1>9

\* Ending a handler, with its claim lost or left behind.
LEMMA EndClaim ==
    ASSUME TypeOK, ClaimsAreCounted, NEW h \in Handler, End(h), Abandon(h),
           UNCHANGED <<records, claims>>
    PROVE  ClaimsAreCounted'
<1>1. handler'[h].pc = "idle" /\ \A g \in Handler \ {h} : handler'[g] = handler[g]
  BY EndType
<1> QED
  BY <1>1, NoNewClaim DEF Abandon

\* Every step of a handler counts the claims it makes.
LEMMA ClaimsStep ==
    ASSUME TypeOK, ClaimsAreCounted, [Next]_vars
    PROVE  ClaimsAreCounted'
<1>1. handler \in [Handler -> States]
  BY DEF TypeOK, States, PCs
<1>2. ASSUME NEW h \in Handler, End(h), UNCHANGED <<records, late, claims>>
      PROVE  ClaimsAreCounted'
  BY <1>2, EndClaim DEF Abandon
<1>3. ASSUME NEW h \in Handler, NEW a \in Assertion, Receive(h, a) PROVE ClaimsAreCounted'
  <2>1. handler'[h].pc # "claim" /\ \A g \in Handler \ {h} : handler'[g] = handler[g]
    BY <1>1, <1>3 DEF Receive
  <2> QED
    BY <1>3, <2>1, NoNewClaim DEF Receive
<1>4. ASSUME NEW h \in Handler, ReviewFailed(h) \/ VerifyInvalid(h) \/ VerifyUnavailable(h)
                                \/ Replayed(h) \/ Signed(h)
      PROVE  ClaimsAreCounted'
  BY <1>2, <1>4 DEF ReviewFailed, VerifyInvalid, VerifyUnavailable, Replayed, Signed, Deny, Fail, Sign
<1>5. ASSUME NEW h \in Handler, BrowserExchange(h) \/ Verified(h) PROVE ClaimsAreCounted'
  <2>1. UNCHANGED <<records, late>> /\ handler[h].pc # "claim"
    BY <1>5 DEF BrowserExchange, Verified
  <2>2. CASE End(h) /\ UNCHANGED claims
    BY <1>2, <2>1, <2>2
  <2>3. CASE AwaitLedger(h)
    BY <2>1, <2>3, NewClaim
  <2> QED
    BY <1>5, <2>2, <2>3 DEF BrowserExchange, Verified, Deny, Sign
<1>6. ASSUME NEW h \in Handler, Claim(h) PROVE ClaimsAreCounted'
  <2>1. handler'[h].pc = "cleanup" /\ \A g \in Handler \ {h} : handler'[g] = handler[g]
    BY <1>1, <1>6 DEF Claim, States
  <2> QED
    BY <1>6, <2>1, NoNewClaim DEF Claim
<1>7. ASSUME NEW h \in Handler, LedgerUnavailable(h) \/ Disconnect(h) PROVE ClaimsAreCounted'
  BY <1>7, EndClaim DEF LedgerUnavailable, Disconnect, Fail
<1>8. ASSUME NEW k \in late, ApplyLate(k) PROVE ClaimsAreCounted'
  BY <1>8, NoNewClaim DEF ApplyLate
<1>9. ASSUME NEW r \in Replica, Restart(r) PROVE ClaimsAreCounted'
  <2>1. \A g \in Handler : handler'[g] = IF ReplicaOf[g] = r THEN Idle ELSE handler[g]
    BY <1>9 DEF Restart
  <2>2. PICK lost \in SUBSET {h \in Handler : ReplicaOf[h] = r /\ handler[h].pc = "claim"} :
            late' = late \union {ReplayKey(My(h)) : h \in lost}
    BY <1>9 DEF Restart
  <2>3. \A g \in Handler : handler'[g].pc = "claim" => handler'[g] = handler[g]
    BY <2>1, IdleIsAState
  <2>4. \A g \in lost : g \in Handler /\ handler[g].pc = "claim" /\ handler'[g].pc # "claim"
    BY <2>1, <2>2, IdleIsAState
  <2>5. UNCHANGED <<records, claims>>
    BY <1>9 DEF Restart
  <2>6. \A k \in records' \union late' :
               \/ k \in records \union late
               \/ \E h \in Handler : /\ handler[h].pc = "claim" /\ handler'[h].pc # "claim"
                                     /\ k = ReplayKey(My(h))
    BY <2>2, <2>4, <2>5
  <2> QED
    BY <2>3, <2>5, <2>6, NoNewClaim
<1>10. ASSUME UNCHANGED <<handler, records, late, claims>> PROVE ClaimsAreCounted'
  BY <1>10, NoNewClaim
<1>11. CASE UNCHANGED vars
  BY <1>10, <1>11 DEF vars
<1> QED
  BY <1>3, <1>4, <1>5, <1>6, <1>7, <1>8, <1>9, <1>11 DEF Next, Step

\* use_once returns Replayed only for an assertion that another exchange went
\* to claim, for every number of profiles, issuers and identifiers they share.
THEOREM ReplaysRepeat == Spec => []ReplaysAreRepeats
<1>1. Init => ClaimsAreCounted
  <2> SUFFICES ASSUME Init PROVE ClaimsAreCounted
    OBVIOUS
  <2>1. \A h \in Handler, a \in Assertion : ~Claiming(h, a)
    BY IdleIsAState DEF Init, Claiming
  <2>2. \A a \in Assertion : ~Spent(a)
    BY DEF Init, Spent
  <2> QED
    BY <2>1, <2>2 DEF ClaimsAreCounted
<1>2. IndInv /\ ClaimsAreCounted /\ [Next]_vars => ClaimsAreCounted'
  BY ClaimsStep DEF IndInv
<1>3. IndInv /\ ClaimsAreCounted => ReplaysAreRepeats
  <2> SUFFICES ASSUME IndInv, ClaimsAreCounted, NEW h \in Handler,
                      handler[h].pc = "claim", ReplayKey(My(h)) \in records
               PROVE  claims[My(h)] > 1
    BY DEF ReplaysAreRepeats
  <2>1. My(h) \in Assertion /\ Claiming(h, My(h)) /\ Spent(My(h))
    BY DEF IndInv, TypeOK, My, Claiming, Spent
  <2> QED
    BY <2>1 DEF ClaimsAreCounted
<1> QED
  BY <1>1, <1>2, <1>3, ExchangeInvariant, PTL DEF Spec

-----------------------------------------------------------------------------
\* Every request is counted.

Requests(r, p) == metrics[r][p]["requests"]

\* Exchanges that returned or were cut off.
Closed(r, p) == LET m == metrics[r][p]
                IN  m["issued"] + Refused(p, m) + m["errors"] + dropped[r][p]

Open(r, p) == Cardinality(Running(r, p))

Busy(h) == handler[h].pc \notin {"idle", "review"}

Balanced(r, p) == Requests(r, p) = Closed(r, p) + Open(r, p)

Timed(r) == observed[r] + Open(r, "github") = Requests(r, "github")

\* The property, account by account.
LEMMA CountedByAccount ==
    EveryRequestIsCounted <=> \A r \in Replica : Timed(r) /\ \A p \in Profile : Balanced(r, p)
BY DEF EveryRequestIsCounted, Timed, Balanced, Requests, Closed, Open

\* The accounts are numbers.
LEMMA AccountTypes ==
    ASSUME TypeOK, NEW r \in Replica, NEW p \in Profile
    PROVE  /\ Requests(r, p) \in Nat /\ Closed(r, p) \in Nat /\ observed[r] \in Nat
           /\ IsFiniteSet(Running(r, p)) /\ Open(r, p) \in Nat
<1>1. metrics[r][p] \in [Counter -> Nat] /\ dropped[r][p] \in Nat /\ observed[r] \in Nat
  BY DEF TypeOK
<1>2. \A c \in Counter : metrics[r][p][c] \in Nat
  BY <1>1
<1>3. Requests(r, p) \in Nat
  BY <1>2 DEF Requests, Counter
<1>4. Closed(r, p) \in Nat
  BY <1>1, <1>2 DEF Closed, Refused, Counter
<1>5. IsFiniteSet(Running(r, p))
  <2>1. Running(r, p) \subseteq Handler
    BY DEF Running
  <2> QED
    BY <2>1, ExchangeAssumption, FS_Subset
<1> QED
  BY <1>1, <1>3, <1>4, <1>5, FS_CardinalityType DEF Open

\* A step that touches one account only is judged by that account.
LEMMA OneAccount ==
    ASSUME EveryRequestIsCounted, NEW s \in Replica, NEW q \in Profile,
           \A r \in Replica, p \in Profile : r # s \/ p # q =>
               Requests(r, p)' = Requests(r, p) /\ Closed(r, p)' = Closed(r, p)
                   /\ Open(r, p)' = Open(r, p),
           \A r \in Replica : r # s \/ q # "github" => observed'[r] = observed[r],
           Balanced(s, q)', q = "github" => Timed(s)'
    PROVE  EveryRequestIsCounted'
<1>1. \A r \in Replica : Timed(r) /\ \A p \in Profile : Balanced(r, p)
  BY CountedByAccount
<1>2. \A r \in Replica, p \in Profile : Balanced(r, p)'
  BY <1>1 DEF Balanced
<1>3. "github" \in Profile
  BY DEF Profile
<1>4. ASSUME NEW r \in Replica PROVE Timed(r)'
  <2>1. CASE r = s /\ q = "github"
    BY <2>1
  <2>2. CASE r # s \/ q # "github"
    BY <1>1, <1>3, <2>2 DEF Timed
  <2> QED
    BY <2>1, <2>2
<1> QED
  BY <1>2, <1>4 DEF EveryRequestIsCounted, Timed, Balanced, Requests, Closed, Open

\* A handler that moves opens or closes its own account's exchange only.
LEMMA OpenStep ==
    ASSUME TypeOK, NEW h \in Handler, NEW q \in Profile,
           \A g \in Handler \ {h} : handler'[g] = handler[g],
           Busy(h) => MyProfile(h) = q, Busy(h)' => MyProfile(h)' = q
    PROVE  /\ \A r \in Replica, p \in Profile : r # ReplicaOf[h] \/ p # q =>
                  Open(r, p)' = Open(r, p)
           /\ Busy(h) /\ Busy(h)' => Open(ReplicaOf[h], q)' = Open(ReplicaOf[h], q)
           /\ ~Busy(h) /\ ~Busy(h)' => Open(ReplicaOf[h], q)' = Open(ReplicaOf[h], q)
           /\ ~Busy(h) /\ Busy(h)' => Open(ReplicaOf[h], q)' = Open(ReplicaOf[h], q) + 1
           /\ Busy(h) /\ ~Busy(h)' => Open(ReplicaOf[h], q)' = Open(ReplicaOf[h], q) - 1
<1>1. \A r, p : Running(r, p) = {g \in Handler : Busy(g) /\ ReplicaOf[g] = r /\ MyProfile(g) = p}
  BY DEF Running, Busy
<1>2. \A r, p : Running(r, p)' = {g \in Handler : Busy(g)' /\ ReplicaOf[g] = r /\ MyProfile(g)' = p}
  BY DEF Running, Busy
<1>3. \A g \in Handler \ {h} : (Busy(g)' <=> Busy(g)) /\ MyProfile(g)' = MyProfile(g)
  BY DEF Busy, MyProfile, My
<1>4. ASSUME NEW r \in Replica, NEW p \in Profile, r # ReplicaOf[h] \/ p # q
      PROVE  Open(r, p)' = Open(r, p)
  <2>1. Running(r, p)' = Running(r, p)
    BY <1>1, <1>2, <1>3, <1>4
  <2> QED
    BY <2>1 DEF Open
<1>5. ReplicaOf[h] \in Replica
  BY ExchangeAssumption
<1>6. PICK s \in Replica : s = ReplicaOf[h]
  BY <1>5
<1>7. IsFiniteSet(Running(s, q))
  BY AccountTypes
<1>8. Busy(h) <=> h \in Running(s, q)
  BY <1>1, <1>6
<1>9. ASSUME Busy(h) <=> Busy(h)' PROVE Open(s, q)' = Open(s, q)
  <2>1. Running(s, q)' = Running(s, q)
    BY <1>1, <1>2, <1>3, <1>6, <1>9
  <2> QED
    BY <2>1 DEF Open
<1>10. ASSUME ~Busy(h), Busy(h)' PROVE Open(s, q)' = Open(s, q) + 1
  <2>1. Running(s, q)' = Running(s, q) \union {h}
    BY <1>1, <1>2, <1>3, <1>6, <1>10
  <2> QED
    BY <1>7, <1>8, <1>10, <2>1, FS_AddElement DEF Open
<1>11. ASSUME Busy(h), ~Busy(h)' PROVE Open(s, q)' = Open(s, q) - 1
  <2>1. Running(s, q)' = Running(s, q) \ {h}
    BY <1>1, <1>2, <1>3, <1>6, <1>11
  <2> QED
    BY <1>7, <1>8, <1>11, <2>1, FS_RemoveElement DEF Open
<1> QED
  BY <1>4, <1>6, <1>9, <1>10, <1>11

\* What fetch_add leaves in the counters.
LEMMA CountValues ==
    ASSUME TypeOK, NEW h \in Handler, NEW names, Count(h, names)
    PROVE  /\ \A r \in Replica, p \in Profile : r # ReplicaOf[h] \/ p # MyProfile(h) =>
                  metrics'[r][p] = metrics[r][p]
           /\ \A c \in Counter :
                  metrics'[ReplicaOf[h]][MyProfile(h)][c] =
                      metrics[ReplicaOf[h]][MyProfile(h)][c] + (IF c \in names THEN 1 ELSE 0)
<1>1. ReplicaOf[h] \in Replica /\ MyProfile(h) \in Profile
  BY ExchangeAssumption DEF TypeOK, MyProfile, My
<1> DEFINE s == ReplicaOf[h]
           q == MyProfile(h)
           m == [c \in Counter |-> IF c \in names THEN metrics[s][q][c] + 1 ELSE metrics[s][q][c]]
<1>2. metrics \in [Replica -> [Profile -> [Counter -> Nat]]]
  BY DEF TypeOK
<1>3. metrics[s] \in [Profile -> [Counter -> Nat]] /\ metrics[s][q] \in [Counter -> Nat]
  BY <1>1, <1>2
<1>4. metrics' = [metrics EXCEPT ![s] = [metrics[s] EXCEPT ![q] = m]]
  BY <1>1, <1>3 DEF Count, TypeOK
<1>5. \A c \in Counter : m[c] = metrics[s][q][c] + (IF c \in names THEN 1 ELSE 0)
  BY <1>3
<1> HIDE DEF m
<1>6. metrics'[s] = [metrics[s] EXCEPT ![q] = m] /\ \A r \in Replica \ {s} : metrics'[r] = metrics[r]
  BY <1>1, <1>2, <1>4
<1>7. metrics'[s][q] = m /\ \A p \in Profile \ {q} : metrics'[s][p] = metrics[s][p]
  BY <1>1, <1>3, <1>6
<1> QED
  BY <1>5, <1>6, <1>7

\* What an account holds depends on its own counters and exchanges.
LEMMA SameAccount ==
    ASSUME NEW r, NEW p, metrics'[r][p] = metrics[r][p], dropped'[r][p] = dropped[r][p]
    PROVE  Requests(r, p)' = Requests(r, p) /\ Closed(r, p)' = Closed(r, p)
BY DEF Requests, Closed, Refused

\* An exchange ends and is accounted for.
LEMMA CloseOne ==
    ASSUME TypeOK, EveryRequestIsCounted, NEW h \in Handler, End(h), Busy(h),
           NEW s \in Replica, s = ReplicaOf[h], NEW q \in Profile, q = MyProfile(h),
           \A r \in Replica, p \in Profile : r # s \/ p # q =>
               metrics'[r][p] = metrics[r][p] /\ dropped'[r][p] = dropped[r][p],
           Requests(s, q)' = Requests(s, q), Closed(s, q)' = Closed(s, q) + 1
    PROVE  EveryRequestIsCounted'
<1>1. handler'[h].pc = "idle" /\ \A g \in Handler \ {h} : handler'[g] = handler[g]
  BY EndType
<1>2. ~Busy(h)'
  BY <1>1 DEF Busy
<1>3. /\ \A r \in Replica, p \in Profile : r # s \/ p # q => Open(r, p)' = Open(r, p)
      /\ Open(s, q)' = Open(s, q) - 1
  BY <1>1, <1>2, OpenStep
<1>4. \A r \in Replica, p \in Profile : r # s \/ p # q =>
          Requests(r, p)' = Requests(r, p) /\ Closed(r, p)' = Closed(r, p)
  BY SameAccount
<1>5. observed' = [observed EXCEPT ![s] = IF q = "github" THEN @ + 1 ELSE @]
  BY DEF End
<1>6. observed \in [Replica -> Nat]
  BY DEF TypeOK
<1>7. \A r \in Replica : r # s \/ q # "github" => observed'[r] = observed[r]
  BY <1>5, <1>6
<1>8. q = "github" => observed'[s] = observed[s] + 1
  BY <1>5, <1>6
<1>9. Requests(s, q) \in Nat /\ Closed(s, q) \in Nat /\ Open(s, q) \in Nat /\ observed[s] \in Nat
  BY AccountTypes
<1>10. Balanced(s, q) /\ Timed(s)
  BY CountedByAccount
<1>11. Balanced(s, q)'
  BY <1>3, <1>9, <1>10 DEF Balanced
<1>12. q = "github" => Timed(s)'
  BY <1>3, <1>8, <1>9, <1>10 DEF Timed
<1> QED
  BY <1>3, <1>4, <1>7, <1>11, <1>12, OneAccount

\* exchange() returns: one of the ways in which a request is accounted for.
LEMMA CountedEnd ==
    ASSUME TypeOK, EveryRequestIsCounted, NEW h \in Handler, End(h), Busy(h),
           NEW names, Count(h, names), dropped' = dropped,
           \/ names \in {{"issued"}, {"errors"}, {"denied"}}
           \/ names = {"replayed"} /\ MyProfile(h) \notin {"oidc", "workload"}
           \/ names = {"replayed", "denied"} /\ MyProfile(h) = "oidc"
    PROVE  EveryRequestIsCounted'
<1>1. ReplicaOf[h] \in Replica /\ MyProfile(h) \in Profile
  BY ExchangeAssumption DEF TypeOK, MyProfile, My
<1>2. PICK s \in Replica, q \in Profile : s = ReplicaOf[h] /\ q = MyProfile(h)
  BY <1>1
<1>3. /\ \A r \in Replica, p \in Profile : r # s \/ p # q => metrics'[r][p] = metrics[r][p]
      /\ \A c \in Counter : metrics'[s][q][c] = metrics[s][q][c] + (IF c \in names THEN 1 ELSE 0)
  BY <1>2, CountValues
<1>4. metrics[s][q] \in [Counter -> Nat] /\ dropped[s][q] \in Nat
  BY DEF TypeOK
<1> DEFINE m(c) == metrics[s][q][c]
           n(c) == metrics'[s][q][c]
<1>5. /\ m("requests") \in Nat /\ m("issued") \in Nat /\ m("denied") \in Nat
      /\ m("replayed") \in Nat /\ m("errors") \in Nat
  BY <1>4 DEF Counter
<1>6. /\ n("requests") = m("requests")
      /\ n("issued") = m("issued") + (IF "issued" \in names THEN 1 ELSE 0)
      /\ n("denied") = m("denied") + (IF "denied" \in names THEN 1 ELSE 0)
      /\ n("replayed") = m("replayed") + (IF "replayed" \in names THEN 1 ELSE 0)
      /\ n("errors") = m("errors") + (IF "errors" \in names THEN 1 ELSE 0)
  <2>1. "requests" \notin names
    OBVIOUS
  <2> QED
    BY <1>3, <1>5, <2>1 DEF Counter
<1>7. Requests(s, q)' = Requests(s, q)
  BY <1>6 DEF Requests
<1>8. Closed(s, q) = m("issued") + (IF q \in {"oidc", "workload"} THEN m("denied") ELSE m("denied") + m("replayed"))
                         + m("errors") + dropped[s][q]
  BY DEF Closed, Refused
<1>9. Closed(s, q)' = n("issued") + (IF q \in {"oidc", "workload"} THEN n("denied") ELSE n("denied") + n("replayed"))
                         + n("errors") + dropped[s][q]
  BY DEF Closed, Refused
<1> HIDE DEF m, n
<1>10. Closed(s, q)' = Closed(s, q) + 1
  <2>1. CASE names = {"issued"}
    BY <1>4, <1>5, <1>6, <1>8, <1>9, <2>1
  <2>2. CASE names = {"errors"}
    BY <1>4, <1>5, <1>6, <1>8, <1>9, <2>2
  <2>3. CASE names = {"denied"}
    BY <1>4, <1>5, <1>6, <1>8, <1>9, <2>3
  <2>4. CASE names = {"replayed"} /\ q \notin {"oidc", "workload"}
    BY <1>4, <1>5, <1>6, <1>8, <1>9, <2>4
  <2>5. CASE names = {"replayed", "denied"} /\ q = "oidc"
    BY <1>4, <1>5, <1>6, <1>8, <1>9, <2>5
  <2> QED
    BY <1>2, <2>1, <2>2, <2>3, <2>4, <2>5
<1> QED
  BY <1>2, <1>3, <1>7, <1>10, CloseOne

\* A request is counted and its exchange begins, is refused at once, or
\* an exchange moves on.
LEMMA MoveOne ==
    ASSUME TypeOK, EveryRequestIsCounted, NEW h \in Handler,
           \A g \in Handler \ {h} : handler'[g] = handler[g],
           NEW s \in Replica, s = ReplicaOf[h], NEW q \in Profile,
           Busy(h) => MyProfile(h) = q, Busy(h)' => MyProfile(h)' = q,
           \A r \in Replica, p \in Profile : r # s \/ p # q => metrics'[r][p] = metrics[r][p],
           dropped' = dropped, observed' = observed,
           \/ (Busy(h) <=> Busy(h)') /\ metrics'[s][q] = metrics[s][q]
           \/ /\ ~Busy(h) /\ Busy(h)'
              /\ Requests(s, q)' = Requests(s, q) + 1 /\ Closed(s, q)' = Closed(s, q)
           \/ /\ ~Busy(h) /\ ~Busy(h)' /\ q # "github"
              /\ Requests(s, q)' = Requests(s, q) + 1 /\ Closed(s, q)' = Closed(s, q) + 1
    PROVE  EveryRequestIsCounted'
<1>1. \A r \in Replica, p \in Profile : r # s \/ p # q => Open(r, p)' = Open(r, p)
  BY OpenStep
<1>2. \A r \in Replica, p \in Profile : r # s \/ p # q =>
          Requests(r, p)' = Requests(r, p) /\ Closed(r, p)' = Closed(r, p)
  BY SameAccount
<1>3. Requests(s, q) \in Nat /\ Closed(s, q) \in Nat /\ Open(s, q) \in Nat /\ observed[s] \in Nat
  BY AccountTypes
<1>4. Balanced(s, q) /\ Timed(s)
  BY CountedByAccount
<1>5. Balanced(s, q)' /\ (q = "github" => Timed(s)')
  <2>1. CASE (Busy(h) <=> Busy(h)') /\ metrics'[s][q] = metrics[s][q]
    <3>1. Open(s, q)' = Open(s, q)
      BY <2>1, OpenStep
    <3>2. Requests(s, q)' = Requests(s, q) /\ Closed(s, q)' = Closed(s, q)
      BY <2>1, SameAccount
    <3> QED
      BY <1>4, <3>1, <3>2 DEF Balanced, Timed
  <2>2. CASE /\ ~Busy(h) /\ Busy(h)'
             /\ Requests(s, q)' = Requests(s, q) + 1 /\ Closed(s, q)' = Closed(s, q)
    <3>1. Open(s, q)' = Open(s, q) + 1
      BY <2>2, OpenStep
    <3> QED
      BY <1>3, <1>4, <2>2, <3>1 DEF Balanced, Timed
  <2>3. CASE /\ ~Busy(h) /\ ~Busy(h)' /\ q # "github"
             /\ Requests(s, q)' = Requests(s, q) + 1 /\ Closed(s, q)' = Closed(s, q) + 1
    <3>1. Open(s, q)' = Open(s, q)
      BY <2>3, OpenStep
    <3> QED
      BY <1>3, <1>4, <2>3, <3>1 DEF Balanced
  <2> QED
    BY <2>1, <2>2, <2>3
<1> QED
  BY <1>1, <1>2, <1>5, OneAccount

\* Receive counts the request of an exchange that begins; the browser route
\* has not come to exchange() yet.
LEMMA CountedReceive ==
    ASSUME TypeOK, EveryRequestIsCounted, NEW h \in Handler, NEW a \in Assertion, Receive(h, a)
    PROVE  EveryRequestIsCounted'
<1>1. handler \in [Handler -> States] /\ metrics \in [Replica -> [Profile -> [Counter -> Nat]]]
  BY DEF TypeOK, States, PCs
<1>2. PICK s \in Replica, q \in Profile : s = ReplicaOf[h] /\ q = ProfileOf[a]
  BY ExchangeAssumption
<1>3. ~Busy(h) /\ dropped' = dropped /\ observed' = observed
  BY DEF Receive, Busy
<1>4. CASE q = "browser"
  <2>1. handler' = [handler EXCEPT ![h] = [pc |-> "review", assertion |-> a]] /\ metrics' = metrics
    BY <1>2, <1>4 DEF Receive
  <2>2. ~Busy(h)' /\ \A g \in Handler \ {h} : handler'[g] = handler[g]
    BY <1>1, <2>1 DEF Busy
  <2> QED
    BY <1>2, <1>3, <2>1, <2>2, MoveOne
<1>5. CASE q # "browser"
  <2>1. /\ handler' = [handler EXCEPT ![h] = [pc |-> "verify", assertion |-> a]]
        /\ metrics' = [metrics EXCEPT ![s][q]["requests"] = @ + 1]
    BY <1>2, <1>5 DEF Receive
  <2>2. /\ handler'[h] = [pc |-> "verify", assertion |-> a]
        /\ \A g \in Handler \ {h} : handler'[g] = handler[g]
    BY <1>1, <2>1
  <2>3. Busy(h)' /\ MyProfile(h)' = q
    BY <1>2, <2>2 DEF Busy, MyProfile, My
  <2> DEFINE m == [metrics[s][q] EXCEPT !["requests"] = @ + 1]
  <2>4. metrics[s] \in [Profile -> [Counter -> Nat]] /\ metrics[s][q] \in [Counter -> Nat]
    BY <1>1
  <2>5. metrics' = [metrics EXCEPT ![s] = [metrics[s] EXCEPT ![q] = m]]
    BY <1>1, <2>1
  <2>6. m["requests"] = metrics[s][q]["requests"] + 1
        /\ \A c \in Counter \ {"requests"} : m[c] = metrics[s][q][c]
    BY <2>4 DEF Counter
  <2> HIDE DEF m
  <2>7. metrics'[s] = [metrics[s] EXCEPT ![q] = m] /\ \A r \in Replica \ {s} : metrics'[r] = metrics[r]
    BY <1>1, <2>5
  <2>8. metrics'[s][q] = m /\ \A p \in Profile \ {q} : metrics'[s][p] = metrics[s][p]
    BY <2>4, <2>7
  <2>9. \A r \in Replica, p \in Profile : r # s \/ p # q => metrics'[r][p] = metrics[r][p]
    BY <2>7, <2>8
  <2>10. Requests(s, q)' = Requests(s, q) + 1
    BY <2>6, <2>8 DEF Requests
  <2>11. Closed(s, q)' = Closed(s, q)
    <3>1. m["issued"] = metrics[s][q]["issued"] /\ m["denied"] = metrics[s][q]["denied"]
          /\ m["replayed"] = metrics[s][q]["replayed"] /\ m["errors"] = metrics[s][q]["errors"]
      BY <2>6 DEF Counter
    <3> QED
      BY <1>3, <2>8, <3>1 DEF Closed, Refused
  <2> QED
    BY <1>2, <1>3, <2>2, <2>3, <2>9, <2>10, <2>11, MoveOne
<1> QED
  BY <1>4, <1>5

\* browser_hop1 counts a request and refuses it, or goes to claim.
LEMMA CountedBrowser ==
    ASSUME TypeOK, EveryRequestIsCounted, NEW h \in Handler, BrowserExchange(h),
           MyProfile(h) = "browser"
    PROVE  EveryRequestIsCounted'
<1>1. PICK s \in Replica, q \in Profile : s = ReplicaOf[h] /\ q = "browser"
  BY ExchangeAssumption DEF Profile
<1>2. ~Busy(h) /\ dropped' = dropped
  BY DEF BrowserExchange, Busy
<1>3. metrics[s][q] \in [Counter -> Nat] /\ dropped[s][q] \in Nat /\ observed \in [Replica -> Nat]
      /\ handler \in [Handler -> States]
  BY DEF TypeOK, States, PCs
<1>4. /\ metrics[s][q]["requests"] \in Nat /\ metrics[s][q]["issued"] \in Nat
      /\ metrics[s][q]["denied"] \in Nat /\ metrics[s][q]["replayed"] \in Nat
      /\ metrics[s][q]["errors"] \in Nat
  BY <1>3 DEF Counter
<1>5. CASE End(h) /\ Count(h, {"requests", "denied"})
  <2>1. handler'[h].pc = "idle" /\ \A g \in Handler \ {h} : handler'[g] = handler[g]
    BY <1>5, EndType
  <2>2. ~Busy(h)' /\ observed' = observed
    BY <1>3, <1>5, <2>1 DEF Busy, End
  <2>3. /\ \A r \in Replica, p \in Profile : r # s \/ p # q => metrics'[r][p] = metrics[r][p]
        /\ \A c \in Counter : metrics'[s][q][c] =
               metrics[s][q][c] + (IF c \in {"requests", "denied"} THEN 1 ELSE 0)
    <3>1. s = ReplicaOf[h] /\ q = MyProfile(h) /\ Count(h, {"requests", "denied"})
      BY <1>1, <1>5
    <3> QED
      BY <3>1, CountValues
  <2>4. /\ metrics'[s][q]["requests"] = metrics[s][q]["requests"] + 1
        /\ metrics'[s][q]["issued"] = metrics[s][q]["issued"]
        /\ metrics'[s][q]["denied"] = metrics[s][q]["denied"] + 1
        /\ metrics'[s][q]["replayed"] = metrics[s][q]["replayed"]
        /\ metrics'[s][q]["errors"] = metrics[s][q]["errors"]
    BY <1>4, <2>3 DEF Counter
  <2>5. Requests(s, q)' = Requests(s, q) + 1 /\ Closed(s, q)' = Closed(s, q) + 1
    BY <1>1, <1>2, <1>3, <1>4, <2>4 DEF Requests, Closed, Refused
  <2> QED
    BY <1>1, <1>2, <2>1, <2>2, <2>3, <2>5, MoveOne
<1>6. CASE AwaitLedger(h) /\ Count(h, {"requests"})
  <2>1. /\ handler'[h].pc = "claim" /\ My(h)' = My(h) /\ observed' = observed
        /\ \A g \in Handler \ {h} : handler'[g] = handler[g]
    BY <1>3, <1>6 DEF AwaitLedger, My, States
  <2>2. Busy(h)' /\ MyProfile(h)' = q
    BY <1>1, <2>1 DEF Busy, MyProfile
  <2>3. /\ \A r \in Replica, p \in Profile : r # s \/ p # q => metrics'[r][p] = metrics[r][p]
        /\ \A c \in Counter : metrics'[s][q][c] =
               metrics[s][q][c] + (IF c \in {"requests"} THEN 1 ELSE 0)
    <3>1. s = ReplicaOf[h] /\ q = MyProfile(h) /\ Count(h, {"requests"})
      BY <1>1, <1>6
    <3> QED
      BY <3>1, CountValues
  <2>4. /\ metrics'[s][q]["requests"] = metrics[s][q]["requests"] + 1
        /\ metrics'[s][q]["issued"] = metrics[s][q]["issued"]
        /\ metrics'[s][q]["denied"] = metrics[s][q]["denied"]
        /\ metrics'[s][q]["replayed"] = metrics[s][q]["replayed"]
        /\ metrics'[s][q]["errors"] = metrics[s][q]["errors"]
    BY <1>4, <2>3 DEF Counter
  <2>5. Requests(s, q)' = Requests(s, q) + 1 /\ Closed(s, q)' = Closed(s, q)
    BY <1>2, <2>4 DEF Requests, Closed, Refused
  <2> QED
    BY <1>1, <1>2, <2>1, <2>2, <2>3, <2>5, MoveOne
<1> QED
  BY <1>5, <1>6 DEF BrowserExchange

\* The timer and the history of cut-off exchanges count a dropped future.
LEMMA CountedDisconnect ==
    ASSUME TypeOK, EveryRequestIsCounted, NEW h \in Handler, Disconnect(h), Busy(h)
    PROVE  EveryRequestIsCounted'
<1>1. PICK s \in Replica, q \in Profile : s = ReplicaOf[h] /\ q = MyProfile(h)
  BY ExchangeAssumption DEF TypeOK, MyProfile, My
<1>2. End(h) /\ metrics' = metrics
  BY DEF Disconnect
<1>3. dropped \in [Replica -> [Profile -> Nat]]
  BY DEF TypeOK
<1>4. dropped' = [dropped EXCEPT ![s] = [dropped[s] EXCEPT ![q] = @ + 1]]
  BY <1>1, <1>3 DEF Disconnect, Busy
<1>5. dropped'[s] = [dropped[s] EXCEPT ![q] = @ + 1] /\ \A r \in Replica \ {s} : dropped'[r] = dropped[r]
  BY <1>3, <1>4
<1>6. dropped'[s][q] = dropped[s][q] + 1 /\ \A p \in Profile \ {q} : dropped'[s][p] = dropped[s][p]
  BY <1>3, <1>5
<1>7. metrics[s][q] \in [Counter -> Nat] /\ dropped[s][q] \in Nat
  BY <1>3 DEF TypeOK
<1>8. /\ metrics[s][q]["issued"] \in Nat /\ metrics[s][q]["denied"] \in Nat
      /\ metrics[s][q]["replayed"] \in Nat /\ metrics[s][q]["errors"] \in Nat
  BY <1>7 DEF Counter
<1>9. Requests(s, q)' = Requests(s, q) /\ Closed(s, q)' = Closed(s, q) + 1
  BY <1>2, <1>6, <1>7, <1>8 DEF Requests, Closed, Refused
<1>10. \A r \in Replica, p \in Profile : r # s \/ p # q =>
           metrics'[r][p] = metrics[r][p] /\ dropped'[r][p] = dropped[r][p]
  BY <1>2, <1>5, <1>6
<1> QED
  BY <1>1, <1>2, <1>9, <1>10, CloseOne

\* A new process starts from zero, with nothing running.
LEMMA CountedRestart ==
    ASSUME TypeOK, EveryRequestIsCounted, NEW s \in Replica, Restart(s)
    PROVE  EveryRequestIsCounted'
<1>1. \A g \in Handler : handler'[g] = IF ReplicaOf[g] = s THEN Idle ELSE handler[g]
  BY DEF Restart
<1>2. /\ metrics' = [metrics EXCEPT ![s] = Zero] /\ observed' = [observed EXCEPT ![s] = 0]
      /\ dropped' = [dropped EXCEPT ![s] = [p \in Profile |-> 0]]
  BY DEF Restart
<1>3. /\ metrics \in [Replica -> [Profile -> [Counter -> Nat]]] /\ observed \in [Replica -> Nat]
      /\ dropped \in [Replica -> [Profile -> Nat]]
  BY DEF TypeOK
<1>4. metrics'[s] = Zero /\ observed'[s] = 0 /\ dropped'[s] = [p \in Profile |-> 0]
  BY <1>2, <1>3
<1>5. \A r \in Replica \ {s} : metrics'[r] = metrics[r] /\ observed'[r] = observed[r]
                               /\ dropped'[r] = dropped[r]
  BY <1>2, <1>3
<1>6. ASSUME NEW r \in Replica \ {s}, NEW p \in Profile
      PROVE  Balanced(r, p)' /\ Timed(r)'
  <2>1. \A q : Running(r, q)' = Running(r, q)
    BY <1>1 DEF Running, MyProfile, My
  <2>2. \A q : Open(r, q)' = Open(r, q)
    BY <2>1 DEF Open
  <2>3. \A q : Requests(r, q)' = Requests(r, q) /\ Closed(r, q)' = Closed(r, q)
    BY <1>5, SameAccount
  <2>4. Balanced(r, p) /\ Timed(r)
    BY CountedByAccount
  <2> QED
    BY <1>5, <2>2, <2>3, <2>4 DEF Balanced, Timed
<1>7. ASSUME NEW p \in Profile
      PROVE  Requests(s, p)' = 0 /\ Closed(s, p)' = 0 /\ Open(s, p)' = 0
  <2>1. Running(s, p)' = {}
    BY <1>1, IdleIsAState DEF Running
  <2>2. \A c \in Counter : Zero[p][c] = 0
    BY DEF Zero
  <2>3. Requests(s, p)' = 0
    BY <1>4, <2>2 DEF Requests, Counter
  <2>4. Closed(s, p)' = 0
    BY <1>4, <2>2 DEF Closed, Refused, Counter
  <2> QED
    BY <2>1, <2>3, <2>4, FS_EmptySet DEF Open
<1>8. "github" \in Profile
  BY DEF Profile
<1>9. Timed(s)' /\ \A p \in Profile : Balanced(s, p)'
  BY <1>4, <1>7, <1>8 DEF Timed, Balanced
<1>10. \A r \in Replica : Timed(r)' /\ \A p \in Profile : Balanced(r, p)'
  BY <1>6, <1>8, <1>9
<1> QED
  BY <1>10 DEF EveryRequestIsCounted, Timed, Balanced, Requests, Closed, Open

\* Only the browser route reviews its caller before exchange().
ReviewsAreBrowser == \A h \in Handler : handler[h].pc = "review" => MyProfile(h) = "browser"

LEMMA ReviewsStep ==
    ASSUME TypeOK, ReviewsAreBrowser, [Next]_vars
    PROVE  ReviewsAreBrowser'
<1>1. handler \in [Handler -> States]
  BY DEF TypeOK, States, PCs
<1>2. ASSUME \A g \in Handler : handler'[g].pc = "review" => handler'[g] = handler[g]
      PROVE  ReviewsAreBrowser'
  BY <1>2 DEF ReviewsAreBrowser, MyProfile, My
<1>3. ASSUME NEW h \in Handler, End(h) PROVE ReviewsAreBrowser'
  BY <1>2, <1>3, EndType
<1>4. ASSUME NEW h \in Handler, AwaitLedger(h) \/ Claim(h) PROVE ReviewsAreBrowser'
  <2>1. handler'[h].pc # "review" /\ \A g \in Handler \ {h} : handler'[g] = handler[g]
    BY <1>1, <1>4 DEF AwaitLedger, Claim, States
  <2> QED
    BY <1>2, <2>1
<1>5. ASSUME NEW h \in Handler, NEW a \in Assertion, Receive(h, a) PROVE ReviewsAreBrowser'
  <2>1. /\ \A g \in Handler \ {h} : handler'[g] = handler[g]
        /\ handler'[h].pc = "review" => ProfileOf[handler'[h].assertion] = "browser"
    BY <1>1, <1>5 DEF Receive
  <2> QED
    BY <2>1 DEF ReviewsAreBrowser, MyProfile, My
<1>6. ASSUME NEW h \in Handler, Step(h) PROVE ReviewsAreBrowser'
  BY <1>3, <1>4, <1>5, <1>6 DEF Step, ReviewFailed, BrowserExchange, VerifyInvalid, VerifyUnavailable,
         Verified, Replayed, LedgerUnavailable, Signed, Disconnect, Deny, Fail, Sign
<1>7. ASSUME NEW r \in Replica, Restart(r) PROVE ReviewsAreBrowser'
  BY <1>2, <1>7, IdleIsAState DEF Restart
<1>8. ASSUME UNCHANGED handler PROVE ReviewsAreBrowser'
  BY <1>2, <1>8
<1> QED
  BY <1>6, <1>7, <1>8 DEF Next, ApplyLate, vars

\* Every step keeps the accounts.
LEMMA CountedStep ==
    ASSUME TypeOK, ReviewsAreBrowser, EveryRequestIsCounted, [Next]_vars
    PROVE  EveryRequestIsCounted'
<1>1. ASSUME NEW h \in Handler, handler[h].pc = "review", End(h), UNCHANGED <<metrics, dropped>>
      PROVE  EveryRequestIsCounted'
  <2>1. PICK s \in Replica, q \in Profile : s = ReplicaOf[h] /\ q = "browser"
    BY ExchangeAssumption DEF Profile
  <2>2. MyProfile(h) = "browser"
    BY <1>1 DEF ReviewsAreBrowser
  <2>3. observed' = observed
    BY <1>1, <2>2 DEF End, TypeOK
  <2>4. handler'[h].pc = "idle" /\ \A g \in Handler \ {h} : handler'[g] = handler[g]
    BY <1>1, EndType
  <2>5. ~Busy(h) /\ ~Busy(h)'
    BY <1>1, <2>4 DEF Busy
  <2> QED
    BY <1>1, <2>1, <2>3, <2>4, <2>5, MoveOne
<1>2. ASSUME NEW h \in Handler, VerifyInvalid(h) \/ VerifyUnavailable(h) \/ LedgerUnavailable(h)
      PROVE  EveryRequestIsCounted'
  <2>1. Busy(h) /\ End(h) /\ dropped' = dropped /\ (Count(h, {"denied"}) \/ Count(h, {"errors"}))
    BY <1>2 DEF VerifyInvalid, VerifyUnavailable, LedgerUnavailable, Deny, Fail, Busy
  <2> QED
    BY <2>1, CountedEnd
<1>3. ASSUME NEW h \in Handler, Replayed(h) PROVE EveryRequestIsCounted'
  <2>1. Busy(h) /\ End(h) /\ dropped' = dropped
    BY <1>3 DEF Replayed, Busy
  <2>2. \/ MyProfile(h) = "oidc" /\ Count(h, {"replayed", "denied"})
        \/ MyProfile(h) = "workload" /\ Count(h, {"denied"})
        \/ MyProfile(h) \notin {"oidc", "workload"} /\ Count(h, {"replayed"})
    BY <1>3 DEF Replayed
  <2> QED
    BY <2>1, <2>2, CountedEnd
<1>4. ASSUME NEW h \in Handler, Sign(h), Busy(h), dropped' = dropped
      PROVE  EveryRequestIsCounted'
  <2>1. End(h) /\ (Count(h, {"issued"}) \/ Count(h, {"errors"}))
    BY <1>4 DEF Sign
  <2> QED
    BY <1>4, <2>1, CountedEnd
<1>5. ASSUME NEW h \in Handler, AwaitLedger(h) \/ (Claim(h) /\ UNCHANGED claims), Busy(h),
             UNCHANGED <<metrics, dropped>>
      PROVE  EveryRequestIsCounted'
  <2>1. PICK s \in Replica, q \in Profile : s = ReplicaOf[h] /\ q = MyProfile(h)
    BY ExchangeAssumption DEF TypeOK, MyProfile, My
  <2>2. handler \in [Handler -> States]
    BY DEF TypeOK, States, PCs
  <2>3. /\ handler'[h].pc \in {"claim", "cleanup"} /\ My(h)' = My(h) /\ observed' = observed
        /\ \A g \in Handler \ {h} : handler'[g] = handler[g]
    BY <1>5, <2>2 DEF AwaitLedger, Claim, My, States
  <2>4. Busy(h)' /\ MyProfile(h)' = q
    BY <2>1, <2>3 DEF Busy, MyProfile
  <2> QED
    BY <1>5, <2>1, <2>3, <2>4, MoveOne
<1>6. ASSUME NEW h \in Handler, Verified(h) PROVE EveryRequestIsCounted'
  <2>1. Busy(h) /\ dropped' = dropped
    BY <1>6 DEF Verified, Busy
  <2>2. \/ Deny(h)
        \/ AwaitLedger(h) /\ UNCHANGED metrics
        \/ Sign(h)
    BY <1>6 DEF Verified
  <2>3. CASE Deny(h)
    BY <2>1, <2>3, CountedEnd DEF Deny
  <2> QED
    BY <1>4, <1>5, <2>1, <2>2, <2>3
<1>7. ASSUME NEW h \in Handler, Disconnect(h) PROVE EveryRequestIsCounted'
  <2>1. CASE Busy(h)
    BY <1>7, <2>1, CountedDisconnect
  <2>2. CASE ~Busy(h)
    <3>1. handler[h].pc = "review" /\ End(h) /\ metrics' = metrics
      BY <1>7, <2>2 DEF Disconnect, Busy
    <3>2. dropped' = dropped
      BY <1>7, <3>1 DEF Disconnect, TypeOK
    <3> QED
      BY <1>1, <3>1, <3>2
  <2> QED
    BY <2>1, <2>2
<1>8. ASSUME NEW h \in Handler, BrowserExchange(h) PROVE EveryRequestIsCounted'
  BY <1>8, CountedBrowser DEF BrowserExchange, ReviewsAreBrowser
<1>9. ASSUME NEW h \in Handler, Signed(h) PROVE EveryRequestIsCounted'
  BY <1>4, <1>9 DEF Signed, Busy
<1>10. ASSUME NEW h \in Handler, Claim(h) PROVE EveryRequestIsCounted'
  BY <1>5, <1>10 DEF Claim, Busy
<1>11. ASSUME NEW h \in Handler, ReviewFailed(h) PROVE EveryRequestIsCounted'
  BY <1>1, <1>11 DEF ReviewFailed
<1>12. ASSUME NEW h \in Handler, Step(h) PROVE EveryRequestIsCounted'
  BY <1>2, <1>3, <1>6, <1>7, <1>8, <1>9, <1>10, <1>11, <1>12, CountedReceive DEF Step
<1>13. ASSUME UNCHANGED <<handler, metrics, observed, dropped>> PROVE EveryRequestIsCounted'
  <2>1. \A r, p : Running(r, p)' = Running(r, p)
    BY <1>13 DEF Running, MyProfile, My
  <2>2. \A r, p : Open(r, p)' = Open(r, p)
    BY <2>1 DEF Open
  <2>3. \A r, p : Requests(r, p)' = Requests(r, p) /\ Closed(r, p)' = Closed(r, p)
    BY <1>13, SameAccount
  <2>4. \A r \in Replica : Timed(r)' /\ \A p \in Profile : Balanced(r, p)'
    BY <1>13, <2>2, <2>3, CountedByAccount DEF Timed, Balanced
  <2> QED
    BY <2>4 DEF EveryRequestIsCounted, Timed, Balanced, Requests, Closed, Open
<1>14. CASE \E k \in late : ApplyLate(k)
  BY <1>13, <1>14 DEF ApplyLate
<1>15. CASE \E r \in Replica : Restart(r)
  BY <1>15, CountedRestart
<1>16. CASE UNCHANGED vars
  BY <1>13, <1>16 DEF vars
<1> QED
  BY <1>12, <1>14, <1>15, <1>16 DEF Next

\* The counters of every replica and profile account for every request, on
\* every path out of exchange() and when its future is dropped.
THEOREM RequestsAreCounted == Spec => []EveryRequestIsCounted
<1>1. Init => ReviewsAreBrowser
  BY IdleIsAState DEF Init, ReviewsAreBrowser
<1>2. Init => EveryRequestIsCounted
  <2> SUFFICES ASSUME Init, NEW r \in Replica PROVE Timed(r) /\ \A p \in Profile : Balanced(r, p)
    BY CountedByAccount
  <2>1. "github" \in Profile
    BY DEF Profile
  <2>2. ASSUME NEW p \in Profile PROVE Requests(r, p) = 0 /\ Closed(r, p) = 0 /\ Open(r, p) = 0
    <3>1. Running(r, p) = {}
      BY IdleIsAState DEF Init, Running
    <3>2. metrics[r] = Zero /\ \A c \in Counter : Zero[p][c] = 0
      BY DEF Init, Zero
    <3>3. Requests(r, p) = 0
      BY <3>2 DEF Requests, Counter
    <3>4. dropped[r][p] = 0
      BY DEF Init
    <3>5. Closed(r, p) = 0
      BY <3>2, <3>4 DEF Closed, Refused, Counter
    <3> QED
      BY <3>1, <3>3, <3>5, FS_EmptySet DEF Open
  <2>3. observed[r] = 0
    BY DEF Init
  <2> QED
    BY <2>1, <2>2, <2>3 DEF Timed, Balanced
<1>3. IndInv /\ ReviewsAreBrowser /\ EveryRequestIsCounted /\ [Next]_vars
      => ReviewsAreBrowser' /\ EveryRequestIsCounted'
  BY ReviewsStep, CountedStep DEF IndInv
<1> QED
  BY <1>1, <1>2, <1>3, ExchangeInvariant, PTL DEF Spec
=============================================================================
