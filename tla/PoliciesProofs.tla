--------------------------- MODULE PoliciesProofs ---------------------------
(***************************************************************************)
(* Proofs about the three policies, one after the other, and about their   *)
(* loading, for every set of files of any length.                          *)
(***************************************************************************)
EXTENDS Policies, TLAPS

-----------------------------------------------------------------------------
(* The GitHub policy.                                                       *)

\* Why: at every iteration the sets collected so far say of the part of the
\* file already visited what Sound says of all of it.

Visited == Actors(file) \ pending
Before == 1 .. next - 1
Wide == {i \in Before : file.repositories[i].repository = Any}

VisitedActorsSound ==
    /\ Header(file)
    /\ pending \subseteq Actors(file)
    /\ users = {file.actors[a].user : a \in Visited}
    /\ \A a \in Visited : ValidActor(file, a)
    /\ \A a, b \in Visited : file.actors[a].user = file.actors[b].user => a = b

CollectedV5 == ruleKeys = {RuleKey(file.repositories[i]) : i \in Before}

CollectedV6 ==
    /\ ownerScopes = {file.repositories[i].owner : i \in Wide}
    /\ repositoryIds = {<<file.repositories[i].owner, file.repositories[i].repository>> :
                            i \in Before \ Wide}

VisitedRulesSound ==
    /\ \A i \in Before : ValidRule(file, i)
    /\ \A i, j \in Before : i # j => ~Conflict(file, i, j)

\* The loops of validate_actors, validate_v5 and validate_v6 keep what they
\* have found out about the entries behind them, and what the verdict says.
IndInv ==
    /\ TypeOK
    /\ pc = "header" => next = 1 /\ ruleKeys = {} /\ repositoryIds = {} /\ ownerScopes = {}
    /\ pc = "header" => users = {}
    /\ pc = "actors" => /\ VisitedActorsSound
                        /\ next = 1 /\ ruleKeys = {} /\ repositoryIds = {} /\ ownerScopes = {}
    /\ pc = "rules" => /\ Header(file) /\ SoundActors(file)
                       /\ VisitedRulesSound
                       /\ file.version = V5 => CollectedV5
                       /\ file.version = V6 => CollectedV6
    /\ VerdictIsOrderFree

\* Before any iteration the loops of validate have collected nothing.
LEMMA PolicyInit ==
    Init => IndInv
<1> SUFFICES ASSUME Init PROVE IndInv
  OBVIOUS
<1>1. file \in Policy
  BY PolicyAssumption DEF Init, Start
<1>2. Len(file.repositories) \in Nat
  BY <1>1 DEF Policy
<1>3. TypeOK
  BY <1>1, <1>2 DEF Init, Start, TypeOK
<1> QED
  BY <1>3 DEF Init, Start, IndInv, VerdictIsOrderFree

\* A rejection keeps the invariant when the file has a defect: the only thing
\* the invariant says of a rejected file.
LEMMA PolicyReject ==
    ASSUME IndInv, Reject, ~Sound(file) PROVE IndInv'
<1>1. TypeOK'
  BY DEF IndInv, TypeOK, Reject
<1>2. ~Sound(file')
  BY DEF Reject
<1> QED
  BY <1>1, <1>2 DEF IndInv, VerdictIsOrderFree, Reject

\* The checks of validate before its loops.
LEMMA PolicyHeader ==
    ASSUME IndInv, ValidateHeader PROVE IndInv'
<1>1. CASE ~Header(file) /\ Reject
  BY <1>1, PolicyReject DEF Sound
<1>2. CASE Header(file) /\ pc' = "actors"
  <2>1. /\ UNCHANGED <<file, users, next, ruleKeys, repositoryIds, ownerScopes>>
        /\ pending' = Actors(file)
    BY <1>2 DEF ValidateHeader, Reject
  <2>2. Actors(file) \subseteq Id
    BY DEF Actors
  <2>3. TypeOK'
    BY <1>2, <2>1, <2>2 DEF IndInv, TypeOK
  <2>4. users = {} /\ next = 1 /\ ruleKeys = {} /\ repositoryIds = {} /\ ownerScopes = {}
    BY DEF IndInv, ValidateHeader
  <2>5. Actors(file') = Actors(file) /\ Header(file')
    BY <1>2, <2>1
  <2>6. Visited' = {}
    BY <2>1, <2>5 DEF Visited
  <2>7. VisitedActorsSound'
    BY <2>1, <2>4, <2>5, <2>6 DEF VisitedActorsSound
  <2> QED
    BY <1>2, <2>1, <2>3, <2>4, <2>7 DEF IndInv, VerdictIsOrderFree
<1> QED
  BY <1>1, <1>2 DEF ValidateHeader

\* One iteration of validate_actors.
LEMMA PolicyActor ==
    ASSUME IndInv, NEW a \in Id, ValidateActor(a) PROVE IndInv'
<1> DEFINE user == file.actors[a].user
           valid == ValidActor(file, a) /\ user \notin users
<1>1. pc = "actors" /\ a \in pending /\ VisitedActorsSound
  BY DEF ValidateActor, IndInv
<1>2. a \in Actors(file) \ Visited
  BY <1>1 DEF VisitedActorsSound, Visited
<1>3. CASE ~valid /\ Reject
  <2>1. CASE ~ValidActor(file, a)
    BY <1>2, <1>3, <2>1, PolicyReject DEF Sound, SoundActors
  <2>2. CASE user \in users
    <3>1. PICK b \in Visited : user = file.actors[b].user
      BY <1>1, <2>2 DEF VisitedActorsSound
    <3>2. b \in Actors(file) /\ b # a
      BY <3>1, <1>2 DEF Visited
    <3> QED
      BY <1>2, <1>3, <3>1, <3>2, PolicyReject DEF Sound, SoundActors
  <2> QED
    BY <1>3, <2>1, <2>2
<1>4. CASE /\ valid
           /\ pending' = pending \ {a}
           /\ users' = users \union {user}
           /\ UNCHANGED <<file, pc, next, ruleKeys, repositoryIds, ownerScopes>>
  <2>1. user \in CanonicalUser
    BY <1>4 DEF ValidActor
  <2>2. TypeOK'
    BY <1>4, <2>1 DEF IndInv, TypeOK
  <2>3. Actors(file') = Actors(file) /\ Header(file')
    BY <1>1, <1>4 DEF VisitedActorsSound
  <2>4. Visited' = Visited \union {a}
    BY <1>2, <1>4, <2>3, <1>1 DEF Visited, VisitedActorsSound
  <2>5. pending' \subseteq Actors(file')
    BY <1>1, <1>4, <2>3 DEF VisitedActorsSound
  <2>6. users' = {file'.actors[b].user : b \in Visited'}
    BY <1>1, <1>4, <2>4 DEF VisitedActorsSound
  <2>7. \A b \in Visited' : ValidActor(file', b)
    BY <1>1, <1>4, <2>4 DEF VisitedActorsSound
  <2>8. \A b, d \in Visited' : file'.actors[b].user = file'.actors[d].user => b = d
    <3>1. \A b \in Visited : file.actors[b].user # user
      BY <1>1, <1>4 DEF VisitedActorsSound
    <3> QED
      BY <1>1, <1>4, <2>4, <3>1 DEF VisitedActorsSound
  <2>9. VisitedActorsSound'
    BY <2>3, <2>5, <2>6, <2>7, <2>8 DEF VisitedActorsSound
  <2> QED
    BY <1>1, <1>4, <2>2, <2>9 DEF IndInv, VerdictIsOrderFree
<1> QED
  BY <1>3, <1>4 DEF ValidateActor

\* The end of validate_actors: every actor has been visited.
LEMMA PolicyActorsValid ==
    ASSUME IndInv, ActorsValid PROVE IndInv'
<1>1. /\ pc = "actors" /\ pending = {} /\ pc' = "rules"
      /\ UNCHANGED <<file, pending, users, next, ruleKeys, repositoryIds, ownerScopes>>
  BY DEF ActorsValid
<1>2. /\ VisitedActorsSound
      /\ next = 1 /\ ruleKeys = {} /\ repositoryIds = {} /\ ownerScopes = {}
  BY <1>1 DEF IndInv
<1>3. TypeOK'
  BY <1>1 DEF IndInv, TypeOK
<1>4. Visited = Actors(file)
  BY <1>1 DEF Visited
<1>5. Header(file') /\ SoundActors(file')
  BY <1>1, <1>2, <1>4 DEF VisitedActorsSound, SoundActors
<1>6. Before' = {} /\ Wide' = {}
  BY <1>1, <1>2 DEF Before, Wide
<1>7. VisitedRulesSound' /\ CollectedV5' /\ CollectedV6'
  BY <1>1, <1>2, <1>6 DEF VisitedRulesSound, CollectedV5, CollectedV6
<1> QED
  BY <1>1, <1>3, <1>5, <1>7 DEF IndInv, VerdictIsOrderFree

\* What the next iteration of either rule loop ranges over.
LEMMA PolicyNextRule ==
    ASSUME IndInv, pc = "rules", next <= Len(file.repositories)
    PROVE  /\ next \in DOMAIN file.repositories \ Before
           /\ Before \subseteq DOMAIN file.repositories
           /\ file.repositories[next] \in RepositoryRule
           /\ next + 1 \in 1 .. Len(file.repositories) + 1
           /\ 1 .. next = Before \union {next}
<1>1. file.repositories \in Seq(RepositoryRule) /\ next \in Nat \ {0}
  BY DEF IndInv, TypeOK, Policy
<1>2. Len(file.repositories) \in Nat /\ DOMAIN file.repositories = 1 .. Len(file.repositories)
  BY <1>1
<1> QED
  BY <1>1, <1>2 DEF Before

\* A rule that validate_v5 or validate_v6 stops at makes the file unsound.
LEMMA PolicyRuleDefect ==
    ASSUME IndInv, pc = "rules", next <= Len(file.repositories),
           \/ ~ValidRule(file, next)
           \/ \E i \in Before : Conflict(file, i, next) \/ Conflict(file, next, i)
    PROVE  ~Sound(file)
<1>1. next \in DOMAIN file.repositories \ Before /\ Before \subseteq DOMAIN file.repositories
  BY PolicyNextRule
<1>2. CASE ~ValidRule(file, next)
  BY <1>1, <1>2 DEF Sound, SoundRules
<1>3. CASE \E i \in Before : Conflict(file, i, next) \/ Conflict(file, next, i)
  <2>1. PICK i \in Before : Conflict(file, i, next) \/ Conflict(file, next, i)
    BY <1>3
  <2>2. i \in DOMAIN file.repositories /\ i # next
    BY <1>1
  <2> QED
    BY <1>1, <2>1, <2>2 DEF Sound, SoundRules
<1> QED
  BY <1>2, <1>3

\* A rule in order that conflicts with none before it extends the part of the
\* file that the loops of validate_v5 and validate_v6 have found sound.
LEMMA PolicyRuleInOrder ==
    ASSUME IndInv, pc = "rules", next <= Len(file.repositories),
           ValidRule(file, next),
           \A i \in Before : ~Conflict(file, i, next) /\ ~Conflict(file, next, i),
           file' = file, next' = next + 1
    PROVE  VisitedRulesSound'
<1>1. Before' = Before \union {next} /\ next \notin Before
  <2>1. next \in Nat
    BY DEF IndInv, TypeOK
  <2>2. (next + 1) - 1 = next
    BY <2>1
  <2>3. Before' = 1 .. next
    BY <2>2 DEF Before
  <2> QED
    BY <2>3, PolicyNextRule
<1>2. VisitedRulesSound
  BY DEF IndInv
<1>3. \A i \in Before' : ValidRule(file', i)
  BY <1>1, <1>2 DEF VisitedRulesSound
<1>4. \A i, j \in Before' : i # j => ~Conflict(file', i, j)
  BY <1>1, <1>2 DEF VisitedRulesSound
<1> QED
  BY <1>3, <1>4 DEF VisitedRulesSound

\* One iteration of the loop of validate_v5.
LEMMA PolicyRuleV5 ==
    ASSUME IndInv, ValidateRuleV5 PROVE IndInv'
<1> DEFINE rule == file.repositories[next]
           valid == ValidRuleV5(rule) /\ RuleKey(rule) \notin ruleKeys
<1>1. pc = "rules" /\ file.version = V5 /\ next <= Len(file.repositories)
  BY DEF ValidateRuleV5
<1>2. CollectedV5 /\ Header(file) /\ SoundActors(file)
  BY <1>1 DEF IndInv
<1>3. ValidRule(file, next) <=> ValidRuleV5(rule)
  BY <1>1 DEF ValidRule
<1>4. \A i : /\ Conflict(file, i, next) <=> RuleKey(file.repositories[i]) = RuleKey(rule)
             /\ Conflict(file, next, i) <=> RuleKey(rule) = RuleKey(file.repositories[i])
  BY <1>1 DEF Conflict
<1>5. CASE ~valid /\ Reject
  <2>1. CASE ~ValidRuleV5(rule)
    BY <1>1, <1>3, <1>5, <2>1, PolicyRuleDefect, PolicyReject
  <2>2. CASE RuleKey(rule) \in ruleKeys
    <3>1. PICK i \in Before : RuleKey(rule) = RuleKey(file.repositories[i])
      BY <1>2, <2>2 DEF CollectedV5
    <3>2. Conflict(file, next, i)
      BY <1>4, <3>1
    <3> QED
      BY <1>1, <1>5, <3>2, PolicyRuleDefect, PolicyReject
  <2> QED
    BY <1>5, <2>1, <2>2
<1>6. CASE /\ valid
           /\ ruleKeys' = ruleKeys \union {RuleKey(rule)}
           /\ next' = next + 1
           /\ UNCHANGED <<file, pc, pending, users, repositoryIds, ownerScopes>>
  <2>1. \A i \in Before : RuleKey(file.repositories[i]) # RuleKey(rule)
    BY <1>2, <1>6 DEF CollectedV5
  <2>2. VisitedRulesSound'
    BY <1>1, <1>3, <1>4, <1>6, <2>1, PolicyRuleInOrder
  <2>3. TypeOK'
    BY <1>1, <1>6, PolicyNextRule DEF IndInv, TypeOK
  <2>4. Before' = Before \union {next}
    <3>1. next \in Nat
      BY DEF IndInv, TypeOK
    <3>2. Before' = 1 .. next
      BY <3>1, <1>6 DEF Before
    <3> QED
      BY <3>2, <1>1, PolicyNextRule
  <2>5. CollectedV5'
    BY <1>2, <1>6, <2>4 DEF CollectedV5
  <2>6. Header(file') /\ SoundActors(file')
    BY <1>2, <1>6
  <2>7. file'.version # V6
    BY <1>1, <1>6 DEF V5, V6
  <2> QED
    BY <1>1, <1>6, <2>2, <2>3, <2>5, <2>6, <2>7 DEF IndInv, VerdictIsOrderFree
<1> QED
  BY <1>5, <1>6 DEF ValidateRuleV5

\* The test against owner_scopes and repository_ids in validate_v6 finds
\* exactly the rules before this one whose scope overlaps with it.
LEMMA AmbiguousIsOverlap ==
    ASSUME CollectedV6, NEW rule
    PROVE  Ambiguous(rule) <=> \E i \in Before : ScopesOverlap(file.repositories[i], rule)
<1> DEFINE R(i) == file.repositories[i]
<1>1. rule.owner \in ownerScopes <=> \E i \in Wide : R(i).owner = rule.owner
  BY DEF CollectedV6
<1>2. (\E id \in repositoryIds : id[1] = rule.owner) <=>
          \E i \in Before \ Wide : R(i).owner = rule.owner
  <2>1. \A i : <<R(i).owner, R(i).repository>>[1] = R(i).owner
    OBVIOUS
  <2>2. ASSUME NEW id \in repositoryIds, id[1] = rule.owner
        PROVE  \E i \in Before \ Wide : R(i).owner = rule.owner
    <3>1. PICK i \in Before \ Wide : id = <<R(i).owner, R(i).repository>>
      BY <2>2 DEF CollectedV6
    <3> QED
      BY <2>1, <2>2, <3>1
  <2>3. ASSUME NEW i \in Before \ Wide, R(i).owner = rule.owner
        PROVE  \E id \in repositoryIds : id[1] = rule.owner
    <3>1. <<R(i).owner, R(i).repository>> \in repositoryIds
      BY <2>3 DEF CollectedV6
    <3> QED
      BY <2>1, <2>3, <3>1
  <2> QED
    BY <2>2, <2>3
<1>3. <<rule.owner, rule.repository>> \in repositoryIds <=>
          \E i \in Before \ Wide : R(i).owner = rule.owner /\ R(i).repository = rule.repository
  BY DEF CollectedV6
<1>4. \A i \in Before : i \in Wide <=> R(i).repository = Any
  BY DEF Wide
<1>5. Wide \subseteq Before
  BY DEF Wide
<1>6. CASE rule.repository = Any
  <2>1. Ambiguous(rule) <=> \E i \in Before : R(i).owner = rule.owner
    BY <1>1, <1>2, <1>5, <1>6 DEF Ambiguous
  <2>2. \A i : ScopesOverlap(R(i), rule) <=> R(i).owner = rule.owner
    BY <1>6 DEF ScopesOverlap
  <2> QED
    BY <2>1, <2>2
<1>7. CASE rule.repository # Any
  <2>1. \A i \in Wide : ScopesOverlap(R(i), rule) <=> R(i).owner = rule.owner
    BY <1>4, <1>5 DEF ScopesOverlap
  <2>2. \A i \in Before \ Wide :
            ScopesOverlap(R(i), rule) <=> R(i).owner = rule.owner /\ R(i).repository = rule.repository
    BY <1>4, <1>7 DEF ScopesOverlap
  <2>3. Ambiguous(rule) <=> \/ \E i \in Wide : R(i).owner = rule.owner
                            \/ \E i \in Before \ Wide :
                                 R(i).owner = rule.owner /\ R(i).repository = rule.repository
    BY <1>1, <1>3, <1>7 DEF Ambiguous
  <2> QED
    BY <1>5, <2>1, <2>2, <2>3
<1> QED
  BY <1>6, <1>7

\* One iteration of the loop of validate_v6.
LEMMA PolicyRuleV6 ==
    ASSUME IndInv, ValidateRuleV6 PROVE IndInv'
<1> DEFINE rule == file.repositories[next]
           valid == ValidRuleV6(rule) /\ ~Ambiguous(rule)
<1>1. pc = "rules" /\ file.version = V6 /\ next <= Len(file.repositories) /\ file.version # V5
  BY DEF ValidateRuleV6, V5, V6
<1>2. CollectedV6 /\ Header(file) /\ SoundActors(file)
  BY <1>1 DEF IndInv
<1>3. ValidRule(file, next) <=> ValidRuleV6(rule)
  BY <1>1 DEF ValidRule
<1>4. \A i : /\ Conflict(file, i, next) <=> ScopesOverlap(file.repositories[i], rule)
             /\ Conflict(file, next, i) <=> ScopesOverlap(file.repositories[i], rule)
  BY <1>1 DEF Conflict, ScopesOverlap
<1>5. Ambiguous(rule) <=> \E i \in Before : ScopesOverlap(file.repositories[i], rule)
  BY <1>2, AmbiguousIsOverlap
<1>6. CASE ~valid /\ Reject
  <2>1. CASE ~ValidRuleV6(rule)
    BY <1>1, <1>3, <1>6, <2>1, PolicyRuleDefect, PolicyReject
  <2>2. CASE Ambiguous(rule)
    BY <1>1, <1>4, <1>5, <1>6, <2>2, PolicyRuleDefect, PolicyReject
  <2> QED
    BY <1>6, <2>1, <2>2
<1>7. ASSUME valid,
             IF rule.repository = Any
             THEN ownerScopes' = ownerScopes \union {rule.owner} /\ repositoryIds' = repositoryIds
             ELSE /\ repositoryIds' = repositoryIds \union {<<rule.owner, rule.repository>>}
                  /\ ownerScopes' = ownerScopes,
             next' = next + 1,
             UNCHANGED <<file, pc, pending, users, ruleKeys>>
      PROVE  IndInv'
  <2>1. VisitedRulesSound'
    BY <1>1, <1>3, <1>4, <1>5, <1>7, PolicyRuleInOrder
  <2>2. rule.owner \in NumericId /\ (rule.repository \in NumericId \/ rule.repository = Any)
    BY <1>7 DEF ValidRuleV6, ValidIds
  <2>3. ownerScopes' \subseteq NumericId /\ repositoryIds' \subseteq NumericId \X NumericId
    BY <1>7, <2>2 DEF IndInv, TypeOK
  <2>4. TypeOK'
    BY <1>1, <1>7, <2>3, PolicyNextRule DEF IndInv, TypeOK
  <2>5. Before' = Before \union {next}
    <3>1. next \in Nat
      BY DEF IndInv, TypeOK
    <3>2. Before' = 1 .. next
      BY <3>1, <1>7 DEF Before
    <3> QED
      BY <3>2, <1>1, PolicyNextRule
  <2>6. next \notin Before
    BY <1>1, PolicyNextRule
  <2>7. CollectedV6'
    <3>1. CASE rule.repository = Any
      <4>1. Wide' = Wide \union {next} /\ Before' \ Wide' = Before \ Wide
        BY <1>7, <2>5, <2>6, <3>1 DEF Wide
      <4> QED
        BY <1>2, <1>7, <3>1, <4>1 DEF CollectedV6
    <3>2. CASE rule.repository # Any
      <4>1. Wide' = Wide /\ Before' \ Wide' = (Before \ Wide) \union {next}
        BY <1>7, <2>5, <2>6, <3>2 DEF Wide
      <4> QED
        BY <1>2, <1>7, <3>2, <4>1 DEF CollectedV6
    <3> QED
      BY <3>1, <3>2
  <2>8. Header(file') /\ SoundActors(file') /\ file'.version # V5
    BY <1>1, <1>2, <1>7
  <2> QED
    BY <1>1, <1>7, <2>1, <2>4, <2>7, <2>8 DEF IndInv, VerdictIsOrderFree
<1> QED
  BY <1>6, <1>7 DEF ValidateRuleV6

\* The end of validate: every rule has been visited.
LEMMA PolicyAccept ==
    ASSUME IndInv, Accept PROVE IndInv'
<1>1. /\ pc = "rules" /\ next > Len(file.repositories) /\ pc' = "accepted"
      /\ UNCHANGED <<file, pending, users, next, ruleKeys, repositoryIds, ownerScopes>>
  BY DEF Accept
<1>2. Before = DOMAIN file.repositories
  <2>1. file.repositories \in Seq(RepositoryRule) /\ next \in 1 .. Len(file.repositories) + 1
    BY DEF IndInv, TypeOK, Policy
  <2>2. Len(file.repositories) \in Nat /\ DOMAIN file.repositories = 1 .. Len(file.repositories)
    BY <2>1
  <2> QED
    BY <1>1, <2>1, <2>2 DEF Before
<1>3. Sound(file)
  BY <1>1, <1>2 DEF IndInv, VisitedRulesSound, Sound, SoundRules
<1>4. TypeOK'
  BY <1>1 DEF IndInv, TypeOK
<1>5. Sound(file')
  BY <1>1, <1>3
<1> QED
  BY <1>1, <1>4, <1>5 DEF IndInv, VerdictIsOrderFree

\* The invariant of the loops of Policy::validate.
THEOREM PolicyInvariant == Spec => []IndInv
<1>1. Init => IndInv
  BY PolicyInit
<1>2. IndInv /\ [Next]_vars => IndInv'
  <2> SUFFICES ASSUME IndInv, [Next]_vars PROVE IndInv'
    OBVIOUS
  <2>1. CASE ValidateHeader
    BY <2>1, PolicyHeader
  <2>2. CASE \E a \in Id : ValidateActor(a)
    BY <2>2, PolicyActor
  <2>3. CASE ActorsValid
    BY <2>3, PolicyActorsValid
  <2>4. CASE ValidateRuleV5
    BY <2>4, PolicyRuleV5
  <2>5. CASE ValidateRuleV6
    BY <2>5, PolicyRuleV6
  <2>6. CASE Accept
    BY <2>6, PolicyAccept
  <2>7. CASE UNCHANGED vars
    BY <2>7 DEF vars, IndInv, TypeOK, VisitedActorsSound, Visited, VisitedRulesSound,
                Before, Wide, CollectedV5, CollectedV6, VerdictIsOrderFree
  <2> QED
    BY <2>1, <2>2, <2>3, <2>4, <2>5, <2>6, <2>7 DEF Next
<1> QED
  BY <1>1, <1>2, PTL DEF Spec

\* The variables of the loops of Policy::validate stay in range.
THEOREM PolicyTypes == Spec => []TypeOK
<1>1. IndInv => TypeOK
  BY DEF IndInv
<1> QED
  BY <1>1, PolicyInvariant, PTL

\* The verdict of Policy::validate depends on the contents of the file only.
THEOREM OrderFreeVerdict == Spec => []VerdictIsOrderFree
<1>1. IndInv => VerdictIsOrderFree
  BY DEF IndInv
<1> QED
  BY <1>1, PolicyInvariant, PTL

\* Under an accepted v6 policy no claims match two rules, so authorize_v6
\* admits whatever one of its rules admits.
THEOREM SingleRule == Spec => []OneRulePerClaims
<1>1. IndInv => OneRulePerClaims
  <2> SUFFICES ASSUME IndInv, pc = "accepted", file.version = V6, NEW c \in Claims,
                      NEW i \in MatchingRules(file, c), NEW j \in MatchingRules(file, c)
               PROVE  i = j
    BY DEF OneRulePerClaims
  <2>1. V6 # V5
    BY DEF V5, V6
  <2>2. /\ i \in DOMAIN file.repositories /\ MatchesV6(file.repositories[i], c)
        /\ j \in DOMAIN file.repositories /\ MatchesV6(file.repositories[j], c)
    BY <2>1 DEF MatchingRules
  <2>3. ScopesOverlap(file.repositories[i], file.repositories[j])
    BY <2>2 DEF MatchesV6, ScopesOverlap
  <2>4. Conflict(file, i, j)
    BY <2>1, <2>3 DEF Conflict
  <2>5. SoundRules(file)
    BY DEF IndInv, VerdictIsOrderFree, Sound
  <2> QED
    BY <2>2, <2>4, <2>5 DEF SoundRules
<1> QED
  BY <1>1, PolicyInvariant, PTL

\* Under an accepted policy two actors are never issued one canonical user,
\* and v5 always issues one.
THEOREM OwnUser == Spec => []UsersAreNotShared
<1>1. IndInv => UsersAreNotShared
  <2> SUFFICES ASSUME IndInv, pc = "accepted", NEW c \in Claims, NEW d \in Claims,
                      Authorized(file, c), Authorized(file, d)
               PROVE  /\ file.version = V5 => UserOf(file, c) # None
                      /\ UserOf(file, c) = UserOf(file, d) /\ UserOf(file, c) # None => c.actor = d.actor
    BY DEF UsersAreNotShared
  <2>1. SoundActors(file)
    BY DEF IndInv, VerdictIsOrderFree, Sound
  <2>2. CASE file.actors = None
    <3>1. Actors(file) = {}
      BY <2>2 DEF Actors
    <3>2. file.version # V5
      BY <3>1 DEF Authorized, KnownActor, V5, V6
    <3> QED
      BY <2>2, <3>2 DEF UserOf
  <2>3. CASE file.actors # None
    <3>1. c.actor \in Actors(file) /\ d.actor \in Actors(file)
      BY <2>3 DEF Authorized, KnownActor
    <3>2. UserOf(file, c) = file.actors[c.actor].user /\ UserOf(file, d) = file.actors[d.actor].user
      BY <2>3 DEF UserOf
    <3>3. UserOf(file, c) \in CanonicalUser
      BY <2>1, <3>1, <3>2 DEF SoundActors, ValidActor
    <3>4. None \notin CanonicalUser
      BY PolicyAssumption
    <3> QED
      BY <2>1, <3>1, <3>2, <3>3, <3>4 DEF SoundActors
  <2> QED
    BY <2>2, <2>3
<1> QED
  BY <1>1, PolicyInvariant, PTL

-----------------------------------------------------------------------------
(* The policy of the generic OIDC exchange.                                 *)

\* Why: what the loops have found out about the part of the file behind them.

BindingsVisitedSound ==
    LET seen == oidcFile.providers[provider].bindings
    IN  /\ ValidProvider(oidcFile.providers[provider])
        /\ bindings = {seen[j].claims : j \in 1 .. binding - 1}
        /\ \A j \in 1 .. binding - 1 : ValidBinding(seen[j])
        /\ \A j, k \in 1 .. binding - 1 :
              j # k => ~ClaimBindingsOverlap(seen[j].claims, seen[k].claims)

ProvidersVisitedSound ==
    /\ \A i \in 1 .. provider - 1 :
          ValidProvider(oidcFile.providers[i]) /\ BindingsSound(oidcFile.providers[i])
    /\ \A i, k \in 1 .. provider - 1 :
          oidcFile.providers[i].issuer = oidcFile.providers[k].issuer => i = k

IssuersCollected ==
    issuers = {oidcFile.providers[i].issuer : i \in 1 .. provider - (IF binding = 0 THEN 1 ELSE 0)}

\* The inductive invariant behind OidcVerdictIsExact: the loops of validate keep
\* what they have found out about the providers and bindings behind them.
OidcIndInv ==
    /\ OidcTypeOK
    /\ oidcPc = "header" => provider = 1 /\ binding = 0 /\ issuers = {}
    /\ oidcPc = "providers" =>
          /\ OidcHeader(oidcFile)
          /\ ProvidersVisitedSound
          /\ IssuersCollected
          /\ binding # 0 => BindingsVisitedSound
          /\ binding # 0 => \A i \in 1 .. provider - 1 :
                oidcFile.providers[i].issuer # oidcFile.providers[provider].issuer
    /\ OidcVerdictIsExact

\* claim_bindings_overlap finds exactly the pairs that some claims match both
\* of: the union of two maps that agree on their common names is such claims.
LEMMA OverlapIsAmbiguity ==
    ASSUME NEW b \in OidcBinding, NEW c \in OidcBinding
    PROVE  ClaimBindingsOverlap(b.claims, c.claims) <=> AmbiguousBindings(b, c)
<1>1. b.claims \in ClaimMap /\ c.claims \in ClaimMap
  BY DEF OidcBinding
<1>2. ASSUME ClaimBindingsOverlap(b.claims, c.claims) PROVE AmbiguousBindings(b, c)
  <2> DEFINE both == [n \in ClaimName |-> IF b.claims[n] # NoClaim THEN b.claims[n] ELSE c.claims[n]]
  <2>1. both \in ClaimMap
    BY <1>1 DEF ClaimMap
  <2>2. Matches(b, both)
    BY DEF Matches, ClaimNames
  <2>3. Matches(c, both)
    BY <1>2 DEF Matches, ClaimNames, ClaimBindingsOverlap
  <2> QED
    BY <2>1, <2>2, <2>3 DEF AmbiguousBindings
<1>3. ASSUME AmbiguousBindings(b, c) PROVE ClaimBindingsOverlap(b.claims, c.claims)
  BY <1>3 DEF AmbiguousBindings, Matches, ClaimNames, ClaimBindingsOverlap
<1> QED
  BY <1>2, <1>3

\* Overlap does not depend on which binding validate meets first.
LEMMA OverlapIsSymmetric ==
    ASSUME NEW left, NEW right, ClaimBindingsOverlap(left, right)
    PROVE  ClaimBindingsOverlap(right, left)
  BY DEF ClaimBindingsOverlap

\* What the loops of validate range over.
LEMMA OidcFileShape ==
    ASSUME OidcTypeOK
    PROVE  /\ oidcFile.providers \in Seq(OidcProviderPolicy)
           /\ Len(oidcFile.providers) \in Nat
           /\ DOMAIN oidcFile.providers = 1 .. Len(oidcFile.providers)
           /\ provider \in Nat \ {0} /\ provider <= Len(oidcFile.providers) + 1
           /\ \A i \in 1 .. Len(oidcFile.providers) :
                 /\ oidcFile.providers[i] \in OidcProviderPolicy
                 /\ oidcFile.providers[i].issuer \in Issuer
                 /\ oidcFile.providers[i].bindings \in Seq(OidcBinding)
                 /\ Len(oidcFile.providers[i].bindings) \in Nat
                 /\ DOMAIN oidcFile.providers[i].bindings = 1 .. Len(oidcFile.providers[i].bindings)
                 /\ \A j \in 1 .. Len(oidcFile.providers[i].bindings) :
                       /\ oidcFile.providers[i].bindings[j] \in OidcBinding
                       /\ oidcFile.providers[i].bindings[j].claims \in ClaimMap
                       /\ oidcFile.providers[i].bindings[j].task \in OidcTask
<1>1. oidcFile.providers \in Seq(OidcProviderPolicy)
  BY DEF OidcTypeOK, OidcPolicyDocument
<1>2. Len(oidcFile.providers) \in Nat /\ DOMAIN oidcFile.providers = 1 .. Len(oidcFile.providers)
  BY <1>1
<1>3. provider \in Nat \ {0} /\ provider <= Len(oidcFile.providers) + 1
  BY <1>2 DEF OidcTypeOK
<1>4. ASSUME NEW i \in 1 .. Len(oidcFile.providers)
      PROVE  /\ oidcFile.providers[i] \in OidcProviderPolicy
             /\ oidcFile.providers[i].issuer \in Issuer
             /\ oidcFile.providers[i].bindings \in Seq(OidcBinding)
  <2>1. oidcFile.providers[i] \in OidcProviderPolicy
    BY <1>1, <1>2
  <2> QED
    BY <2>1 DEF OidcProviderPolicy
<1>5. ASSUME NEW i \in 1 .. Len(oidcFile.providers)
      PROVE  /\ Len(oidcFile.providers[i].bindings) \in Nat
             /\ DOMAIN oidcFile.providers[i].bindings = 1 .. Len(oidcFile.providers[i].bindings)
             /\ \A j \in 1 .. Len(oidcFile.providers[i].bindings) :
                   oidcFile.providers[i].bindings[j] \in OidcBinding
  BY <1>4
<1>6. \A b \in OidcBinding : b.claims \in ClaimMap /\ b.task \in OidcTask
  BY DEF OidcBinding
<1> QED
  BY <1>1, <1>2, <1>3, <1>4, <1>5, <1>6

\* Before any iteration validate has collected nothing.
LEMMA OidcHoldsInitially ==
    OidcInit => OidcIndInv
<1> SUFFICES ASSUME OidcInit PROVE OidcIndInv
  OBVIOUS
<1>1. oidcFile \in OidcPolicyDocument /\ oidcFile.providers \in Seq(OidcProviderPolicy)
  BY OidcAssumption DEF OidcInit, OidcStart, OidcPolicyDocument
<1>2. Len(oidcFile.providers) \in Nat
  BY <1>1
<1>3. provider = 1 /\ binding = 0 /\ issuers = {} /\ bindings = {} /\ oidcPc = "header"
  BY DEF OidcInit, OidcStart
<1>4. 1 <= Len(oidcFile.providers) => Len(oidcFile.providers[1].bindings) \in Nat
  <2> SUFFICES ASSUME 1 <= Len(oidcFile.providers) PROVE Len(oidcFile.providers[1].bindings) \in Nat
    OBVIOUS
  <2>1. oidcFile.providers[1] \in OidcProviderPolicy
    BY <1>1, <1>2
  <2>2. oidcFile.providers[1].bindings \in Seq(OidcBinding)
    BY <2>1 DEF OidcProviderPolicy
  <2> QED
    BY <2>2
<1>5. OidcTypeOK
  BY <1>1, <1>2, <1>3, <1>4 DEF OidcTypeOK
<1> QED
  BY <1>3, <1>5 DEF OidcIndInv, OidcVerdictIsExact

\* A rejection of validate keeps the invariant when the file has a defect.
LEMMA OidcKeptByReject ==
    ASSUME OidcIndInv, RejectOidcPolicy, ~OidcSound(oidcFile) PROVE OidcIndInv'
<1>1. OidcTypeOK'
  BY DEF OidcIndInv, OidcTypeOK, RejectOidcPolicy
<1> QED
  BY <1>1 DEF OidcIndInv, OidcVerdictIsExact, RejectOidcPolicy

\* The checks of validate before its loops.
LEMMA OidcKeptByHeader ==
    ASSUME OidcIndInv, ValidateOidcHeader PROVE OidcIndInv'
<1>1. CASE ~OidcHeader(oidcFile) /\ RejectOidcPolicy
  BY <1>1, OidcKeptByReject DEF OidcSound
<1>2. CASE /\ OidcHeader(oidcFile) /\ oidcPc' = "providers"
           /\ UNCHANGED <<oidcFile, provider, binding, issuers, bindings>>
  <2>1. provider = 1 /\ binding = 0 /\ issuers = {} /\ OidcTypeOK
    BY DEF OidcIndInv, ValidateOidcHeader
  <2>2. OidcTypeOK'
    BY <1>2, <2>1 DEF OidcTypeOK
  <2>3. ProvidersVisitedSound'
    BY <1>2, <2>1 DEF ProvidersVisitedSound
  <2>4. IssuersCollected'
    BY <1>2, <2>1 DEF IssuersCollected
  <2> QED
    BY <1>2, <2>1, <2>2, <2>3, <2>4 DEF OidcIndInv, OidcVerdictIsExact
<1> QED
  BY <1>1, <1>2 DEF ValidateOidcHeader

\* The head of the outer loop of validate.
LEMMA OidcKeptByProvider ==
    ASSUME OidcIndInv, ValidateProvider PROVE OidcIndInv'
<1> DEFINE p == oidcFile.providers[provider]
           valid == ValidProvider(p) /\ p.issuer \notin issuers
<1>1. /\ oidcPc = "providers" /\ provider <= Len(oidcFile.providers) /\ binding = 0
      /\ OidcTypeOK /\ OidcHeader(oidcFile) /\ ProvidersVisitedSound /\ IssuersCollected
  BY DEF OidcIndInv, ValidateProvider, InProvider
<1>2. /\ provider \in 1 .. Len(oidcFile.providers) /\ provider \in Nat
      /\ DOMAIN oidcFile.providers = 1 .. Len(oidcFile.providers)
      /\ p.issuer \in Issuer /\ Len(p.bindings) \in Nat
  BY <1>1, OidcFileShape
<1>3. issuers = {oidcFile.providers[i].issuer : i \in 1 .. provider - 1}
  BY <1>1 DEF IssuersCollected
<1>4. CASE ~valid /\ RejectOidcPolicy
  <2>1. CASE ~ValidProvider(p)
    BY <1>2, <1>4, <2>1, OidcKeptByReject DEF OidcSound
  <2>2. CASE p.issuer \in issuers
    <3>1. PICK i \in 1 .. provider - 1 : oidcFile.providers[i].issuer = p.issuer
      BY <1>3, <2>2
    <3>2. i \in 1 .. Len(oidcFile.providers) /\ i # provider
      BY <1>2, <3>1
    <3>3. ~IssuersDiffer(oidcFile)
      BY <1>2, <3>1, <3>2 DEF IssuersDiffer
    <3> QED
      BY <1>4, <3>3, OidcKeptByReject DEF OidcSound
  <2> QED
    BY <1>4, <2>1, <2>2
<1>5. CASE /\ valid
           /\ issuers' = issuers \union {p.issuer}
           /\ binding' = 1 /\ bindings' = {}
           /\ UNCHANGED <<oidcFile, oidcPc, provider>>
  <2>1. OidcTypeOK'
    <3>1. binding' \in 0 .. Len(oidcFile.providers[provider].bindings) + 1
      BY <1>2, <1>5
    <3>2. issuers' \subseteq Issuer
      BY <1>1, <1>2, <1>5 DEF OidcTypeOK
    <3> QED
      BY <1>1, <1>2, <1>5, <3>1, <3>2 DEF OidcTypeOK
  <2>2. ProvidersVisitedSound'
    BY <1>1, <1>5 DEF ProvidersVisitedSound
  <2>3. IssuersCollected'
    <3>1. 1 .. provider = (1 .. provider - 1) \union {provider}
      BY <1>2
    <3>2. issuers' = {oidcFile.providers[i].issuer : i \in 1 .. provider}
      BY <1>3, <1>5, <3>1
    <3>3. provider - 0 = provider
      BY <1>2
    <3> QED
      BY <1>5, <3>2, <3>3 DEF IssuersCollected
  <2>4. BindingsVisitedSound'
    <3>1. 1 .. binding' - 1 = {}
      BY <1>5
    <3> QED
      BY <1>5, <3>1 DEF BindingsVisitedSound
  <2>5. \A i \in 1 .. provider - 1 : oidcFile.providers[i].issuer # p.issuer
    BY <1>3, <1>5
  <2> QED
    BY <1>1, <1>5, <2>1, <2>2, <2>3, <2>4, <2>5 DEF OidcIndInv, OidcVerdictIsExact
<1> QED
  BY <1>4, <1>5 DEF ValidateProvider

\* One iteration of the inner loop of validate.
LEMMA OidcKeptByBinding ==
    ASSUME OidcIndInv, ValidateBinding PROVE OidcIndInv'
<1> DEFINE p == oidcFile.providers[provider]
           b == p.bindings[binding]
           valid == /\ ValidBinding(b)
                    /\ ~\E existing \in bindings : ClaimBindingsOverlap(existing, b.claims)
<1>1. /\ oidcPc = "providers" /\ provider <= Len(oidcFile.providers)
      /\ binding \in 1 .. Len(p.bindings)
      /\ OidcTypeOK /\ OidcHeader(oidcFile) /\ ProvidersVisitedSound /\ IssuersCollected
  BY DEF OidcIndInv, ValidateBinding, InProvider
<1>2. /\ provider \in 1 .. Len(oidcFile.providers)
      /\ DOMAIN oidcFile.providers = 1 .. Len(oidcFile.providers)
      /\ Len(p.bindings) \in Nat /\ DOMAIN p.bindings = 1 .. Len(p.bindings)
      /\ \A j \in 1 .. Len(p.bindings) :
            p.bindings[j] \in OidcBinding /\ p.bindings[j].claims \in ClaimMap
  BY <1>1, OidcFileShape
<1>3. binding \in Nat /\ binding # 0 /\ binding <= Len(p.bindings)
  BY <1>1, <1>2
<1>4. /\ BindingsVisitedSound
      /\ \A i \in 1 .. provider - 1 : oidcFile.providers[i].issuer # p.issuer
  BY <1>1, <1>3 DEF OidcIndInv
<1>5. bindings = {p.bindings[j].claims : j \in 1 .. binding - 1}
  BY <1>4 DEF BindingsVisitedSound
<1>6. CASE ~valid /\ RejectOidcPolicy
  <2>1. CASE ~ValidBinding(b)
    BY <1>1, <1>2, <1>6, <2>1, OidcKeptByReject DEF OidcSound, BindingsSound
  <2>2. CASE \E existing \in bindings : ClaimBindingsOverlap(existing, b.claims)
    <3>1. PICK j \in 1 .. binding - 1 : ClaimBindingsOverlap(p.bindings[j].claims, b.claims)
      BY <1>5, <2>2
    <3>2. j \in 1 .. Len(p.bindings) /\ j # binding
      BY <1>2, <1>3, <3>1
    <3>3. AmbiguousBindings(p.bindings[j], b)
      BY <1>1, <1>2, <3>1, <3>2, OverlapIsAmbiguity
    <3>4. ~BindingsSound(p)
      BY <1>1, <1>2, <3>2, <3>3 DEF BindingsSound
    <3> QED
      BY <1>2, <1>6, <3>4, OidcKeptByReject DEF OidcSound
  <2> QED
    BY <1>6, <2>1, <2>2
<1>7. CASE /\ valid
           /\ bindings' = bindings \union {b.claims}
           /\ binding' = binding + 1
           /\ UNCHANGED <<oidcFile, oidcPc, provider, issuers>>
  <2>1. OidcTypeOK'
    <3>1. binding' \in 0 .. Len(p.bindings) + 1
      BY <1>2, <1>3, <1>7
    <3>2. bindings' \subseteq ClaimMap
      BY <1>1, <1>2, <1>7 DEF OidcTypeOK
    <3> QED
      BY <1>1, <1>7, <3>1, <3>2 DEF OidcTypeOK
  <2>2. ProvidersVisitedSound'
    BY <1>1, <1>7 DEF ProvidersVisitedSound
  <2>3. binding' # 0 /\ IssuersCollected'
    BY <1>1, <1>3, <1>7 DEF IssuersCollected
  <2>4. 1 .. binding' - 1 = (1 .. binding - 1) \union {binding}
    BY <1>3, <1>7
  <2>5. bindings' = {p.bindings[j].claims : j \in 1 .. binding' - 1}
    BY <1>5, <1>7, <2>4
  <2>6. \A j \in 1 .. binding' - 1 : ValidBinding(p.bindings[j])
    BY <1>4, <1>7, <2>4 DEF BindingsVisitedSound
  <2>7. \A j \in 1 .. binding - 1 :
           /\ ~ClaimBindingsOverlap(p.bindings[j].claims, b.claims)
           /\ ~ClaimBindingsOverlap(b.claims, p.bindings[j].claims)
    BY <1>5, <1>7, OverlapIsSymmetric
  <2>8. \A j, k \in 1 .. binding' - 1 :
           j # k => ~ClaimBindingsOverlap(p.bindings[j].claims, p.bindings[k].claims)
    BY <1>4, <2>4, <2>7 DEF BindingsVisitedSound
  <2>9. BindingsVisitedSound'
    BY <1>4, <1>7, <2>5, <2>6, <2>8 DEF BindingsVisitedSound
  <2> QED
    BY <1>1, <1>4, <1>7, <2>1, <2>2, <2>3, <2>9 DEF OidcIndInv, OidcVerdictIsExact
<1> QED
  BY <1>6, <1>7 DEF ValidateBinding

\* The end of the inner loop of validate: the provider has no ambiguity.
LEMMA OidcKeptByNextProvider ==
    ASSUME OidcIndInv, NextProvider PROVE OidcIndInv'
<1> DEFINE p == oidcFile.providers[provider]
<1>1. /\ oidcPc = "providers" /\ provider <= Len(oidcFile.providers)
      /\ binding = Len(p.bindings) + 1
      /\ provider' = provider + 1 /\ binding' = 0
      /\ UNCHANGED <<oidcFile, oidcPc, issuers, bindings>>
      /\ OidcTypeOK /\ OidcHeader(oidcFile) /\ ProvidersVisitedSound /\ IssuersCollected
  BY DEF OidcIndInv, NextProvider, InProvider
<1>2. /\ provider \in 1 .. Len(oidcFile.providers) /\ provider \in Nat
      /\ Len(oidcFile.providers) \in Nat
      /\ Len(p.bindings) \in Nat /\ DOMAIN p.bindings = 1 .. Len(p.bindings)
      /\ \A j \in 1 .. Len(p.bindings) : p.bindings[j] \in OidcBinding
  BY <1>1, OidcFileShape
<1>3. binding # 0 /\ binding - 1 = Len(p.bindings)
  BY <1>1, <1>2
<1>4. /\ BindingsVisitedSound
      /\ \A i \in 1 .. provider - 1 : oidcFile.providers[i].issuer # p.issuer
  BY <1>1, <1>3 DEF OidcIndInv
<1>5. ValidProvider(p) /\ BindingsSound(p)
  <2>1. /\ ValidProvider(p)
        /\ \A j \in 1 .. Len(p.bindings) : ValidBinding(p.bindings[j])
        /\ \A j, k \in 1 .. Len(p.bindings) :
              j # k => ~ClaimBindingsOverlap(p.bindings[j].claims, p.bindings[k].claims)
    BY <1>3, <1>4 DEF BindingsVisitedSound
  <2>2. \A j, k \in 1 .. Len(p.bindings) :
           j # k => ~AmbiguousBindings(p.bindings[j], p.bindings[k])
    BY <1>2, <2>1, OverlapIsAmbiguity
  <2> QED
    BY <1>2, <2>1, <2>2 DEF BindingsSound
<1>6. 1 .. provider' - 1 = (1 .. provider - 1) \union {provider}
  BY <1>1, <1>2
<1>7. ProvidersVisitedSound'
  <2>1. \A i \in 1 .. provider' - 1 :
           ValidProvider(oidcFile.providers[i]) /\ BindingsSound(oidcFile.providers[i])
    BY <1>1, <1>5, <1>6 DEF ProvidersVisitedSound
  <2>2. \A i, k \in 1 .. provider' - 1 :
           oidcFile.providers[i].issuer = oidcFile.providers[k].issuer => i = k
    BY <1>1, <1>4, <1>6 DEF ProvidersVisitedSound
  <2> QED
    BY <1>1, <2>1, <2>2 DEF ProvidersVisitedSound
<1>8. IssuersCollected'
  <2>1. provider - 0 = provider /\ provider' - 1 = provider
    BY <1>1, <1>2
  <2> QED
    BY <1>1, <1>3, <2>1 DEF IssuersCollected
<1>9. OidcTypeOK'
  <2>1. provider' \in 1 .. Len(oidcFile.providers) + 1
    BY <1>1, <1>2
  <2>2. provider' <= Len(oidcFile.providers) =>
            binding' \in 0 .. Len(oidcFile.providers[provider'].bindings) + 1
    <3> SUFFICES ASSUME provider' <= Len(oidcFile.providers)
                 PROVE  0 \in 0 .. Len(oidcFile.providers[provider'].bindings) + 1
      BY <1>1
    <3>1. provider' \in 1 .. Len(oidcFile.providers)
      BY <2>1, <1>2
    <3>2. Len(oidcFile.providers[provider'].bindings) \in Nat
      BY <1>1, <3>1, OidcFileShape
    <3> QED
      BY <3>2
  <2> QED
    BY <1>1, <2>1, <2>2 DEF OidcTypeOK
<1> QED
  BY <1>1, <1>7, <1>8, <1>9 DEF OidcIndInv, OidcVerdictIsExact

\* The end of the outer loop of validate: every provider has been visited.
LEMMA OidcKeptByAccept ==
    ASSUME OidcIndInv, AcceptOidcPolicy PROVE OidcIndInv'
<1>1. /\ oidcPc = "providers" /\ provider > Len(oidcFile.providers) /\ oidcPc' = "accepted"
      /\ UNCHANGED <<oidcFile, provider, binding, issuers, bindings>>
      /\ OidcTypeOK /\ OidcHeader(oidcFile) /\ ProvidersVisitedSound
  BY DEF OidcIndInv, AcceptOidcPolicy
<1>2. /\ DOMAIN oidcFile.providers = 1 .. Len(oidcFile.providers)
      /\ provider - 1 = Len(oidcFile.providers)
  BY <1>1, OidcFileShape
<1>3. OidcSound(oidcFile)
  BY <1>1, <1>2 DEF ProvidersVisitedSound, OidcSound, IssuersDiffer
<1>4. OidcTypeOK'
  BY <1>1 DEF OidcTypeOK
<1> QED
  BY <1>1, <1>3, <1>4 DEF OidcIndInv, OidcVerdictIsExact

\* Every step of validate.
LEMMA OidcKeptByNext ==
    OidcIndInv /\ [OidcNext]_oidcVars => OidcIndInv'
<1> SUFFICES ASSUME OidcIndInv, [OidcNext]_oidcVars PROVE OidcIndInv'
  OBVIOUS
<1>1. CASE UNCHANGED oidcVars
  BY <1>1 DEF oidcVars, OidcIndInv, OidcTypeOK, ProvidersVisitedSound, IssuersCollected,
              BindingsVisitedSound, OidcVerdictIsExact
<1> QED
  BY <1>1, OidcKeptByHeader, OidcKeptByProvider, OidcKeptByBinding, OidcKeptByNextProvider, OidcKeptByAccept DEF OidcNext

\* The loops of OidcPolicy::validate keep what they have found out.
THEOREM OidcPolicyInvariant == OidcSpec => []OidcIndInv
  BY OidcHoldsInitially, OidcKeptByNext, PTL DEF OidcSpec

\* The loop variables of OidcPolicy::validate stay in range.
THEOREM OidcPolicyTypes == OidcSpec => []OidcTypeOK
<1>1. OidcIndInv => OidcTypeOK
  BY DEF OidcIndInv
<1> QED
  BY <1>1, OidcPolicyInvariant, PTL

\* OidcPolicy::validate accepts a file exactly when it is in order and no
\* claims fall under two bindings of one provider.
THEOREM ExactVerdict == OidcSpec => []OidcVerdictIsExact
<1>1. OidcIndInv => OidcVerdictIsExact
  BY DEF OidcIndInv
<1> QED
  BY <1>1, OidcPolicyInvariant, PTL

\* Claims that match a binding match it with more claims too, and no other one
\* of an unambiguous provider: authorize keeps its answer.
LEMMA WiderClaimsMatchTheSame ==
    ASSUME OidcTypeOK, OidcSound(oidcFile), NEW i \in DOMAIN oidcFile.providers,
           NEW claims \in ClaimMap, NEW wide \in ClaimMap, Extends(wide, claims),
           NEW j \in DOMAIN oidcFile.providers[i].bindings, MatchingBindings(oidcFile, i, claims) = {j}
    PROVE  MatchingBindings(oidcFile, i, wide) = {j}
<1> DEFINE list == oidcFile.providers[i].bindings
<1>1. Matches(list[j], claims)
  BY DEF MatchingBindings
<1>2. \A k \in DOMAIN list : list[k].claims \in ClaimMap
  BY OidcFileShape
<1>3. Matches(list[j], wide)
  BY <1>1, <1>2 DEF Matches, ClaimNames, Extends
<1>4. \A k \in DOMAIN list : Matches(list[k], wide) => k = j
  BY <1>3 DEF OidcSound, BindingsSound, AmbiguousBindings
<1> QED
  BY <1>3, <1>4 DEF MatchingBindings

\* Under an accepted policy, claims that an issuer adds to its tokens never
\* change what OidcPolicy::authorize returns.
THEOREM StableBinding == OidcSpec => []ExtraClaimsChangeNothing
<1>1. OidcIndInv => ExtraClaimsChangeNothing
  <2> SUFFICES ASSUME OidcIndInv, oidcPc = "accepted",
                      NEW issuer \in Issuer, NEW claims \in ClaimMap, NEW wide \in ClaimMap,
                      Extends(wide, claims), AuthorizeClaims(oidcFile, issuer, claims) # {}
               PROVE  AuthorizeClaims(oidcFile, issuer, wide) = AuthorizeClaims(oidcFile, issuer, claims)
    BY DEF ExtraClaimsChangeNothing
  <2>1. OidcTypeOK /\ OidcSound(oidcFile)
    BY DEF OidcIndInv, OidcVerdictIsExact
  <2>2. PICK i \in ProviderOf(oidcFile, issuer) : \E j \in DOMAIN oidcFile.providers[i].bindings :
           MatchingBindings(oidcFile, i, claims) = {j}
    BY DEF AuthorizeClaims
  <2>3. PICK j \in DOMAIN oidcFile.providers[i].bindings : MatchingBindings(oidcFile, i, claims) = {j}
    BY <2>2
  <2>4. i \in DOMAIN oidcFile.providers /\ ProviderOf(oidcFile, issuer) = {i}
    BY <2>1, <2>2 DEF ProviderOf, OidcSound, IssuersDiffer
  <2>5. MatchingBindings(oidcFile, i, wide) = {j}
    BY <2>1, <2>3, <2>4, WiderClaimsMatchTheSame
  <2> QED
    BY <2>3, <2>4, <2>5 DEF AuthorizeClaims
<1> QED
  BY <1>1, OidcPolicyInvariant, PTL

-----------------------------------------------------------------------------
(* The policy of the workload exchange.                                     *)

\* The inductive invariant behind both: the loop of validate knows of the
\* identities behind it that they are in order and differ.
WorkloadIndInv ==
    /\ WorkloadTypeOK
    /\ workloadPc = "header" => nextId = 1 /\ usernames = {} /\ subjects = {}
    /\ workloadPc = "identities" =>
          /\ WorkloadHeader(listing)
          /\ usernames = {listing.identities[i].username : i \in 1 .. nextId - 1}
          /\ subjects = {listing.identities[i].subject : i \in 1 .. nextId - 1}
          /\ \A i \in 1 .. nextId - 1 : ValidIdentity(listing.identities[i])
          /\ \A i, j \in 1 .. nextId - 1 :
                listing.identities[i].username = listing.identities[j].username => i = j
    /\ WorkloadVerdictIsExact

LEMMA WorkloadFileShape ==
    ASSUME WorkloadTypeOK
    PROVE  /\ Len(listing.identities) \in Nat
           /\ DOMAIN listing.identities = 1 .. Len(listing.identities)
           /\ \A i \in DOMAIN listing.identities : listing.identities[i] \in WorkloadIdentity
           /\ nextId \in Nat
<1>1. listing.identities \in Seq(WorkloadIdentity) /\ nextId \in 1 .. Len(listing.identities) + 1
  BY DEF WorkloadTypeOK, WorkloadPolicyDocument
<1> QED
  BY <1>1

\* In order, two identities with one subject have one username.
LEMMA OneSubjectOneUsername ==
    ASSUME WorkloadTypeOK, NEW i \in DOMAIN listing.identities, NEW j \in DOMAIN listing.identities,
           ValidIdentity(listing.identities[i]), ValidIdentity(listing.identities[j]),
           listing.identities[i].subject = listing.identities[j].subject
    PROVE  listing.identities[i].username = listing.identities[j].username
<1>1. /\ listing.identities[i].username \in Text
      /\ listing.identities[j].username \in Text
  BY WorkloadFileShape DEF WorkloadIdentity
<1>2. listing.identities[i].username.prefix = listing.identities[j].username.prefix
  BY DEF ValidIdentity, ServiceAccount
<1>3. listing.identities[i].username.segments = listing.identities[j].username.segments
  BY DEF ValidIdentity, Corresponds
<1> QED
  BY <1>1, <1>2, <1>3 DEF Text

\* A file that validate has just read.
LEMMA WorkloadHoldsInitially == WorkloadInit => WorkloadIndInv
<1> SUFFICES ASSUME WorkloadInit PROVE WorkloadIndInv
  OBVIOUS
<1>1. listing \in WorkloadPolicyDocument
  BY WorkloadAssumption DEF WorkloadInit, WorkloadStart
<1>2. Len(listing.identities) \in Nat
  BY <1>1 DEF WorkloadPolicyDocument
<1>3. WorkloadTypeOK
  BY <1>1, <1>2 DEF WorkloadInit, WorkloadStart, WorkloadTypeOK
<1> QED
  BY <1>3 DEF WorkloadInit, WorkloadStart, WorkloadIndInv, WorkloadVerdictIsExact, WorkloadSound

\* The head of validate.
LEMMA WorkloadKeptByHeader == ASSUME WorkloadIndInv, ValidateWorkloadHeader PROVE WorkloadIndInv'
<1>1. /\ workloadPc = "header" /\ WorkloadTypeOK /\ nextId = 1 /\ usernames = {} /\ subjects = {}
      /\ workloadPc' = (IF WorkloadHeader(listing) THEN "identities" ELSE "rejected")
      /\ UNCHANGED <<listing, nextId, usernames, subjects>>
  BY DEF WorkloadIndInv, ValidateWorkloadHeader
<1>2. WorkloadTypeOK'
  BY <1>1 DEF WorkloadTypeOK
<1>3. 1 .. nextId' - 1 = {}
  BY <1>1
<1> QED
  BY <1>1, <1>2, <1>3 DEF WorkloadIndInv, WorkloadVerdictIsExact, WorkloadSound

\* What the loop of validate rejects is not in order, or repeats a username.
LEMMA WorkloadKeptByReject == ASSUME WorkloadIndInv, RejectIdentity PROVE WorkloadIndInv'
<1>1. /\ workloadPc = "identities" /\ nextId <= Len(listing.identities) /\ WorkloadTypeOK
      /\ workloadPc' = "rejected" /\ UNCHANGED <<listing, nextId, usernames, subjects>>
      /\ usernames = {listing.identities[i].username : i \in 1 .. nextId - 1}
      /\ subjects = {listing.identities[i].subject : i \in 1 .. nextId - 1}
      /\ \/ ~ValidIdentity(listing.identities[nextId])
         \/ listing.identities[nextId].username \in usernames
         \/ listing.identities[nextId].subject \in subjects
  BY DEF WorkloadIndInv, RejectIdentity, InLoop
<1>2. WorkloadTypeOK'
  BY <1>1 DEF WorkloadTypeOK
<1>3. /\ nextId \in DOMAIN listing.identities
      /\ \A i \in 1 .. nextId - 1 : i \in DOMAIN listing.identities /\ i # nextId
  BY <1>1, WorkloadFileShape DEF WorkloadTypeOK
<1>4. ASSUME Differ(listing), \A i \in DOMAIN listing.identities : ValidIdentity(listing.identities[i])
      PROVE  FALSE
  <2>1. PICK i \in 1 .. nextId - 1 :
            \/ listing.identities[i].username = listing.identities[nextId].username
            \/ listing.identities[i].subject = listing.identities[nextId].subject
    BY <1>1, <1>3, <1>4
  <2>2. listing.identities[i].username = listing.identities[nextId].username
    BY <1>1, <1>3, <1>4, <2>1, OneSubjectOneUsername
  <2> QED
    BY <1>3, <1>4, <2>2 DEF Differ
<1> QED
  BY <1>1, <1>2, <1>4 DEF WorkloadIndInv, WorkloadVerdictIsExact, WorkloadSound, Differ

\* One more identity behind the loop of validate.
LEMMA WorkloadKeptByAcceptIdentity == ASSUME WorkloadIndInv, AcceptIdentity PROVE WorkloadIndInv'
<1>1. /\ workloadPc = "identities" /\ nextId <= Len(listing.identities)
      /\ WorkloadTypeOK /\ WorkloadHeader(listing)
      /\ UNCHANGED <<listing, workloadPc>> /\ nextId' = nextId + 1
      /\ usernames' = usernames \union {listing.identities[nextId].username}
      /\ subjects' = subjects \union {listing.identities[nextId].subject}
      /\ ValidIdentity(listing.identities[nextId])
      /\ listing.identities[nextId].username \notin usernames
  BY DEF WorkloadIndInv, AcceptIdentity, InLoop
<1>2. /\ usernames = {listing.identities[i].username : i \in 1 .. nextId - 1}
      /\ subjects = {listing.identities[i].subject : i \in 1 .. nextId - 1}
      /\ \A i \in 1 .. nextId - 1 : ValidIdentity(listing.identities[i])
      /\ \A i, j \in 1 .. nextId - 1 :
            listing.identities[i].username = listing.identities[j].username => i = j
  BY <1>1 DEF WorkloadIndInv
<1>3. /\ nextId \in Nat /\ nextId >= 1 /\ nextId \in DOMAIN listing.identities
      /\ 1 .. nextId' - 1 = (1 .. nextId - 1) \union {nextId}
  BY <1>1, WorkloadFileShape DEF WorkloadTypeOK
<1>4. /\ usernames' = {listing.identities[i].username : i \in 1 .. nextId' - 1}
      /\ subjects' = {listing.identities[i].subject : i \in 1 .. nextId' - 1}
  <2>1. usernames' = {listing.identities[i].username : i \in (1 .. nextId - 1) \union {nextId}}
    BY <1>1, <1>2
  <2>2. subjects' = {listing.identities[i].subject : i \in (1 .. nextId - 1) \union {nextId}}
    BY <1>1, <1>2
  <2> QED
    BY <1>3, <2>1, <2>2
<1>5. \A i \in 1 .. nextId' - 1 : ValidIdentity(listing.identities[i])
  BY <1>1, <1>2, <1>3
<1>6. \A i, j \in 1 .. nextId' - 1 :
            listing.identities[i].username = listing.identities[j].username => i = j
  BY <1>1, <1>2, <1>3
<1>7. WorkloadTypeOK'
  <2>1. nextId' \in 1 .. Len(listing.identities) + 1
    BY <1>1, <1>3, WorkloadFileShape
  <2>2. listing.identities[nextId].username \in Text /\ listing.identities[nextId].subject \in Text
    BY <1>1, <1>3, WorkloadFileShape DEF WorkloadIdentity
  <2> QED
    BY <1>1, <2>1, <2>2 DEF WorkloadTypeOK
<1>8. workloadPc' = "identities" /\ WorkloadHeader(listing)' /\ listing' = listing
  BY <1>1
<1>9. WorkloadVerdictIsExact'
  BY <1>8 DEF WorkloadVerdictIsExact
<1>10. /\ usernames' = {listing'.identities[i].username : i \in 1 .. nextId' - 1}
       /\ subjects' = {listing'.identities[i].subject : i \in 1 .. nextId' - 1}
       /\ \A i \in 1 .. nextId' - 1 : ValidIdentity(listing'.identities[i])
       /\ \A i, j \in 1 .. nextId' - 1 :
             listing'.identities[i].username = listing'.identities[j].username => i = j
  BY <1>4, <1>5, <1>6, <1>8
<1> QED
  BY <1>7, <1>8, <1>9, <1>10 DEF WorkloadIndInv

\* The end of the loop of validate: every identity has been visited.
LEMMA WorkloadKeptByAccept == ASSUME WorkloadIndInv, AcceptWorkloadPolicy PROVE WorkloadIndInv'
<1>1. /\ workloadPc = "identities" /\ nextId > Len(listing.identities)
      /\ WorkloadTypeOK /\ WorkloadHeader(listing)
      /\ workloadPc' = "accepted" /\ UNCHANGED <<listing, nextId, usernames, subjects>>
      /\ \A i \in 1 .. nextId - 1 : ValidIdentity(listing.identities[i])
      /\ \A i, j \in 1 .. nextId - 1 :
            listing.identities[i].username = listing.identities[j].username => i = j
  BY DEF WorkloadIndInv, AcceptWorkloadPolicy
<1>2. DOMAIN listing.identities = 1 .. nextId - 1
  BY <1>1, WorkloadFileShape DEF WorkloadTypeOK
<1>3. WorkloadTypeOK'
  BY <1>1 DEF WorkloadTypeOK
<1>4. Differ(listing) /\ \A i \in DOMAIN listing.identities : ValidIdentity(listing.identities[i])
  BY <1>1, <1>2 DEF Differ
<1> QED
  BY <1>1, <1>3, <1>4 DEF WorkloadIndInv, WorkloadVerdictIsExact, WorkloadSound, Differ

\* The loop of WorkloadPolicy::validate keeps what it has found out about the
\* identities behind it.
THEOREM WorkloadInvariant == WorkloadSpec => []WorkloadIndInv
<1>1. WorkloadIndInv /\ UNCHANGED workloadVars => WorkloadIndInv'
  BY DEF workloadVars, WorkloadIndInv, WorkloadTypeOK, WorkloadVerdictIsExact, WorkloadSound
<1>2. WorkloadIndInv /\ [WorkloadNext]_workloadVars => WorkloadIndInv'
  BY <1>1, WorkloadKeptByHeader, WorkloadKeptByReject, WorkloadKeptByAcceptIdentity, WorkloadKeptByAccept DEF WorkloadNext
<1> QED
  BY <1>2, WorkloadHoldsInitially, PTL DEF WorkloadSpec

\* The loop variable of WorkloadPolicy::validate stays in range.
THEOREM WorkloadTypes == WorkloadSpec => []WorkloadTypeOK
<1>1. WorkloadIndInv => WorkloadTypeOK
  BY DEF WorkloadIndInv
<1> QED
  BY <1>1, WorkloadInvariant, PTL

\* WorkloadPolicy::validate accepts exactly the files that are in order and
\* repeat no username; the check for repeated subjects refuses nothing more.
THEOREM WorkloadVerdict == WorkloadSpec => []WorkloadVerdictIsExact
<1>1. WorkloadIndInv => WorkloadVerdictIsExact
  BY DEF WorkloadIndInv
<1> QED
  BY <1>1, WorkloadInvariant, PTL

\* Under an accepted policy authorize gives every listed service account an
\* identity, and no two the same subject.
THEOREM OwnSubject == WorkloadSpec => []SubjectsAreNotShared
<1>1. WorkloadIndInv => SubjectsAreNotShared
  <2> SUFFICES ASSUME WorkloadIndInv, workloadPc = "accepted",
                      NEW i \in DOMAIN listing.identities, NEW j \in DOMAIN listing.identities
               PROVE  LET mine == AuthorizeUsername(listing, listing.identities[i].username)
                          other == AuthorizeUsername(listing, listing.identities[j].username)
                      IN  /\ mine # {}
                          /\ \A a \in mine, b \in other : a.subject = b.subject => i = j
    BY DEF SubjectsAreNotShared
  <2>1. /\ WorkloadTypeOK /\ Differ(listing)
        /\ \A k \in DOMAIN listing.identities : ValidIdentity(listing.identities[k])
    BY DEF WorkloadIndInv, WorkloadVerdictIsExact, WorkloadSound
  <2>2. \A k, l \in DOMAIN listing.identities :
           MatchingIdentities(listing, listing.identities[k].username) = {l} <=> l = k
    BY <2>1 DEF MatchingIdentities, Differ
  <2>3. \A k \in DOMAIN listing.identities : \A a \in AuthorizeUsername(listing, listing.identities[k].username) :
           a.subject = listing.identities[k].subject
    BY <2>2 DEF AuthorizeUsername
  <2>4. AuthorizeUsername(listing, listing.identities[i].username) # {}
    <3> DEFINE Found(k) == [subject |-> listing.identities[k].subject,
                            roles |-> {listing.identities[k].roles[l] : l \in DOMAIN listing.identities[k].roles},
                            task |-> listing.identities[k].task]
    <3>1. i \in {k \in DOMAIN listing.identities : MatchingIdentities(listing, listing.identities[i].username) = {k}}
      BY <2>2
    <3>2. AuthorizeUsername(listing, listing.identities[i].username) =
            {Found(k) : k \in {n \in DOMAIN listing.identities :
                                  MatchingIdentities(listing, listing.identities[i].username) = {n}}}
      BY DEF AuthorizeUsername
    <3> HIDE DEF Found
    <3>3. Found(i) \in AuthorizeUsername(listing, listing.identities[i].username)
      BY <3>1, <3>2
    <3> QED
      BY <3>3
  <2>5. listing.identities[i].subject = listing.identities[j].subject => i = j
    BY <2>1, OneSubjectOneUsername DEF Differ
  <2> QED
    BY <2>3, <2>4, <2>5
<1> QED
  BY <1>1, WorkloadInvariant, PTL

-----------------------------------------------------------------------------
(* Loading the three, as main.rs does.                                      *)

\* To each of the three validations, start-up is a run of it that the others
\* do not disturb: what is proved of each alone holds of the process.
THEOREM LoadingRunsEach == PoliciesSpec => Spec /\ OidcSpec /\ WorkloadSpec
<1>1. PoliciesInit => Init /\ OidcInit /\ WorkloadInit
  BY MountedAssumption DEF PoliciesInit, Init, OidcInit, WorkloadInit
<1>2. [PoliciesNext]_policyVars =>
          [Next]_vars /\ [OidcNext]_oidcVars /\ [WorkloadNext]_workloadVars
  BY DEF PoliciesNext, policyVars, LoadGitHubPolicy, CheckVersion, LoadOidcPolicy, LoadWorkloadPolicy
<1> QED
  BY <1>1, <1>2, PTL DEF PoliciesSpec, Spec, OidcSpec, WorkloadSpec

\* An accepted policy is not looked at again.
LEMMA AcceptedStays ==
    ASSUME pc = "accepted", [Next]_vars
    PROVE  UNCHANGED <<pc, file>>
BY DEF Next, vars, ValidateHeader, ValidateActor, ActorsValid, ValidateRuleV5, ValidateRuleV6, Accept, Reject

\* The file stays what it was while it is read.
LEMMA FileStays ==
    ASSUME [Next]_vars
    PROVE  UNCHANGED file
BY DEF Next, vars, ValidateHeader, ValidateActor, ActorsValid, ValidateRuleV5, ValidateRuleV6, Accept, Reject

\* Start-up ends with all policies loaded only when the GitHub policy, its
\* version and the policies of the enabled exchanges are in order, and with a
\* refusal only when one of them is not.
THEOREM ExactLoading == PoliciesSpec => []LoadingIsExact
<1>1. PoliciesInit => ContractIsChecked
  BY DEF PoliciesInit, ContractIsChecked
<1>2. ContractIsChecked /\ [PoliciesNext]_policyVars => ContractIsChecked'
  <2> SUFFICES ASSUME ContractIsChecked, [PoliciesNext]_policyVars PROVE ContractIsChecked'
    OBVIOUS
  <2>1. CASE CheckVersion
    BY <2>1 DEF CheckVersion, ContractIsChecked, vars
  <2>2. CASE LoadGitHubPolicy
    <3>1. UNCHANGED <<contract, expected, file>> /\ (pc = "accepted" => pc' = "accepted")
      BY <2>2, AcceptedStays, FileStays DEF LoadGitHubPolicy
    <3> QED
      BY <3>1 DEF ContractIsChecked
  <2>3. CASE LoadOidcPolicy \/ LoadWorkloadPolicy \/ UNCHANGED policyVars
    BY <2>3 DEF LoadOidcPolicy, LoadWorkloadPolicy, policyVars, vars, ContractIsChecked
  <2> QED
    BY <2>1, <2>2, <2>3 DEF PoliciesNext
<1>3. /\ ContractIsChecked /\ VerdictIsOrderFree /\ OidcVerdictIsExact /\ WorkloadVerdictIsExact
      => LoadingIsExact
  BY DEF ContractIsChecked, VerdictIsOrderFree, OidcVerdictIsExact, WorkloadVerdictIsExact,
         LoadingIsExact, Loaded, Refused, GitHubLoaded, OidcLoaded, WorkloadLoaded,
         EnabledPoliciesSound
<1> QED
  BY <1>1, <1>2, <1>3, LoadingRunsEach, OrderFreeVerdict, ExactVerdict, WorkloadVerdict, PTL
     DEF PoliciesSpec
=============================================================================
