------------------------- MODULE RepositoryPolicy -------------------------
(***************************************************************************)
(* The GitHub authorization policy of src/policy.rs: Policy::validate,     *)
(* which the process runs once on the mounted file, and Policy::authorize, *)
(* which every exchange runs on verified claims.                           *)
(*                                                                         *)
(* validate walks the actor map in hash order and the rules in file order, *)
(* rejecting the file at the first defect; one action is one iteration of  *)
(* its loops, and the hash sets it collects on the way are the variables.  *)
(* authorize reads only and is an operator.                                *)
(*                                                                         *)
(* Strings are opaque values.  What the code asks of their characters is a *)
(* set of the strings that pass, given as a constant.                      *)
(***************************************************************************)
EXTENDS Naturals, Sequences

CONSTANTS
    Document,         \* policy files that may be mounted
    Claims,           \* verified claims that may be presented
    Id,               \* strings in the places of numeric identifiers
    DecimalId,        \* those made of digits (decimal_identifier)
    NumericId,        \* those canonical and bounded too (numeric_identifier)
    Any,              \* the identifier "*"
    Value,            \* strings in selectors
    Empty,            \* the empty string
    WellFormed,       \* per selector, the values that pass its shape check
    Domain,           \* strings in allowed_email_domains
    CanonicalDomain,  \* those that validate_domains lets pass
    Email,            \* e-mail addresses of actors
    CanonicalEmail,   \* those that canonical_email lets pass
    DomainOf,         \* the domain an address ends with
    User,             \* canonical user IDs of actors
    CanonicalUser,    \* those that canonical_user_id lets pass
    None              \* an absent optional field

V5 == "v5"
V6 == "v6"

V5Selectors == {"subjects", "events", "refs"}
JobSelectors == {"job_workflow_refs", "job_workflow_shas"}
Selectors == V5Selectors \union JobSelectors

RepositoryRule ==
    [owner : Id, repository : Id, select : [Selectors -> Seq(Value) \union {None}]]

Actor == [email : Email, user : User, verified : BOOLEAN]

\* serviceGroup and prefix are "steward" when they carry the Steward contract's
\* prefixes.
Policy ==
    [version : {V5, V6, "other"},
     serviceGroup : {"steward", "other"},
     prefix : {"steward", "other", None},
     domains : Seq(Domain) \union {None},
     repositories : Seq(RepositoryRule),
     actors : [Id -> Actor \union {None}] \union {None}]

GitHubClaims ==
    [owner : Id, repository : Id, actor : Id, value : [Selectors -> Value]]

\* The wildcard has no digits, and "job workflow" shapes, like every shape,
\* are subsets of the values.
ASSUME PolicyAssumption ==
    /\ Document \subseteq Policy
    /\ Claims \subseteq GitHubClaims
    /\ NumericId \subseteq DecimalId /\ DecimalId \subseteq Id
    /\ Any \in Id \ DecimalId
    /\ None \notin Seq(Value) \union Seq(Domain)
    /\ None \notin Actor \union [Id -> Actor \union {None}] \union CanonicalUser

VARIABLES
    file,           \* the policy file this process read
    pc,             \* where validate is
    pending,        \* actors that validate_actors has not visited
    users,          \* canonical_user_ids
    next,           \* the next rule, from 1
    ruleKeys,       \* repository_rules (v5)
    repositoryIds,  \* repository_ids (v6)
    ownerScopes     \* owner_scopes (v6)

vars == <<file, pc, pending, users, next, ruleKeys, repositoryIds, ownerScopes>>

-----------------------------------------------------------------------------
\* What each value is asked to satisfy.

\* The keys of the actor map.
Actors(p) == IF p.actors = None THEN {} ELSE {a \in Id : p.actors[a] # None}

RequireValues(values) ==
    /\ values # <<>>
    /\ \A i, j \in DOMAIN values : values[i] = values[j] => i = j
    /\ \A i \in DOMAIN values : values[i] # Empty

ValidDomains(domains) ==
    RequireValues(domains) /\ \A i \in DOMAIN domains : domains[i] \in CanonicalDomain

\* validate_subjects, validate_workflow_refs, validate_workflow_shas; events
\* and refs have no shape.
WellShaped(selector, values) ==
    selector \in {"events", "refs"} \/ \A i \in DOMAIN values : values[i] \in WellFormed[selector]

ValidSelector(selector, values) == RequireValues(values) /\ WellShaped(selector, values)

\* validate_repository_ids
ValidIds(rule, bounded) ==
    LET valid == IF bounded THEN NumericId ELSE DecimalId
    IN  /\ rule.owner \in valid
        /\ rule.repository \in valid \/ (bounded /\ rule.repository = Any)

ValidActor(p, a) ==
    LET actor == p.actors[a]
    IN  /\ a \in (IF p.version = V6 THEN NumericId ELSE DecimalId)
        /\ actor.verified
        /\ actor.email \in CanonicalEmail
        /\ actor.user \in CanonicalUser
        /\ \E i \in DOMAIN p.domains : DomainOf[actor.email] = p.domains[i]

HeaderV5(p) ==
    /\ p.prefix = "steward"
    /\ p.domains # None /\ ValidDomains(p.domains)
    /\ Actors(p) # {}

\* All three parts of the actor bundle, or none.
HeaderV6(p) ==
    \/ p.actors = None /\ p.domains = None /\ p.prefix = None
    \/ HeaderV5(p)

Header(p) ==
    /\ p.version \in {V5, V6}
    /\ p.serviceGroup = "steward"
    /\ p.repositories # <<>>
    /\ IF p.version = V5 THEN HeaderV5(p) ELSE HeaderV6(p)

ValidRuleV5(rule) ==
    /\ ValidIds(rule, FALSE)
    /\ \A s \in JobSelectors : rule.select[s] = None
    /\ \A s \in V5Selectors : rule.select[s] # None /\ ValidSelector(s, rule.select[s])

ValidRuleV6(rule) ==
    /\ ValidIds(rule, TRUE)
    /\ \A s \in Selectors : rule.select[s] # None => ValidSelector(s, rule.select[s])

\* The tuple that validate_v5 inserts: selectors compare as lists.
RuleKey(rule) ==
    <<rule.owner, rule.repository, rule.select["subjects"], rule.select["events"], rule.select["refs"]>>

-----------------------------------------------------------------------------
\* Policy::validate.

Start ==
    /\ pc = "header"
    /\ pending = {} /\ users = {}
    /\ next = 1
    /\ ruleKeys = {} /\ repositoryIds = {} /\ ownerScopes = {}

Init == file \in Document /\ Start

Reject ==
    /\ pc' = "rejected"
    /\ UNCHANGED <<file, pending, users, next, ruleKeys, repositoryIds, ownerScopes>>

\* The checks before the loops.
ValidateHeader ==
    /\ pc = "header"
    /\ \/ /\ ~Header(file)
          /\ Reject
       \/ /\ Header(file)
          /\ pc' = "actors"
          /\ pending' = Actors(file)
          /\ UNCHANGED <<file, users, next, ruleKeys, repositoryIds, ownerScopes>>

\* Faulty: canonical user IDs are not collected.
ValidateActorAlone(a) ==
    /\ pc = "actors"
    /\ a \in pending
    /\ \/ ~ValidActor(file, a) /\ Reject
       \/ /\ ValidActor(file, a)
          /\ pending' = pending \ {a}
          /\ UNCHANGED <<file, pc, users, next, ruleKeys, repositoryIds, ownerScopes>>

\* One iteration of validate_actors: the map yields its entries in any order.
ValidateActor(a) ==
    LET user == file.actors[a].user
        valid == ValidActor(file, a) /\ user \notin users
    IN  /\ pc = "actors"
        /\ a \in pending
        /\ \/ ~valid /\ Reject
           \/ /\ valid
              /\ pending' = pending \ {a}
              /\ users' = users \union {user}
              /\ UNCHANGED <<file, pc, next, ruleKeys, repositoryIds, ownerScopes>>

ActorsValid ==
    /\ pc = "actors"
    /\ pending = {}
    /\ pc' = "rules"
    /\ UNCHANGED <<file, pending, users, next, ruleKeys, repositoryIds, ownerScopes>>

\* One iteration of the loop of validate_v5.
ValidateRuleV5 ==
    /\ pc = "rules" /\ file.version = V5
    /\ next <= Len(file.repositories)
    /\ LET rule == file.repositories[next]
           valid == ValidRuleV5(rule) /\ RuleKey(rule) \notin ruleKeys
       IN  \/ ~valid /\ Reject
           \/ /\ valid
              /\ ruleKeys' = ruleKeys \union {RuleKey(rule)}
              /\ next' = next + 1
              /\ UNCHANGED <<file, pc, pending, users, repositoryIds, ownerScopes>>

\* Faulty: an owner-wide rule is only compared with owner-wide rules.
AmbiguousSameKind(rule) ==
    IF rule.repository = Any
    THEN rule.owner \in ownerScopes
    ELSE rule.owner \in ownerScopes \/ <<rule.owner, rule.repository>> \in repositoryIds

\* Faulty: an exact rule is only compared with exact rules.
AmbiguousExactOnly(rule) ==
    IF rule.repository = Any
    THEN rule.owner \in ownerScopes \/ \E id \in repositoryIds : id[1] = rule.owner
    ELSE <<rule.owner, rule.repository>> \in repositoryIds

\* The test of validate_v6 against the rules before this one.
Ambiguous(rule) ==
    IF rule.repository = Any
    THEN rule.owner \in ownerScopes \/ \E id \in repositoryIds : id[1] = rule.owner
    ELSE rule.owner \in ownerScopes \/ <<rule.owner, rule.repository>> \in repositoryIds

\* One iteration of the loop of validate_v6.
ValidateRuleV6 ==
    /\ pc = "rules" /\ file.version = V6
    /\ next <= Len(file.repositories)
    /\ LET rule == file.repositories[next]
           valid == ValidRuleV6(rule) /\ ~Ambiguous(rule)
       IN  \/ ~valid /\ Reject
           \/ /\ valid
              /\ IF rule.repository = Any
                 THEN /\ ownerScopes' = ownerScopes \union {rule.owner}
                      /\ UNCHANGED repositoryIds
                 ELSE /\ repositoryIds' = repositoryIds \union {<<rule.owner, rule.repository>>}
                      /\ UNCHANGED ownerScopes
              /\ next' = next + 1
              /\ UNCHANGED <<file, pc, pending, users, ruleKeys>>

\* validate returns Ok.
Accept ==
    /\ pc = "rules"
    /\ next > Len(file.repositories)
    /\ pc' = "accepted"
    /\ UNCHANGED <<file, pending, users, next, ruleKeys, repositoryIds, ownerScopes>>

Next ==
    \/ ValidateHeader
    \/ \E a \in Id : ValidateActor(a)
    \/ ActorsValid
    \/ ValidateRuleV5
    \/ ValidateRuleV6
    \/ Accept

Spec == Init /\ [][Next]_vars

-----------------------------------------------------------------------------
\* Policy::authorize.

\* selector_matches: an absent selector matches nothing.
SelectorMatches(values, wanted) ==
    values # None /\ \E i \in DOMAIN values : values[i] = wanted

\* optional_selector_matches: an absent selector matches everything.
OptionalSelectorMatches(values, wanted) ==
    values # None => \E i \in DOMAIN values : values[i] = wanted

MatchesV5(rule, c) ==
    /\ rule.owner = c.owner
    /\ rule.repository = c.repository
    /\ \A s \in V5Selectors : SelectorMatches(rule.select[s], c.value[s])

MatchesV6(rule, c) ==
    /\ rule.owner = c.owner
    /\ rule.repository = Any \/ rule.repository = c.repository
    /\ \A s \in Selectors : OptionalSelectorMatches(rule.select[s], c.value[s])

MatchingRules(p, c) ==
    {i \in DOMAIN p.repositories :
        IF p.version = V5 THEN MatchesV5(p.repositories[i], c)
                          ELSE MatchesV6(p.repositories[i], c)}

KnownActor(p, c) == c.actor \in Actors(p) /\ p.actors[c.actor].verified

\* Both versions take the first match and refuse when there is a second.
Authorized(p, c) ==
    /\ \E i \in MatchingRules(p, c) : MatchingRules(p, c) = {i}
    /\ \/ p.version = V5 /\ KnownActor(p, c)
       \/ p.version = V6 /\ c.actor \in NumericId /\ (p.actors = None \/ KnownActor(p, c))

\* The part of Identity that the policy, and not the assertion, decides.
UserOf(p, c) == IF p.actors = None THEN None ELSE p.actors[c.actor].user

-----------------------------------------------------------------------------
\* Properties.

\* The state of validate is well formed: the loop variables stay in range of
\* the file they walk over.
TypeOK ==
    /\ file \in Policy
    /\ pc \in {"header", "actors", "rules", "rejected", "accepted"}
    /\ pending \subseteq Id
    /\ users \subseteq CanonicalUser
    /\ next \in 1 .. Len(file.repositories) + 1
    /\ ownerScopes \subseteq NumericId
    /\ repositoryIds \subseteq NumericId \X NumericId

\* Two rules that some repository falls under both of.
ScopesOverlap(r, q) ==
    r.owner = q.owner /\ (r.repository = Any \/ q.repository = Any \/ r.repository = q.repository)

Conflict(p, i, j) ==
    LET r == p.repositories[i]
        q == p.repositories[j]
    IN  IF p.version = V5 THEN RuleKey(r) = RuleKey(q) ELSE ScopesOverlap(r, q)

ValidRule(p, i) ==
    IF p.version = V5 THEN ValidRuleV5(p.repositories[i]) ELSE ValidRuleV6(p.repositories[i])

\* What a valid policy is, without regard to the order of anything.
SoundActors(p) ==
    /\ \A a \in Actors(p) : ValidActor(p, a)
    /\ \A a, b \in Actors(p) : p.actors[a].user = p.actors[b].user => a = b

SoundRules(p) ==
    /\ \A i \in DOMAIN p.repositories : ValidRule(p, i)
    /\ \A i, j \in DOMAIN p.repositories : i # j => ~Conflict(p, i, j)

Sound(p) == Header(p) /\ SoundActors(p) /\ SoundRules(p)

\* Policy::validate decides by the contents of the file alone: the hash order
\* of the actor map and the order of the rules never change the verdict, so
\* that replicas which read one ConfigMap agree on it.
VerdictIsOrderFree ==
    /\ pc = "rejected" => ~Sound(file)
    /\ pc = "accepted" => Sound(file)

\* Once validate_v6 has accepted a policy, no claims are admitted by two of its
\* rules: the refusal of a second match in authorize_v6 never strikes, and
\* "owner-wide and exact rules cannot overlap for one owner" in whatever order
\* they are written.
OneRulePerClaims ==
    pc = "accepted" /\ file.version = V6 =>
        \A c \in Claims : \A i, j \in MatchingRules(file, c) : i = j

\* Two GitHub actors are never issued the canonical-user group of one user,
\* and under v5 nobody is issued an identity without one.
UsersAreNotShared ==
    pc = "accepted" =>
        \A c, d \in Claims :
            Authorized(file, c) /\ Authorized(file, d) =>
                /\ file.version = V5 => UserOf(file, c) # None
                /\ UserOf(file, c) = UserOf(file, d) /\ UserOf(file, c) # None => c.actor = d.actor
=============================================================================
