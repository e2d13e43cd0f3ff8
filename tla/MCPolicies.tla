---------------------------- MODULE MCPolicies ----------------------------
(***************************************************************************)
(* Policy files for TLC: for each of the three policies a family of files  *)
(* with every kind of defect, mounted next to files of the other two that  *)
(* are in order, and some combinations where several are not.              *)
(***************************************************************************)
EXTENDS Policies

CONSTANTS MaxRules

-----------------------------------------------------------------------------
\* The GitHub policy.

\* Strings: "7" and "8" are canonical identifiers, "07" has only digits.
Ids == {"7", "8", "07", "*"}
Shapes == [s \in Selectors |-> {"a", "b"}]
MailDomains == [e \in {"x@corp", "y@corp", "x@home", "X@corp"} |->
                    IF e = "x@home" THEN "home" ELSE "corp"]

\* A selector that is absent, exact, a reordered pair or defective.
Exact(s, values) ==
    [t \in Selectors |-> IF t = s THEN values ELSE IF t \in V5Selectors THEN <<"a">> ELSE None]
Optional(s, values) == [t \in Selectors |-> IF t = s THEN values ELSE None]

SelectV5 == {Exact("refs", v) : v \in {<<"a">>, <<"a", "b">>, <<"b", "a">>, <<"a", "a">>, None}}
                \union {Exact("job_workflow_refs", <<"a">>), Exact("subjects", <<"c">>)}
SelectV6 == {Optional("refs", v) : v \in {None, <<"a">>, <<"">>}}
                \union {Optional("job_workflow_shas", <<"c">>)}

Rules(owners, repositories, select) ==
    [owner : owners, repository : repositories, select : select]

RulesV5 == Rules({"07"}, {"8"}, SelectV5) \union Rules({"7"}, {"*"}, {Exact("refs", <<"a">>)})
RulesV6 == Rules({"7", "8"}, {"7", "8", "*"}, {Optional("refs", None)})
               \union Rules({"7"}, {"8", "*"}, SelectV6)
               \union Rules({"07"}, {"8"}, {Optional("refs", None)})

RuleLists(rules) == UNION {[1 .. n -> rules] : n \in 0 .. MaxRules}

\* Actors: good ones, and one with each defect.
GoodActors == {[email |-> "x@corp", user |-> u, verified |-> TRUE] : u \in {"u1", "u2"}}
DefectiveActors ==
    {[email |-> "x@corp", user |-> "u3", verified |-> FALSE],
     [email |-> "X@corp", user |-> "u3", verified |-> TRUE],
     [email |-> "x@home", user |-> "u3", verified |-> TRUE],
     [email |-> "x@corp", user |-> "bad", verified |-> TRUE]}
Users == {"u1", "u2", "u3", "bad"}

ActorMap(keys, actor) == [a \in Ids |-> IF a \in keys THEN actor[a] ELSE None]

ActorMaps ==
    {ActorMap({"7", "8"}, m) : m \in [{"7", "8"} -> GoodActors]}
    \union {ActorMap({"7", "8"}, m) : m \in [{"7", "8"} -> {CHOOSE g \in GoodActors : TRUE} \union DefectiveActors]}
    \union {ActorMap({"07"}, m) : m \in [{"07"} -> GoodActors]}
    \union {ActorMap({}, <<>>)}

GitHubFile(version, serviceGroup, prefix, domains, repositories, actors) ==
    [version |-> version, serviceGroup |-> serviceGroup, prefix |-> prefix,
     domains |-> domains, repositories |-> repositories, actors |-> actors]

OneRule(version) ==
    << IF version = V6 THEN CHOOSE r \in RulesV6 : ValidRuleV6(r)
                       ELSE CHOOSE r \in RulesV5 : ValidRuleV5(r) >>

Team == ActorMap({"7"}, [a \in {"7"} |-> [email |-> "x@corp", user |-> "u1", verified |-> TRUE]])

\* All lists of rules with one good header, all headers with one good rule.
RuleFiles ==
    {GitHubFile(V5, "steward", "steward", <<"corp">>, l, Team) : l \in RuleLists(RulesV5)}
    \union {GitHubFile(V6, "steward", None, None, l, None) : l \in RuleLists(RulesV6)}

HeaderFiles ==
    {GitHubFile(v, g, x, d, OneRule(v), m) :
        v \in {V5, V6, "other"}, g \in {"steward", "other"}, x \in {"steward", "other", None},
        d \in {<<"corp">>, <<"corp", "corp">>, <<"Corp">>, None}, m \in ActorMaps \union {None}}

GitHubFiles == RuleFiles \union HeaderFiles

AllClaims ==
    {[owner |-> o, repository |-> r, actor |-> a, value |-> [s \in Selectors |-> v]] :
        o \in {"7", "07"}, r \in {"7", "8"}, a \in {"7", "8"}, v \in {"a", "b"}}

-----------------------------------------------------------------------------
\* The policy of the generic OIDC exchange.

NamesOfClaims == {"sub", "ref", "env", "aud"}

ClaimsOf(sub, ref, env) == [sub |-> sub, ref |-> ref, env |-> env, aud |-> NoClaim]

\* Bindings that share some names and not others, and one with each defect.
GoodBindings == {[claims |-> ClaimsOf(s, r, e), task |-> "build"] :
            s \in {"a", "b"}, r \in {"a", "b", NoClaim}, e \in {"a", NoClaim}}
Narrow == [claims |-> ClaimsOf("a", "b", NoClaim), task |-> "deploy"]
DefectiveBindings ==
    {[claims |-> ClaimsOf(NoClaim, "a", NoClaim), task |-> "build"],
     [claims |-> ClaimsOf("", NoClaim, NoClaim), task |-> "build"],
     [claims |-> ClaimsOf("a", NoClaim, ""), task |-> "build"],
     [claims |-> ClaimsOf(NoClaim, NoClaim, NoClaim), task |-> "build"],
     [claims |-> [ClaimsOf("a", NoClaim, NoClaim) EXCEPT !.aud = "a"], task |-> "build"],
     [claims |-> ClaimsOf("a", NoClaim, NoClaim), task |-> "bad"]}

BindingLists(from) == UNION {[1 .. n -> from] : n \in 0 .. MaxRules}

Provider(issuer, audience, list) == [issuer |-> issuer, audience |-> audience, bindings |-> list]

\* Four bindings no claims match two of.
Four == [n \in 1 .. 4 |-> [claims |-> ClaimsOf(IF n < 3 THEN "a" ELSE "b", IF n % 2 = 0 THEN "a" ELSE "b", NoClaim),
                          task |-> "build"]]

Simple == <<[claims |-> ClaimsOf("a", NoClaim, NoClaim), task |-> "build"]>>

Providers ==
    {Provider(i, a, l) : i \in {"x", "y", "http"}, a \in {"us", ""},
                         l \in {<<>>, Simple, <<Narrow, Narrow>>}}

OidcFile(version, providers) == [version |-> version, providers |-> providers]

OidcFiles ==
    {OidcFile("v1", <<Provider("x", "us", l)>>) : l \in BindingLists(GoodBindings \union {Narrow} \union DefectiveBindings)}
    \union {OidcFile(v, l) : v \in {"v1", "other"}, l \in UNION {[1 .. n -> Providers] : n \in 0 .. 2}}
    \union {OidcFile("v1", <<Provider("x", "us", Simple), Provider("y", "us", Simple),
                         Provider("z", "us", Simple)>>),
            OidcFile("v1", <<Provider("x", "us", Four)>>)}

-----------------------------------------------------------------------------
\* The policy of the workload exchange.

Account(segments) == [prefix |-> "system:serviceaccount:", segments |-> segments]
SubjectName(segments) == [prefix |-> "kubernetes:serviceaccount:", segments |-> segments]

Identity(username, subject, roles, task) ==
    [username |-> username, subject |-> subject, roles |-> roles, task |-> task]

GoodIdentities ==
    UNION {{Identity(Account(s), SubjectName(s), <<"x">>, NoTask),
            Identity(Account(s), SubjectName(s), <<"y", "x">>, "job")} :
        s \in {<<"a", "b">>, <<"b", "a">>, <<"a", "a">>}}

OddIdentities ==
    {Identity(Account(s), SubjectName(s), <<"x">>, NoTask) :
        s \in {<<"a">>, <<"a", "b", "a">>, <<"", "b">>, <<"a", "*">>}}
    \union {Identity(Account(<<"a", "b">>), SubjectName(<<"a", "b">>), r, t) :
        r \in {<<>>, <<"x", "x">>, <<"*">>}, t \in {NoTask, "job", "bad"}}
    \union {Identity(Account(<<"a", "b">>), SubjectName(<<"a", "a">>), <<"x">>, NoTask),
            Identity(Account(<<"a", "a">>), Account(<<"a", "a">>), <<"x">>, NoTask),
            Identity(SubjectName(<<"a", "b">>), SubjectName(<<"a", "b">>), <<"x">>, NoTask),
            Identity([prefix |-> "", segments |-> <<"a", "b">>], SubjectName(<<"a", "b">>), <<"x">>, NoTask)}

WorkloadFiles ==
    {[version |-> "v1", identities |-> l] : l \in UNION {[1 .. n -> GoodIdentities \union OddIdentities] : n \in 0 .. MaxRules}}
    \union {[version |-> "other", identities |-> <<i>>] : i \in GoodIdentities}

-----------------------------------------------------------------------------
\* What is mounted.

Team5 == GitHubFile(V5, "steward", "steward", <<"corp">>, OneRule(V5), Team)
OneProvider == OidcFile("v1", <<Provider("x", "us", Simple)>>)
OneAccount == [version |-> "v1", identities |-> <<CHOOSE i \in GoodIdentities : TRUE>>]

\* One file of each kind that is in order, and one that is not.
SomeGitHub == {Team5, [Team5 EXCEPT !.repositories = <<>>]}
SomeOidc == {OneProvider, [OneProvider EXCEPT !.version = "other"]}
SomeWorkload == {OneAccount, [OneAccount EXCEPT !.version = "other"]}

\* One family is varied while the others are in order; then all at once.
Mounts ==
    UNION {
        {[github |-> f, oidc |-> OneProvider, workload |-> OneAccount,
          expected |-> IF f.version = V5 THEN V5 ELSE V6, enabled |-> {}] : f \in GitHubFiles},
        [github : {Team5}, oidc : OidcFiles, workload : {OneAccount}, expected : {V5}, enabled : {{"oidc"}}],
        [github : {Team5}, oidc : {OneProvider}, workload : WorkloadFiles, expected : {V5}, enabled : {{"workload"}}],
        [github : SomeGitHub, oidc : SomeOidc, workload : SomeWorkload, expected : {V5, V6}, enabled : SUBSET Exchange]}
=============================================================================
