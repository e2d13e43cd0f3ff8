--------------------------- MODULE ProcessProofs ---------------------------
(***************************************************************************)
(* Proofs about one process: about what it has loaded when it serves and   *)
(* what it answers before it exits, for every environment, and about what  *)
(* it answers at /readyz, for every number of probes and every timing.     *)
(***************************************************************************)
EXTENDS Lifecycle, Readiness, SequenceTheorems, TLAPS

-----------------------------------------------------------------------------
(* Why nothing is served by halves.                                         *)

Stage ==
    {"configuration", "github_policy", "policy_contract", "es256_ring", "ledger", "verifier",
     "warm_up", "oidc_policy", "additional_ca", "oidc_verifier", "rsa_ring", "disjoint_rings",
     "token_reviewer", "workload_policy", "workload_tls", "public_listener", "steward_jwks",
     "subscribe", "spawn", "serve"}

\* The stages still to come.
ToDo == {todo[i] : i \in 1 .. Len(todo)}

\* Nothing is left out of the stages of a valid configuration, and no stage
\* is passed with an invalid one.
StagesCoverNeeds ==
    /\ "configuration" \in ToDo \/ ValidConfig(env)
    /\ ValidConfig(env) => Needs(env) \subseteq loaded \cup ToDo

\* Serving is the last stage, and the listeners are off until then.
ServingIsLast ==
    /\ todo \in Seq(Stage)
    /\ \A i \in 1 .. Len(todo) : todo[i] = "serve" => i = Len(todo)
    /\ \A l \in Listener : server[l] # "off" => todo = <<>>
    /\ ~On(env.workload) => server["workload"] = "off"

\* The inductive invariant behind ServesComplete and NoAnswerIsLost.
IndInv == TypeOK /\ StagesCoverNeeds /\ ServingIsLast

-----------------------------------------------------------------------------
(* Why the answers are recent.                                              *)

\* The holder of the mutex knows how long ago the API server answered it, and
\* a good verdict was that of a call of READINESS_TIMEOUT at most.
VerdictsAreRecent ==
    /\ \A p \in Probe : probe[p].pc = "response" => heard <= probe[p].wait
    /\ cache.ready /\ cache.age < Ttl => heard <= cache.age + Timeout

\* Not everything was in order a READINESS_TIMEOUT before a bad verdict was
\* stored.
FailuresAreRecent ==
    /\ api # "up" => healthy = 0
    /\ ~cache.ready /\ cache.age < Ttl => healthy <= cache.age + Timeout

\* A lost call is older than the recovery, and one that comes to its deadline
\* without being lost was left waiting by an API server that was not up.
CallsAreDue ==
    \A p \in Probe :
        /\ probe[p].pc = "lock" => probe[p].wait = 0
        /\ probe[p].pc = "lost" => healthy <= probe[p].wait
        /\ probe[p].pc \in {"get", "response"} /\ probe[p].wait = Timeout => healthy = 0

\* The inductive invariant behind ReadyIsRecent and RecoversInTime.
ReadinessIndInv ==
    ReadinessTypeOK /\ VerdictsAreRecent /\ FailuresAreRecent /\ CallsAreDue

-----------------------------------------------------------------------------
(* The stages of main.                                                      *)

Elements(s) == {s[i] : i \in 1 .. Len(s)}

\* The elements of a concatenation are those of its parts.
LEMMA ConcatElements ==
    ASSUME NEW s \in Seq(Stage), NEW t \in Seq(Stage)
    PROVE  /\ s \o t \in Seq(Stage)
           /\ Elements(s \o t) = Elements(s) \cup Elements(t)
<1>1. /\ s \o t \in Seq(Stage) /\ Len(s \o t) = Len(s) + Len(t)
      /\ \A i \in 1 .. Len(s) + Len(t) : (s \o t)[i] = IF i <= Len(s) THEN s[i] ELSE t[i - Len(s)]
  BY ConcatProperties
<1>2. Len(s) \in Nat /\ Len(t) \in Nat
  BY LenProperties
<1>3. ASSUME NEW x \in Elements(s \o t) PROVE x \in Elements(s) \cup Elements(t)
  <2>1. PICK i \in 1 .. Len(s) + Len(t) : x = (s \o t)[i]
    BY <1>1, <1>3 DEF Elements
  <2>2. CASE i <= Len(s)
    BY <1>1, <1>2, <2>1, <2>2 DEF Elements
  <2>3. CASE i > Len(s)
    <3>1. i - Len(s) \in 1 .. Len(t) /\ x = t[i - Len(s)]
      BY <1>1, <1>2, <2>1, <2>3
    <3> QED
      BY <3>1 DEF Elements
  <2> QED
    BY <1>2, <2>2, <2>3
<1>4. ASSUME NEW x \in Elements(s) PROVE x \in Elements(s \o t)
  <2>1. PICK i \in 1 .. Len(s) : x = s[i]
    BY <1>4 DEF Elements
  <2>2. i \in 1 .. Len(s) + Len(t) /\ (s \o t)[i] = x
    BY <1>1, <1>2, <2>1
  <2> QED
    BY <1>1, <2>2 DEF Elements
<1>5. ASSUME NEW x \in Elements(t) PROVE x \in Elements(s \o t)
  <2>1. PICK i \in 1 .. Len(t) : x = t[i]
    BY <1>5 DEF Elements
  <2>2. i + Len(s) \in 1 .. Len(s) + Len(t) /\ (s \o t)[i + Len(s)] = x
    BY <1>1, <1>2, <2>1
  <2> QED
    BY <1>1, <2>2 DEF Elements
<1> QED
  BY <1>1, <1>3, <1>4, <1>5

ServesLast(s) == \A i \in 1 .. Len(s) : s[i] = "serve" => i = Len(s)

\* Stages that serve last still do after others that do not serve.
LEMMA LastOfConcat ==
    ASSUME NEW s \in Seq(Stage), NEW t \in Seq(Stage), "serve" \notin Elements(s), ServesLast(t)
    PROVE  ServesLast(s \o t)
<1>1. /\ Len(s \o t) = Len(s) + Len(t)
      /\ \A i \in 1 .. Len(s) + Len(t) : (s \o t)[i] = IF i <= Len(s) THEN s[i] ELSE t[i - Len(s)]
  BY ConcatProperties
<1>2. Len(s) \in Nat /\ Len(t) \in Nat
  BY LenProperties
<1> SUFFICES ASSUME NEW i \in 1 .. Len(s) + Len(t), (s \o t)[i] = "serve"
             PROVE  i = Len(s) + Len(t)
  BY <1>1 DEF ServesLast
<1>3. ASSUME i <= Len(s) PROVE FALSE
  <2>1. i \in 1 .. Len(s) /\ s[i] = "serve"
    BY <1>1, <1>2, <1>3
  <2> QED
    BY <2>1 DEF Elements
<1>4. i - Len(s) \in 1 .. Len(t) /\ t[i - Len(s)] = "serve"
  BY <1>1, <1>2, <1>3
<1>5. i - Len(s) = Len(t)
  BY <1>4 DEF ServesLast
<1> QED
  BY <1>2, <1>5

\* The elements of short sequences.
LEMMA ShortSequences ==
    /\ <<>> \in Seq(Stage) /\ Elements(<<>>) = {}
    /\ \A x \in Stage : <<x>> \in Seq(Stage) /\ Elements(<<x>>) = {x}
<1>1. <<>> \in Seq(Stage) /\ Elements(<<>>) = {}
  BY DEF Elements
<1>2. ASSUME NEW x \in Stage PROVE <<x>> \in Seq(Stage) /\ Elements(<<x>>) = {x}
  <2>1. <<x>> \in Seq(Stage) /\ Len(<<x>>) = 1 /\ <<x>>[1] = x
    OBVIOUS
  <2>2. 1 .. 1 = {1}
    OBVIOUS
  <2> QED
    BY <2>1, <2>2 DEF Elements
<1> QED
  BY <1>1, <1>2

\* The stages every process goes through, and those of the workload exchange.
LEMMA FixedStages ==
    /\ Core \in Seq(Stage) /\ WorkloadStages \in Seq(Stage)
    /\ Elements(Core) = {"configuration", "github_policy", "policy_contract", "es256_ring", "ledger",
                         "verifier", "warm_up"}
    /\ Elements(WorkloadStages) =
          {"rsa_ring", "disjoint_rings", "token_reviewer", "workload_policy", "workload_tls"}
<1>1. Core \in Seq(Stage)
  BY DEF Core, Stage
<1>2. WorkloadStages \in Seq(Stage)
  BY DEF WorkloadStages, Stage
<1>3. Len(Core) = 7 /\ Len(WorkloadStages) = 5
  BY DEF Core, WorkloadStages
<1>4. Elements(Core) = {"configuration", "github_policy", "policy_contract", "es256_ring", "ledger",
                        "verifier", "warm_up"}
  BY <1>3 DEF Core, Elements
<1>5. Elements(WorkloadStages) =
          {"rsa_ring", "disjoint_rings", "token_reviewer", "workload_policy", "workload_tls"}
  BY <1>3 DEF WorkloadStages, Elements
<1> QED
  BY <1>1, <1>2, <1>4, <1>5

\* The stages a listener is served with.
LEMMA ServingStages ==
    /\ <<"subscribe", "spawn", "serve">> \in Seq(Stage) /\ <<"public_listener", "serve">> \in Seq(Stage)
    /\ Elements(<<"subscribe", "spawn", "serve">>) = {"subscribe", "spawn", "serve"}
    /\ Elements(<<"public_listener", "serve">>) = {"public_listener", "serve"}
    /\ ServesLast(<<"subscribe", "spawn", "serve">>) /\ ServesLast(<<"public_listener", "serve">>)
<1> DEFINE three == <<"subscribe", "spawn", "serve">>
           two == <<"public_listener", "serve">>
<1>1. /\ three \in Seq(Stage) /\ Len(three) = 3
      /\ three[1] = "subscribe" /\ three[2] = "spawn" /\ three[3] = "serve"
  BY DEF Stage
<1>2. /\ two \in Seq(Stage) /\ Len(two) = 2
      /\ two[1] = "public_listener" /\ two[2] = "serve"
  BY DEF Stage
<1>3. 1 .. 3 = {1, 2, 3} /\ 1 .. 2 = {1, 2}
  OBVIOUS
<1> HIDE DEF three, two
<1>4. Elements(three) = {"subscribe", "spawn", "serve"} /\ ServesLast(three)
  BY <1>1, <1>3 DEF Elements, ServesLast
<1>5. Elements(two) = {"public_listener", "serve"} /\ ServesLast(two)
  BY <1>2, <1>3 DEF Elements, ServesLast
<1> QED
  BY <1>1, <1>2, <1>4, <1>5 DEF three, two

\* What the generic OIDC exchange adds.
LEMMA OidcStagesElements ==
    ASSUME NEW e
    PROVE  /\ OidcStages(e) \in Seq(Stage)
           /\ Elements(OidcStages(e)) =
                (IF On(e.oidc) THEN {"oidc_policy", "oidc_verifier"} ELSE {})
                \cup (IF On(e.oidc) /\ e.ca THEN {"additional_ca"} ELSE {})
<1> DEFINE ca == IF e.ca THEN <<"additional_ca">> ELSE <<>>
<1>1. {"oidc_policy", "additional_ca", "oidc_verifier"} \subseteq Stage
  BY DEF Stage
<1>2. ca \in Seq(Stage) /\ Elements(ca) = IF e.ca THEN {"additional_ca"} ELSE {}
  BY <1>1, ShortSequences
<1> HIDE DEF ca
<1>3. /\ <<"oidc_policy">> \o ca \in Seq(Stage)
      /\ Elements(<<"oidc_policy">> \o ca) = {"oidc_policy"} \cup Elements(ca)
  <2>1. <<"oidc_policy">> \in Seq(Stage) /\ Elements(<<"oidc_policy">>) = {"oidc_policy"}
    BY <1>1, ShortSequences
  <2> QED
    BY <1>2, <2>1, ConcatElements
<1>4. /\ (<<"oidc_policy">> \o ca) \o <<"oidc_verifier">> \in Seq(Stage)
      /\ Elements((<<"oidc_policy">> \o ca) \o <<"oidc_verifier">>) =
            {"oidc_policy", "oidc_verifier"} \cup Elements(ca)
  <2>1. <<"oidc_verifier">> \in Seq(Stage) /\ Elements(<<"oidc_verifier">>) = {"oidc_verifier"}
    BY <1>1, ShortSequences
  <2>2. /\ (<<"oidc_policy">> \o ca) \o <<"oidc_verifier">> \in Seq(Stage)
        /\ Elements((<<"oidc_policy">> \o ca) \o <<"oidc_verifier">>) =
              Elements(<<"oidc_policy">> \o ca) \cup Elements(<<"oidc_verifier">>)
    BY <1>3, <2>1, ConcatElements
  <2> QED
    BY <1>3, <2>1, <2>2
<1>5. CASE On(e.oidc)
  <2>1. OidcStages(e) = (<<"oidc_policy">> \o ca) \o <<"oidc_verifier">>
    BY <1>5 DEF OidcStages, ca
  <2> QED
    BY <1>2, <1>4, <1>5, <2>1
<1>6. CASE ~On(e.oidc)
  <2>1. OidcStages(e) = <<>>
    BY <1>6 DEF OidcStages
  <2> QED
    BY <1>6, <2>1, ShortSequences
<1> QED
  BY <1>5, <1>6

\* main begins with the configuration, goes through everything the enabled
\* exchanges of a valid one need, and serves last.
LEMMA StagesAreComplete ==
    ASSUME NEW e
    PROVE  /\ Stages(e) \in Seq(Stage)
           /\ "configuration" \in Elements(Stages(e))
           /\ ValidConfig(e) => Needs(e) \subseteq Elements(Stages(e))
           /\ ServesLast(Stages(e))
<1> DEFINE browser == IF On(e.browser) THEN <<"steward_jwks">> ELSE <<>>
           loading == WorkloadStages \o <<"public_listener">>
           keyed == loading \o browser
           serving == IF On(e.workload) THEN keyed \o <<"subscribe", "spawn", "serve">>
                      ELSE <<"public_listener", "serve">>
           first == Core \o OidcStages(e)
<1>1. {"public_listener", "steward_jwks"} \subseteq Stage
  BY DEF Stage
<1>2. browser \in Seq(Stage) /\ Elements(browser) = IF On(e.browser) THEN {"steward_jwks"} ELSE {}
  BY <1>1, ShortSequences
<1>3. /\ loading \in Seq(Stage)
      /\ Elements(loading) = {"rsa_ring", "disjoint_rings", "token_reviewer", "workload_policy",
                              "workload_tls", "public_listener"}
  <2>1. /\ <<"public_listener">> \in Seq(Stage)
        /\ Elements(<<"public_listener">>) = {"public_listener"}
    BY <1>1, ShortSequences
  <2>2. /\ loading \in Seq(Stage)
        /\ Elements(loading) = Elements(WorkloadStages) \cup Elements(<<"public_listener">>)
    BY <2>1, FixedStages, ConcatElements
  <2> QED
    BY <2>1, <2>2, FixedStages
<1> HIDE DEF browser, loading
<1>4. keyed \in Seq(Stage) /\ Elements(keyed) = Elements(loading) \cup Elements(browser)
  BY <1>2, <1>3, ConcatElements
<1>5. "serve" \notin Elements(keyed)
  BY <1>2, <1>3, <1>4
<1> HIDE DEF keyed
<1>6. /\ serving \in Seq(Stage) /\ ServesLast(serving)
      /\ On(e.workload) => Elements(keyed) \subseteq Elements(serving)
  <2>1. CASE On(e.workload)
    <3> DEFINE ending == <<"subscribe", "spawn", "serve">>
    <3>1. ending \in Seq(Stage) /\ ServesLast(ending)
      BY ServingStages
    <3>2. serving = keyed \o ending
      BY <2>1
    <3> HIDE DEF ending, serving
    <3>3. serving \in Seq(Stage) /\ Elements(serving) = Elements(keyed) \cup Elements(ending)
      BY <1>4, <3>1, <3>2, ConcatElements
    <3>4. ServesLast(serving)
      BY <1>4, <1>5, <3>1, <3>2, LastOfConcat
    <3> QED
      BY <3>3, <3>4
  <2>2. CASE ~On(e.workload)
    BY <2>2, ServingStages
  <2> QED
    BY <2>1, <2>2
<1> HIDE DEF serving
<1>7. first \in Seq(Stage) /\ Elements(first) = Elements(Core) \cup Elements(OidcStages(e))
  BY FixedStages, OidcStagesElements, ConcatElements
<1>8. "serve" \notin Elements(first)
  <2>1. "serve" \notin Elements(Core)
    BY FixedStages
  <2>2. Elements(OidcStages(e)) \subseteq {"oidc_policy", "additional_ca", "oidc_verifier"}
    BY OidcStagesElements
  <2> QED
    BY <1>7, <2>1, <2>2
<1> HIDE DEF first
<1>9. Stages(e) = first \o serving
  BY DEF Stages, first, serving, keyed, loading, browser
<1>10. /\ Stages(e) \in Seq(Stage) /\ ServesLast(Stages(e))
       /\ Elements(Stages(e)) = Elements(first) \cup Elements(serving)
  BY <1>6, <1>7, <1>8, <1>9, ConcatElements, LastOfConcat
<1>11. "configuration" \in Elements(Stages(e))
  BY <1>7, <1>10, FixedStages
<1>12. ASSUME ValidConfig(e) PROVE Needs(e) \subseteq Elements(Stages(e))
  <2>1. On(e.browser) => On(e.workload)
    BY <1>12 DEF ValidConfig, ValidBrowser
  <2>2. {"github_policy", "policy_contract", "es256_ring", "ledger", "warm_up"}
           \subseteq Elements(Stages(e))
    BY <1>7, <1>10, FixedStages
  <2>3. Elements(OidcStages(e)) \subseteq Elements(Stages(e))
    BY <1>7, <1>10
  <2>4. On(e.workload) =>
           {"rsa_ring", "disjoint_rings", "workload_policy", "workload_tls"} \subseteq Elements(Stages(e))
    BY <1>3, <1>4, <1>6, <1>10
  <2>5. On(e.browser) => {"steward_jwks"} \subseteq Elements(Stages(e))
    BY <1>2, <1>4, <1>6, <1>10, <2>1
  <2> QED
    BY <2>2, <2>3, <2>4, <2>5, OidcStagesElements DEF Needs
<1> QED
  BY <1>10, <1>11, <1>12

\* A stage is taken from the front.
LEMMA NextStage ==
    ASSUME NEW s \in Seq(Stage), s # <<>>, ServesLast(s)
    PROVE  /\ Tail(s) \in Seq(Stage)
           /\ Elements(s) = {Head(s)} \cup Elements(Tail(s))
           /\ ServesLast(Tail(s))
           /\ Head(s) = "serve" => Tail(s) = <<>>
<1>1. /\ Head(s) \in Stage /\ Tail(s) \in Seq(Stage) /\ Len(Tail(s)) = Len(s) - 1
      /\ \A i \in 1 .. Len(Tail(s)) : Tail(s)[i] = s[i + 1]
  BY HeadTailProperties
<1>2. Len(s) \in Nat \ {0} /\ Head(s) = s[1]
  BY EmptySeq, LenProperties
<1>3. ASSUME NEW x \in Elements(s) PROVE x \in {Head(s)} \cup Elements(Tail(s))
  <2>1. PICK i \in 1 .. Len(s) : x = s[i]
    BY <1>3 DEF Elements
  <2>2. CASE i = 1
    BY <1>2, <2>1, <2>2
  <2>3. CASE i # 1
    <3>1. i - 1 \in 1 .. Len(Tail(s)) /\ Tail(s)[i - 1] = x
      BY <1>1, <1>2, <2>1, <2>3
    <3> QED
      BY <3>1 DEF Elements
  <2> QED
    BY <2>2, <2>3
<1>4. ASSUME NEW x \in Elements(Tail(s)) PROVE x \in Elements(s)
  <2>1. PICK i \in 1 .. Len(Tail(s)) : x = Tail(s)[i]
    BY <1>4 DEF Elements
  <2>2. i + 1 \in 1 .. Len(s) /\ s[i + 1] = x
    BY <1>1, <1>2, <2>1
  <2> QED
    BY <2>2 DEF Elements
<1>5. Head(s) \in Elements(s)
  BY <1>2 DEF Elements
<1>6. ServesLast(Tail(s))
  <2>1. ASSUME NEW i \in 1 .. Len(Tail(s)), Tail(s)[i] = "serve" PROVE i = Len(Tail(s))
    <3>1. i + 1 \in 1 .. Len(s) /\ s[i + 1] = "serve"
      BY <1>1, <1>2, <2>1
    <3>2. i + 1 = Len(s)
      BY <3>1 DEF ServesLast
    <3>3. i \in Int /\ Len(s) \in Int /\ Len(Tail(s)) = Len(s) - 1
      BY <1>1, <1>2
    <3> QED
      BY <3>2, <3>3
  <2> QED
    BY <2>1 DEF ServesLast
<1>7. Head(s) = "serve" => Tail(s) = <<>>
  <2>1. 1 \in 1 .. Len(s)
    BY <1>2
  <2>2. Head(s) = "serve" => 1 = Len(s)
    BY <1>2, <2>1 DEF ServesLast
  <2>3. Len(Tail(s)) = 0 => Tail(s) = <<>>
    BY <1>1, EmptySeq
  <2> QED
    BY <1>1, <1>2, <2>2, <2>3
<1> QED
  BY <1>1, <1>3, <1>4, <1>5, <1>6, <1>7

\* What is needed is loaded by a stage that can fail.
LEMMA NeedsCanFail ==
    ASSUME NEW e
    PROVE  \A x \in Infallible : x \notin Needs(e) /\ x # "configuration"
BY DEF Infallible, Needs

-----------------------------------------------------------------------------
(* The life of a process.                                                   *)

\* The stages to come, in the words of the lemmas above.
LEMMA ToDoIsElements ==
    ToDo = Elements(todo) /\ ToDo' = Elements(todo')
BY DEF ToDo, Elements

\* A process that has not begun, whatever its environment.
LEMMA FreshProcess ==
    ASSUME Init
    PROVE  IndInv
<1>1. TypeOK
  BY LifecycleAssumption DEF Init, TypeOK, Listener
<1>2. StagesCoverNeeds
  BY StagesAreComplete, ToDoIsElements DEF Init, StagesCoverNeeds
<1>3. ServingIsLast
  BY StagesAreComplete DEF Init, ServingIsLast, ServesLast, Listener
<1> QED
  BY <1>1, <1>2, <1>3 DEF IndInv

\* A stage is passed: the listeners are off, and what is needed is loaded, still
\* to come, or was not needed.
LEMMA StagePassed ==
    ASSUME IndInv, outcome = "running", todo # <<>>, todo' = Tail(todo), UNCHANGED env,
           loaded \subseteq loaded',
           Head(todo) \in Infallible \/ Head(todo) \in loaded',
           Head(todo) = "configuration" => ValidConfig(env)
    PROVE  /\ StagesCoverNeeds'
           /\ todo' \in Seq(Stage) /\ ServesLast(todo')
           /\ Head(todo) = "serve" => todo' = <<>>
           /\ \A l \in Listener : server[l] = "off" /\ requests[l] = 0
<1>1. todo \in Seq(Stage) /\ ServesLast(todo)
  BY DEF IndInv, ServingIsLast, ServesLast
<1>2. /\ todo' \in Seq(Stage) /\ ServesLast(todo') /\ (Head(todo) = "serve" => todo' = <<>>)
      /\ ToDo = {Head(todo)} \cup ToDo'
  BY <1>1, NextStage, ToDoIsElements
<1>3. \A l \in Listener : server[l] = "off" /\ requests[l] = 0
  <2> SUFFICES ASSUME NEW l \in Listener PROVE server[l] = "off" /\ requests[l] = 0
    OBVIOUS
  <2>1. server[l] = "off"
    BY DEF IndInv, ServingIsLast
  <2>2. requests[l] \in 0 .. MaxRequests /\ ~(requests[l] > 0)
    BY <2>1 DEF IndInv, TypeOK
  <2> QED
    BY <2>1, <2>2, LifecycleAssumption
<1>4. "configuration" \in ToDo' \/ ValidConfig(env)
  BY <1>2 DEF IndInv, StagesCoverNeeds
<1>5. ASSUME ValidConfig(env) PROVE Needs(env) \subseteq loaded' \cup ToDo'
  <2>1. Needs(env) \subseteq loaded \cup ToDo
    BY <1>5 DEF IndInv, StagesCoverNeeds
  <2>2. Head(todo) \in Infallible => Head(todo) \notin Needs(env)
    BY NeedsCanFail
  <2> QED
    BY <1>2, <2>1, <2>2
<1>6. ValidConfig(env)' = ValidConfig(env) /\ Needs(env)' = Needs(env)
  BY DEF ValidConfig, ValidWorkload, ValidBrowser, ValidOidc, Needs, On
<1> QED
  BY <1>2, <1>3, <1>4, <1>5, <1>6 DEF StagesCoverNeeds

\* A step of the listeners, the signal or the clock leaves the stages alone.
LEMMA StagesUntouched ==
    ASSUME IndInv, UNCHANGED <<env, todo, loaded>>
    PROVE  /\ StagesCoverNeeds'
           /\ (\A l \in Listener : server'[l] # "off" => server[l] # "off") => ServingIsLast'
<1>1. StagesCoverNeeds'
  BY DEF IndInv, StagesCoverNeeds, ToDo, ValidConfig, ValidWorkload, ValidBrowser, ValidOidc, Needs, On
<1>2. ASSUME \A l \in Listener : server'[l] # "off" => server[l] # "off" PROVE ServingIsLast'
  BY <1>2 DEF IndInv, ServingIsLast, Listener, On
<1> QED
  BY <1>1, <1>2

LEMMA LoadStep ==
    ASSUME IndInv, Load
    PROVE  IndInv'
<1>1. /\ StagesCoverNeeds' /\ todo' \in Seq(Stage) /\ ServesLast(todo')
      /\ \A l \in Listener : server[l] = "off" /\ requests[l] = 0
  BY StagePassed DEF Load
<1>2. TypeOK'
  BY DEF IndInv, TypeOK, Load
<1>3. ServingIsLast'
  BY <1>1 DEF IndInv, ServingIsLast, ServesLast, Load, Listener
<1> QED
  BY <1>1, <1>2, <1>3 DEF IndInv

LEMMA SubscribeStep ==
    ASSUME IndInv, Subscribe
    PROVE  IndInv'
<1>1. Head(todo) = "subscribe" /\ Head(todo) \in Infallible
  BY DEF Subscribe, AtStage, Infallible
<1>2. /\ StagesCoverNeeds' /\ todo' \in Seq(Stage) /\ ServesLast(todo')
      /\ \A l \in Listener : server[l] = "off" /\ requests[l] = 0
  BY <1>1, StagePassed DEF Subscribe, AtStage
<1>3. TypeOK'
  BY DEF IndInv, TypeOK, Subscribe
<1>4. ServingIsLast'
  BY <1>2 DEF IndInv, ServingIsLast, ServesLast, Subscribe, Listener
<1> QED
  BY <1>2, <1>3, <1>4 DEF IndInv

LEMMA SpawnStep ==
    ASSUME IndInv, Spawn
    PROVE  IndInv'
<1>1. Head(todo) = "spawn" /\ Head(todo) \in Infallible
  BY DEF Spawn, AtStage, Infallible
<1>2. /\ StagesCoverNeeds' /\ todo' \in Seq(Stage) /\ ServesLast(todo')
      /\ \A l \in Listener : server[l] = "off" /\ requests[l] = 0
  BY <1>1, StagePassed DEF Spawn, AtStage
<1>3. TypeOK'
  BY DEF IndInv, TypeOK, Spawn
<1>4. ServingIsLast'
  BY <1>2 DEF IndInv, ServingIsLast, ServesLast, Spawn, Listener
<1> QED
  BY <1>2, <1>3, <1>4 DEF IndInv

LEMMA ServeStep ==
    ASSUME IndInv, Serve
    PROVE  IndInv'
<1>1. Head(todo) = "serve" /\ Head(todo) \in Infallible
  BY DEF Serve, AtStage, Infallible
<1>2. /\ StagesCoverNeeds' /\ todo' \in Seq(Stage) /\ ServesLast(todo') /\ todo' = <<>>
      /\ \A l \in Listener : server[l] = "off" /\ requests[l] = 0
  BY <1>1, StagePassed DEF Serve, AtStage
<1>3. TypeOK'
  BY <1>2 DEF IndInv, TypeOK, Serve, Listener
<1>4. ~On(env.workload) => server'["workload"] = "off"
  BY <1>2 DEF IndInv, TypeOK, Serve, Listener
<1>5. ServingIsLast'
  BY <1>2, <1>4 DEF ServingIsLast, ServesLast, Serve, On
<1> QED
  BY <1>2, <1>3, <1>5 DEF IndInv

\* The steps that change neither a server nor the requests.
LEMMA SignalStep ==
    ASSUME IndInv,
           LoadFails \/ BindWorkloadFails \/ InstallHandlers \/ Signal \/ Send \/ Tick \/ Exit
    PROVE  IndInv'
<1>1. UNCHANGED <<env, todo, loaded, server, requests, reading>>
  BY DEF LoadFails, BindWorkloadFails, InstallHandlers, Signal, Send, Tick, Exit
<1>2. TypeOK'
  <2>1. receiver' \in [Listener -> {"none", "empty", "told"}]
    BY DEF IndInv, TypeOK, LoadFails, BindWorkloadFails, InstallHandlers, Signal, Send, Tick, Exit
  <2>2. grace' \in 0 .. Grace
    BY LifecycleAssumption
    DEF IndInv, TypeOK, LoadFails, BindWorkloadFails, InstallHandlers, Signal, Send, Tick, Exit
  <2>3. /\ outcome' \in {"running", "ok", "failed", "killed"}
        /\ signalTask' \in {"none", "spawned", "listening", "caught", "sent"}
    BY DEF IndInv, TypeOK, LoadFails, BindWorkloadFails, InstallHandlers, Signal, Send, Tick, Exit
  <2> QED
    BY <1>1, <2>1, <2>2, <2>3 DEF IndInv, TypeOK
<1>3. StagesCoverNeeds' /\ ServingIsLast'
  BY <1>1, StagesUntouched
<1> QED
  BY <1>2, <1>3 DEF IndInv

\* The steps of a listener.
LEMMA ListenerStep ==
    ASSUME IndInv, NEW l \in Listener,
           \/ Request(l) \/ BodyArrives(l) \/ ClientLeaves(l) \/ Answer(l)
           \/ Drain(l) \/ Drained(l)
    PROVE  IndInv'
<1>1. UNCHANGED <<env, todo, loaded, outcome, receiver, signalTask, grace>> /\ server[l] # "off"
  BY DEF Request, BodyArrives, ClientLeaves, Answer, Drain, Drained
<1>2. /\ server \in [Listener -> {"off", "binding", "serving", "draining", "done"}]
      /\ requests \in [Listener -> 0 .. MaxRequests] /\ reading \in [Listener -> 0 .. MaxRequests]
      /\ \A k \in Listener : reading[k] <= requests[k]
      /\ \A k \in Listener : requests[k] > 0 => server[k] \in {"serving", "draining"}
  BY DEF IndInv, TypeOK
<1>3. MaxRequests \in Nat
  BY LifecycleAssumption
<1>4. /\ server' \in [Listener -> {"off", "binding", "serving", "draining", "done"}]
      /\ requests' \in [Listener -> 0 .. MaxRequests] /\ reading' \in [Listener -> 0 .. MaxRequests]
      /\ \A k \in Listener : reading'[k] <= requests'[k]
      /\ \A k \in Listener : requests'[k] > 0 => server'[k] \in {"serving", "draining"}
      /\ \A k \in Listener : server'[k] # "off" => server[k] # "off"
  <2>1. CASE Request(l)
    BY <1>2, <1>3, <2>1 DEF Request
  <2>2. CASE Answer(l)
    BY <1>2, <1>3, <2>2 DEF Answer
  <2>3. CASE BodyArrives(l)
    BY <1>2, <1>3, <2>3 DEF BodyArrives
  <2>4. CASE ClientLeaves(l)
    BY <1>2, <1>3, <2>4 DEF ClientLeaves
  <2>5. CASE Drain(l)
    BY <1>2, <1>3, <2>5 DEF Drain
  <2>6. CASE Drained(l)
    BY <1>2, <1>3, <2>6 DEF Drained
  <2> QED
    BY <2>1, <2>2, <2>3, <2>4, <2>5, <2>6
<1>5. TypeOK'
  BY <1>1, <1>4 DEF IndInv, TypeOK
<1>6. StagesCoverNeeds' /\ ServingIsLast'
  BY <1>1, <1>4, StagesUntouched
<1> QED
  BY <1>5, <1>6 DEF IndInv

LEMMA BindStep ==
    ASSUME IndInv, BindWorkload
    PROVE  IndInv'
<1>1. /\ UNCHANGED <<env, todo, loaded, outcome, receiver, signalTask, requests, reading, grace>>
      /\ server["workload"] = "binding"
  BY DEF BindWorkload
<1>2. /\ server' \in [Listener -> {"off", "binding", "serving", "draining", "done"}]
      /\ \A k \in Listener : requests[k] > 0 => server'[k] \in {"serving", "draining"}
      /\ \A k \in Listener : server'[k] # "off" => server[k] # "off"
  BY DEF BindWorkload, IndInv, TypeOK
<1>3. TypeOK'
  BY <1>1, <1>2 DEF IndInv, TypeOK
<1>4. StagesCoverNeeds' /\ ServingIsLast'
  BY <1>1, <1>2, StagesUntouched
<1> QED
  BY <1>3, <1>4 DEF IndInv

LEMMA RestartStep ==
    ASSUME Restart
    PROVE  IndInv'
<1>1. TypeOK'
  BY LifecycleAssumption DEF Restart, TypeOK, Listener
<1>2. StagesCoverNeeds'
  <2>1. ToDo' = Elements(Stages(env'))
    BY ToDoIsElements DEF Restart
  <2>2. /\ "configuration" \in Elements(Stages(env'))
        /\ ValidConfig(env') => Needs(env') \subseteq Elements(Stages(env'))
    BY StagesAreComplete
  <2> QED
    BY <2>1, <2>2 DEF StagesCoverNeeds
<1>3. ServingIsLast'
  <2>1. todo' \in Seq(Stage) /\ ServesLast(todo')
    BY StagesAreComplete DEF Restart
  <2> QED
    BY <2>1 DEF Restart, ServingIsLast, ServesLast, Listener
<1> QED
  BY <1>1, <1>2, <1>3 DEF IndInv

(***************************************************************************)
(* Whatever the environment, what fails and when the signal comes, every   *)
(* stage a valid configuration needs is behind main or still to come, and  *)
(* no listener is served before the last.                                  *)
(***************************************************************************)
THEOREM ProcessInvariant == Spec => []IndInv
<1>1. Init => IndInv
  BY FreshProcess
<1>2. IndInv /\ [Next]_vars => IndInv'
  <2> SUFFICES ASSUME IndInv, [Next]_vars PROVE IndInv'
    OBVIOUS
  <2>1. CASE UNCHANGED vars
    <3>1. StagesCoverNeeds' /\ ServingIsLast'
      BY <2>1, StagesUntouched DEF vars
    <3>2. TypeOK'
      BY <2>1 DEF vars, IndInv, TypeOK
    <3> QED
      BY <3>1, <3>2 DEF IndInv
  <2>2. CASE Load \/ Subscribe \/ Spawn \/ Serve
    BY <2>2, LoadStep, SubscribeStep, SpawnStep, ServeStep
  <2>3. CASE LoadFails \/ BindWorkloadFails \/ InstallHandlers \/ Signal \/ Send \/ Tick \/ Exit
    BY <2>3, SignalStep
  <2>4. CASE BindWorkload \/ Restart
    BY <2>4, BindStep, RestartStep
  <2>5. CASE \E l \in Listener : \/ Request(l) \/ BodyArrives(l) \/ ClientLeaves(l) \/ Answer(l)
                                   \/ Drain(l) \/ Drained(l)
    BY <2>5, ListenerStep
  <2> QED
    BY <2>1, <2>2, <2>3, <2>4, <2>5 DEF Next
<1> QED
  BY <1>1, <1>2, PTL DEF Spec

\* The state keeps its types, and requests are only where one serves.
THEOREM ProcessTypes == Spec => []TypeOK
<1>1. IndInv => TypeOK
  BY DEF IndInv
<1> QED
  BY <1>1, ProcessInvariant, PTL

(***************************************************************************)
(* A replica never serves by halves, for every set of environments: no     *)
(* listener takes a request before everything the enabled exchanges need   *)
(* has been loaded and checked by main.                                    *)
(***************************************************************************)
THEOREM CompleteServing == Spec => []ServesComplete
<1>1. IndInv => ServesComplete
  <2> SUFFICES ASSUME IndInv, NEW l \in Listener, server[l] \in {"serving", "draining"}
               PROVE  ValidConfig(env) /\ Needs(env) \subseteq loaded
    BY DEF ServesComplete
  <2>1. todo = <<>>
    BY DEF IndInv, ServingIsLast
  <2>2. ToDo = {}
    BY <2>1, ToDoIsElements, ShortSequences
  <2> QED
    BY <2>2 DEF IndInv, StagesCoverNeeds
<1> QED
  BY <1>1, ProcessInvariant, PTL

(***************************************************************************)
(* A termination that main handles loses no answer, for every number of    *)
(* requests: a process that exits with success has none in flight.         *)
(***************************************************************************)
THEOREM NoLostAnswers == Spec => NoAnswerIsLost
<1>1. IndInv /\ [Next]_vars =>
        [outcome' = "ok" /\ outcome = "running" => \A l \in Listener : requests[l] = 0]_vars
  <2> SUFFICES ASSUME IndInv, Next, outcome' = "ok", outcome = "running", NEW l \in Listener
               PROVE  requests[l] = 0
    BY DEF vars
  <2>1. Exit
    BY DEF Next, Load, LoadFails, Subscribe, Spawn, Serve, BindWorkload, BindWorkloadFails,
           Request, BodyArrives, ClientLeaves, Answer, Drain, Drained, InstallHandlers, Signal,
           Send, Tick, Restart, AtStage
  <2>2. server[l] \in {"off", "done"}
    BY <2>1 DEF Exit, IndInv, ServingIsLast, Listener
  <2>3. requests[l] \in 0 .. MaxRequests /\ ~(requests[l] > 0)
    BY <2>2 DEF IndInv, TypeOK
  <2> QED
    BY <2>3, LifecycleAssumption
<1> QED
  BY <1>1, ProcessInvariant, PTL DEF Spec, NoAnswerIsLost

-----------------------------------------------------------------------------
(* Readiness.                                                               *)

\* What the steps below are given.
LEMMA ReadinessShapes ==
    ASSUME ReadinessIndInv
    PROVE  /\ Ttl \in Nat \ {0} /\ Timeout \in Nat \ {0} /\ Patience \in Nat
           /\ HistoryBound = Ttl + Timeout
           /\ cache \in [age : 0 .. Ttl, ready : BOOLEAN]
           /\ probe \in [Probe -> Task]
           /\ heard \in 0 .. HistoryBound /\ healthy \in 0 .. HistoryBound
           /\ holder \in Probe \cup {NoOne} /\ NoOne \notin Probe
           /\ \A p \in Probe : probe[p].pc \in Calling <=> holder = p
           /\ Idle \in Task
BY ReadinessAssumption DEF ReadinessIndInv, ReadinessTypeOK, HistoryBound, Idle, Task, Calling

\* A probe may be given its answer at any time, with any verdict.
LEMMA AnswerIsTyped ==
    ASSUME ReadinessIndInv, NEW p \in Probe, NEW ready \in BOOLEAN, AnswerProbe(p, ready)
    PROVE  /\ probe' \in [Probe -> Task] /\ probe'[p].pc = "idle"
           /\ \A q \in Probe \ {p} : probe'[q] = probe[q]
           /\ last' \in [Probe -> {"none", "ready", "not_ready"}]
           /\ last'[p] = IF ready /\ ~probe[p].failed THEN "ready" ELSE "not_ready"
           /\ \A q \in Probe \ {p} : last'[q] = last[q]
<1>1. probe \in [Probe -> Task] /\ Idle \in Task
  BY ReadinessShapes
<1>2. /\ probe' \in [Probe -> Task] /\ probe'[p] = Idle
      /\ \A q \in Probe \ {p} : probe'[q] = probe[q]
  BY <1>1 DEF AnswerProbe
<1>3. last \in [Probe -> {"none", "ready", "not_ready"}]
  BY DEF ReadinessIndInv, ReadinessTypeOK
<1>4. /\ last' \in [Probe -> {"none", "ready", "not_ready"}]
      /\ last'[p] = IF ready /\ ~probe[p].failed THEN "ready" ELSE "not_ready"
      /\ \A q \in Probe \ {p} : last'[q] = last[q]
  BY <1>3 DEF AnswerProbe
<1> QED
  BY <1>2, <1>4 DEF Idle

LEMMA BeginStep ==
    ASSUME ReadinessIndInv, NEW p \in Probe, Begin(p)
    PROVE  ReadinessIndInv'
<1> DEFINE new == [Idle EXCEPT !.pc = "lock", !.failed = keys # Key \/ (p \in Public /\ ~jwks)]
<1>1. new \in Task /\ new.pc = "lock" /\ new.wait = 0
  BY ReadinessShapes DEF Idle, Task
<1>2. /\ UNCHANGED <<api, jwks, keys, cache, holder, heard, healthy>> /\ probe[p].pc = "idle"
      /\ probe' = [probe EXCEPT ![p] = new] /\ last' = [last EXCEPT ![p] = "none"]
  BY DEF Begin
<1> HIDE DEF new
<1>3. /\ probe' \in [Probe -> Task] /\ probe'[p].pc = "lock" /\ probe'[p].wait = 0
      /\ \A q \in Probe \ {p} : probe'[q] = probe[q]
  BY <1>1, <1>2, ReadinessShapes
<1>4. last' \in [Probe -> {"none", "ready", "not_ready"}]
  BY <1>2 DEF ReadinessIndInv, ReadinessTypeOK
<1>5. \A q \in Probe : probe'[q].pc \in Calling <=> holder = q
  BY <1>2, <1>3, ReadinessShapes DEF Calling
<1>6. ReadinessTypeOK'
  BY <1>2, <1>3, <1>4, <1>5 DEF ReadinessIndInv, ReadinessTypeOK, HistoryBound
<1>7. VerdictsAreRecent'
  BY <1>2, <1>3 DEF ReadinessIndInv, VerdictsAreRecent
<1>8. FailuresAreRecent' /\ CallsAreDue'
  BY <1>2, <1>3 DEF ReadinessIndInv, FailuresAreRecent, CallsAreDue
<1> QED
  BY <1>6, <1>7, <1>8 DEF ReadinessIndInv

\* The mutex is taken to use a young verdict.
LEMMA CachedStep ==
    ASSUME ReadinessIndInv, NEW p \in Probe, probe[p].pc = "lock", AnswerProbe(p, cache.ready),
           UNCHANGED <<api, jwks, keys, cache, holder, heard, healthy>>
    PROVE  ReadinessIndInv'
<1>1. PICK ready \in BOOLEAN : ready = cache.ready
  BY ReadinessShapes
<1>2. AnswerProbe(p, ready)
  BY <1>1
<1>3. /\ probe' \in [Probe -> Task] /\ probe'[p].pc = "idle"
      /\ \A q \in Probe \ {p} : probe'[q] = probe[q]
      /\ last' \in [Probe -> {"none", "ready", "not_ready"}]
  BY <1>2, AnswerIsTyped
<1>4. \A q \in Probe : probe'[q].pc \in Calling <=> holder = q
  BY <1>3, ReadinessShapes DEF Calling
<1>5. ReadinessTypeOK'
  BY <1>3, <1>4 DEF ReadinessIndInv, ReadinessTypeOK, HistoryBound
<1>6. VerdictsAreRecent'
  BY <1>3 DEF ReadinessIndInv, VerdictsAreRecent
<1>7. FailuresAreRecent' /\ CallsAreDue'
  BY <1>3 DEF ReadinessIndInv, FailuresAreRecent, CallsAreDue
<1> QED
  BY <1>5, <1>6, <1>7 DEF ReadinessIndInv

\* The mutex is taken for a call.
LEMMA GetStarts ==
    ASSUME ReadinessIndInv, NEW p \in Probe, probe[p].pc = "lock", holder = NoOne, holder' = p,
           probe' = [probe EXCEPT ![p].pc = "get"],
           UNCHANGED <<api, jwks, keys, cache, heard, healthy, last>>
    PROVE  ReadinessIndInv'
<1>1. probe[p] \in Task
  BY ReadinessShapes
<1> DEFINE new == [probe[p] EXCEPT !.pc = "get"]
<1>2. new \in Task /\ new.pc = "get" /\ new.wait = 0
  BY <1>1 DEF Task, Calling, ReadinessIndInv, CallsAreDue
<1>3. probe' = [probe EXCEPT ![p] = new]
  BY ReadinessShapes
<1> HIDE DEF new
<1>4. /\ probe' \in [Probe -> Task] /\ probe'[p].pc = "get" /\ probe'[p].wait = 0
      /\ \A q \in Probe \ {p} : probe'[q] = probe[q]
  <2>1. probe \in [Probe -> Task]
    BY ReadinessShapes
  <2> QED
    BY <1>2, <1>3, <2>1
<1>5. \A q \in Probe : probe'[q].pc \in Calling <=> holder' = q
  BY <1>4, ReadinessShapes DEF Calling
<1>6. ReadinessTypeOK'
  BY <1>4, <1>5 DEF ReadinessIndInv, ReadinessTypeOK, HistoryBound
<1>7. VerdictsAreRecent'
  BY <1>4 DEF ReadinessIndInv, VerdictsAreRecent
<1>8. FailuresAreRecent' /\ CallsAreDue'
  BY <1>4, ReadinessShapes DEF ReadinessIndInv, FailuresAreRecent, CallsAreDue
<1> QED
  BY <1>6, <1>7, <1>8 DEF ReadinessIndInv

\* The API server answers the holder.
LEMMA ServedStep ==
    ASSUME ReadinessIndInv, NEW p \in Probe, ApiServes(p)
    PROVE  ReadinessIndInv'
<1>1. /\ probe[p].pc = "get" /\ probe' = [probe EXCEPT ![p].pc = "response"] /\ heard' = 0
      /\ UNCHANGED <<api, jwks, keys, cache, holder, healthy, last>>
  BY DEF ApiServes
<1>2. probe[p] \in Task
  BY ReadinessShapes
<1> DEFINE new == [probe[p] EXCEPT !.pc = "response"]
<1>3. new \in Task /\ new.pc = "response" /\ new.wait = probe[p].wait
  BY <1>2 DEF Task, Calling
<1>4. probe' = [probe EXCEPT ![p] = new]
  BY <1>1, ReadinessShapes
<1> HIDE DEF new
<1>5. /\ probe' \in [Probe -> Task] /\ probe'[p].pc = "response"
      /\ probe'[p].wait = probe[p].wait
      /\ \A q \in Probe \ {p} : probe'[q] = probe[q]
  BY <1>3, <1>4, ReadinessShapes
<1>6. \A q \in Probe : probe'[q].pc \in Calling <=> holder = q
  BY <1>1, <1>5, ReadinessShapes DEF Calling
<1>7. ReadinessTypeOK'
  <2>1. heard' \in 0 .. HistoryBound
    BY <1>1, ReadinessShapes
  <2> QED
    BY <1>1, <1>5, <1>6, <2>1 DEF ReadinessIndInv, ReadinessTypeOK, HistoryBound
<1>8. VerdictsAreRecent'
  <2>1. \A q \in Probe : probe'[q].wait \in Nat
    BY <1>5 DEF Task
  <2>2. cache.age \in Nat /\ Timeout \in Nat
    BY ReadinessShapes
  <2> QED
    BY <1>1, <2>1, <2>2 DEF VerdictsAreRecent
<1>9. FailuresAreRecent' /\ CallsAreDue'
  BY <1>1, <1>5 DEF ReadinessIndInv, FailuresAreRecent, CallsAreDue
<1> QED
  BY <1>7, <1>8, <1>9 DEF ReadinessIndInv

\* A call is lost while nothing is in order.
LEMMA LostStep ==
    ASSUME ReadinessIndInv, NEW p \in Probe, CallLost(p)
    PROVE  ReadinessIndInv'
<1>1. /\ probe[p].pc \in {"get", "response"} /\ probe' = [probe EXCEPT ![p].pc = "lost"]
      /\ UNCHANGED <<api, jwks, keys, cache, holder, heard, healthy, last>>
      /\ api = "silent"
  BY DEF CallLost
<1>2. probe[p] \in Task
  BY ReadinessShapes
<1> DEFINE new == [probe[p] EXCEPT !.pc = "lost"]
<1>3. new \in Task /\ new.pc = "lost"
  BY <1>2 DEF Task, Calling
<1>4. probe' = [probe EXCEPT ![p] = new]
  BY <1>1, ReadinessShapes
<1> HIDE DEF new
<1>5. /\ probe' \in [Probe -> Task] /\ probe'[p].pc = "lost"
      /\ \A q \in Probe \ {p} : probe'[q] = probe[q]
  BY <1>3, <1>4, ReadinessShapes
<1>6. \A q \in Probe : probe'[q].pc \in Calling <=> holder = q
  BY <1>1, <1>5, ReadinessShapes DEF Calling
<1>7. ReadinessTypeOK'
  BY <1>1, <1>5, <1>6 DEF ReadinessIndInv, ReadinessTypeOK, HistoryBound
<1>8. VerdictsAreRecent'
  BY <1>1, <1>5 DEF ReadinessIndInv, VerdictsAreRecent
<1>9. FailuresAreRecent'
  BY <1>1 DEF ReadinessIndInv, FailuresAreRecent
<1>10. CallsAreDue'
  <2>1. healthy' = 0
    BY <1>1 DEF ReadinessIndInv, FailuresAreRecent
  <2>2. probe'[p].wait \in Nat
    BY <1>5 DEF Task
  <2> QED
    BY <1>1, <1>5, <2>1, <2>2 DEF ReadinessIndInv, CallsAreDue
<1> QED
  BY <1>7, <1>8, <1>9, <1>10 DEF ReadinessIndInv

\* A call ends, with a good verdict when it was answered within its time, with
\* a bad one when something was out of order as it began.
LEMMA StoreStep ==
    ASSUME ReadinessIndInv, NEW p \in Probe, NEW ready \in BOOLEAN, Store(p, ready),
           probe[p].pc \in Calling,
           ready => heard <= Timeout,
           ~ready => healthy <= Timeout,
           UNCHANGED <<api, jwks, keys, heard, healthy>>
    PROVE  ReadinessIndInv'
<1>1. cache' = [age |-> 0, ready |-> ready] /\ holder' = NoOne /\ AnswerProbe(p, ready)
  BY DEF Store
<1>2. /\ probe' \in [Probe -> Task] /\ probe'[p].pc = "idle"
      /\ \A q \in Probe \ {p} : probe'[q] = probe[q]
      /\ last' \in [Probe -> {"none", "ready", "not_ready"}]
  BY <1>1, AnswerIsTyped
<1>3. \A q \in Probe : probe'[q].pc \notin Calling
  BY <1>2, ReadinessShapes DEF Calling
<1>4. ReadinessTypeOK'
  <2>1. cache' \in [age : 0 .. Ttl, ready : BOOLEAN]
    BY <1>1, ReadinessShapes
  <2>2. \A q \in Probe : probe'[q].pc \in Calling <=> holder' = q
    BY <1>1, <1>3, ReadinessShapes
  <2>3. holder' \in Probe \cup {NoOne}
    BY <1>1
  <2> QED
    BY <1>2, <2>1, <2>2, <2>3 DEF ReadinessIndInv, ReadinessTypeOK, HistoryBound
<1>5. VerdictsAreRecent'
  <2>1. \A q \in Probe : probe'[q].pc # "response"
    BY <1>3 DEF Calling
  <2>2. cache'.ready => heard <= cache'.age + Timeout
    BY <1>1, ReadinessShapes
  <2> QED
    BY <2>1, <2>2 DEF VerdictsAreRecent
<1>6. FailuresAreRecent'
  <2>1. ~cache'.ready => healthy <= cache'.age + Timeout
    BY <1>1, ReadinessShapes
  <2> QED
    BY <2>1 DEF ReadinessIndInv, FailuresAreRecent
<1>7. CallsAreDue'
  BY <1>2, <1>3 DEF ReadinessIndInv, CallsAreDue, Calling
<1> QED
  BY <1>4, <1>5, <1>6, <1>7 DEF ReadinessIndInv

\* A call that timed out began before everything was in order, or at once.
LEMMA TimedOutLate ==
    ASSUME ReadinessIndInv, NEW p \in Probe, probe[p].pc \in Calling, probe[p].wait = Timeout
    PROVE  healthy <= Timeout
BY ReadinessShapes DEF ReadinessIndInv, CallsAreDue, Calling

LEMMA EndedCallStep ==
    ASSUME ReadinessIndInv, NEW p \in Probe, GetSucceeds(p) \/ GetFails(p) \/ GetTimesOut(p)
    PROVE  ReadinessIndInv'
<1>1. CASE GetSucceeds(p)
  <2>1. heard <= probe[p].wait /\ probe[p].wait \in 0 .. Timeout
    BY <1>1, ReadinessShapes DEF GetSucceeds, ReadinessIndInv, VerdictsAreRecent, Task
  <2>2. heard <= Timeout
    BY <2>1, ReadinessShapes
  <2> QED
    BY <1>1, <2>2, StoreStep DEF GetSucceeds, Calling
<1>2. CASE GetFails(p)
  <2>1. healthy <= Timeout
    BY <1>2, ReadinessShapes DEF GetFails, ReadinessIndInv, FailuresAreRecent
  <2> QED
    BY <1>2, <2>1, StoreStep DEF GetFails, Calling
<1>3. CASE GetTimesOut(p)
  <2>1. healthy <= Timeout
    BY <1>3, TimedOutLate DEF GetTimesOut
  <2> QED
    BY <1>3, <2>1, StoreStep DEF GetTimesOut
<1> QED
  BY <1>1, <1>2, <1>3

\* A client that goes away leaves nothing behind.
LEMMA LeaveStep ==
    ASSUME ReadinessIndInv, NEW p \in Probe, Leave(p)
    PROVE  ReadinessIndInv'
<1>1. /\ UNCHANGED <<api, jwks, keys, cache, heard, healthy, last>>
      /\ probe' = [probe EXCEPT ![p] = Idle]
      /\ holder' = IF holder = p THEN NoOne ELSE holder
  BY DEF Leave
<1>2. /\ probe' \in [Probe -> Task] /\ probe'[p] = Idle
      /\ \A q \in Probe \ {p} : probe'[q] = probe[q]
  BY <1>1, ReadinessShapes
<1>3. probe'[p].pc = "idle"
  BY <1>2 DEF Idle
<1>4. /\ holder' \in Probe \cup {NoOne}
      /\ \A q \in Probe : probe'[q].pc \in Calling <=> holder' = q
  BY <1>1, <1>2, <1>3, ReadinessShapes DEF Calling
<1>5. ReadinessTypeOK'
  BY <1>1, <1>2, <1>4 DEF ReadinessIndInv, ReadinessTypeOK, HistoryBound
<1>6. VerdictsAreRecent'
  BY <1>1, <1>2, <1>3 DEF ReadinessIndInv, VerdictsAreRecent
<1>7. FailuresAreRecent' /\ CallsAreDue'
  BY <1>1, <1>2, <1>3 DEF ReadinessIndInv, FailuresAreRecent, CallsAreDue
<1> QED
  BY <1>5, <1>6, <1>7 DEF ReadinessIndInv

LEMMA EnvironmentStep ==
    ASSUME ReadinessIndInv, ApiChange \/ JwksChange \/ \E k \in Key : KeyExpires(k)
    PROVE  ReadinessIndInv'
<1>1. /\ UNCHANGED <<cache, holder, probe, heard, last>> /\ healthy' = 0
      /\ api' \in {"up", "down", "silent"} /\ jwks' \in BOOLEAN /\ keys' \subseteq Key
  BY DEF ApiChange, JwksChange, KeyExpires, ReadinessIndInv, ReadinessTypeOK
<1>2. ReadinessTypeOK'
  <2>1. healthy' \in 0 .. HistoryBound
    BY <1>1, ReadinessShapes
  <2> QED
    BY <1>1, <2>1 DEF ReadinessIndInv, ReadinessTypeOK, HistoryBound
<1>3. VerdictsAreRecent'
  BY <1>1 DEF ReadinessIndInv, VerdictsAreRecent
<1>4. FailuresAreRecent'
  <2>1. 0 <= cache.age + Timeout
    BY ReadinessShapes
  <2> QED
    BY <1>1, <2>1 DEF FailuresAreRecent
<1>5. CallsAreDue'
  <2>1. \A p \in Probe : 0 <= probe[p].wait
    BY ReadinessShapes DEF Task
  <2> QED
    BY <1>1, <2>1 DEF ReadinessIndInv, CallsAreDue
<1> QED
  BY <1>2, <1>3, <1>4, <1>5 DEF ReadinessIndInv

\* A second passes for everybody.
LEMMA ReadinessTickStep ==
    ASSUME ReadinessIndInv, ReadinessTick
    PROVE  ReadinessIndInv'
<1>1. /\ UNCHANGED <<api, jwks, keys, holder, last>>
      /\ cache' = [cache EXCEPT !.age = Limit(@, Ttl)]
      /\ heard' = Limit(heard, HistoryBound)
      /\ healthy' = IF InOrder THEN Limit(healthy, HistoryBound) ELSE 0
  BY DEF ReadinessTick
<1>2. ASSUME NEW p \in Probe
      PROVE  /\ probe'[p] \in Task /\ probe'[p].pc = probe[p].pc
             /\ probe[p].pc \in Calling => probe'[p].wait = probe[p].wait + 1
             /\ probe[p].pc = "lock" => probe'[p].wait = 0
  <2>1. probe[p] \in Task
    BY ReadinessShapes
  <2>2. probe[p].pc \in Calling => probe[p].wait < Timeout
    BY DEF ReadinessTick
  <2>3. CASE probe[p].pc = "idle"
    <3>1. probe'[p] = Idle
      BY <2>3 DEF ReadinessTick
    <3> QED
      BY <2>3, <3>1, ReadinessShapes DEF Idle, Calling
  <2>4. CASE probe[p].pc # "idle"
    <3>1. probe'[p] = [probe[p] EXCEPT !.since = Limit(@, Patience),
                                       !.wait = IF probe[p].pc = "lock" THEN 0 ELSE @ + 1]
      BY <2>4 DEF ReadinessTick
    <3>2. Limit(probe[p].since, Patience) \in 0 .. Patience
      BY <2>1, ReadinessShapes DEF Limit, Task
    <3>3. CASE probe[p].pc = "lock"
      <4>1. probe'[p] = [probe[p] EXCEPT !.since = Limit(@, Patience), !.wait = 0]
        BY <3>1, <3>3
      <4>2. 0 \in 0 .. Timeout
        BY ReadinessShapes
      <4> QED
        BY <2>1, <3>2, <3>3, <4>1, <4>2 DEF Task, Calling
    <3>4. CASE probe[p].pc \in Calling
      <4>1. probe[p].wait + 1 \in 0 .. Timeout
        BY <2>1, <2>2, <3>4, ReadinessShapes DEF Task
      <4> QED
        BY <2>1, <3>1, <3>2, <3>4, <4>1 DEF Task, Calling
    <3> QED
      BY <2>1, <2>4, <3>3, <3>4 DEF Task
  <2> QED
    BY <2>3, <2>4
<1>3. probe' \in [Probe -> Task]
  <2>1. probe' = [p \in Probe |-> probe'[p]]
    BY DEF ReadinessTick
  <2> QED
    BY <1>2, <2>1
<1>4. /\ cache' \in [age : 0 .. Ttl, ready : BOOLEAN] /\ cache'.ready = cache.ready
      /\ cache'.age < Ttl => cache'.age = cache.age + 1 /\ cache.age < Ttl
  BY <1>1, ReadinessShapes DEF Limit
<1>5. heard' \in 0 .. HistoryBound /\ heard' <= heard + 1
  BY <1>1, ReadinessShapes DEF Limit
<1>6. healthy' \in 0 .. HistoryBound /\ healthy' <= healthy + 1
  BY <1>1, ReadinessShapes DEF Limit
<1>7. ReadinessTypeOK'
  BY <1>1, <1>2, <1>3, <1>4, <1>5, <1>6 DEF ReadinessIndInv, ReadinessTypeOK, HistoryBound
<1>8. VerdictsAreRecent'
  <2>1. ASSUME NEW p \in Probe, probe'[p].pc = "response" PROVE heard' <= probe'[p].wait
    <3>1. heard <= probe[p].wait /\ probe'[p].wait = probe[p].wait + 1
      BY <1>2, <2>1 DEF ReadinessIndInv, VerdictsAreRecent, Calling
    <3>2. probe[p].wait \in Int /\ heard \in Int /\ heard' \in Int
      BY <1>5, ReadinessShapes DEF Task
    <3> QED
      BY <1>5, <3>1, <3>2
  <2>2. ASSUME cache'.ready, cache'.age < Ttl PROVE heard' <= cache'.age + Timeout
    <3>1. heard <= cache.age + Timeout /\ cache'.age = cache.age + 1
      BY <1>4, <2>2 DEF ReadinessIndInv, VerdictsAreRecent
    <3> QED
      BY <1>5, <3>1, ReadinessShapes
  <2> QED
    BY <2>1, <2>2 DEF VerdictsAreRecent
<1>9. FailuresAreRecent'
  <2>1. api' # "up" => healthy' = 0
    BY <1>1 DEF InOrder
  <2>2. ASSUME ~cache'.ready, cache'.age < Ttl PROVE healthy' <= cache'.age + Timeout
    <3>1. healthy <= cache.age + Timeout /\ cache'.age = cache.age + 1
      BY <1>4, <2>2 DEF ReadinessIndInv, FailuresAreRecent
    <3> QED
      BY <1>6, <3>1, ReadinessShapes
  <2> QED
    BY <2>1, <2>2 DEF FailuresAreRecent
<1>10. CallsAreDue'
  <2>1. ASSUME NEW p \in Probe, probe'[p].pc = "lost" PROVE healthy' <= probe'[p].wait
    <3>1. healthy <= probe[p].wait /\ probe'[p].wait = probe[p].wait + 1
      BY <1>2, <2>1 DEF ReadinessIndInv, CallsAreDue, Calling
    <3>2. probe[p].wait \in Int /\ healthy \in Int /\ healthy' \in Int
      BY <1>6, ReadinessShapes DEF Task
    <3> QED
      BY <1>6, <3>1, <3>2
  <2>2. ASSUME NEW p \in Probe, probe'[p].pc \in {"get", "response"}, probe'[p].wait = Timeout
        PROVE  healthy' = 0
    <3>1. probe[p].pc \in {"get", "response"} /\ probe[p].wait + 1 = Timeout
      BY <1>2, <2>2 DEF Calling
    <3>2. probe[p].wait \in Int /\ Timeout \in Int
      BY ReadinessShapes DEF Task
    <3>3. api = "up" => probe[p].wait + 1 < Timeout
      BY <3>1, Zenon DEF ReadinessTick
    <3>4. api # "up"
      BY <3>1, <3>2, <3>3
    <3> QED
      BY <1>1, <3>4 DEF InOrder
  <2>3. \A p \in Probe : probe'[p].pc = "lock" => probe'[p].wait = 0
    BY <1>2
  <2> QED
    BY <2>1, <2>2, <2>3 DEF CallsAreDue
<1> QED
  BY <1>7, <1>8, <1>9, <1>10 DEF ReadinessIndInv

(***************************************************************************)
(* Whatever the probes, the API server and the keys do, the cached verdict *)
(* of the ledger is tied to when the API server last answered and to how   *)
(* long everything has been in order.                                      *)
(***************************************************************************)
THEOREM ReadinessInvariant == ReadinessSpec => []ReadinessIndInv
<1>1. ReadinessInit => ReadinessIndInv
  BY ReadinessAssumption
  DEF ReadinessInit, ReadinessIndInv, ReadinessTypeOK, VerdictsAreRecent, FailuresAreRecent,
      CallsAreDue, Idle, Task, Calling, HistoryBound
<1>2. ReadinessIndInv /\ [ReadinessNext]_readinessVars => ReadinessIndInv'
  <2> SUFFICES ASSUME ReadinessIndInv, [ReadinessNext]_readinessVars PROVE ReadinessIndInv'
    OBVIOUS
  <2>1. CASE UNCHANGED readinessVars
    BY <2>1 DEF readinessVars, ReadinessIndInv, ReadinessTypeOK, VerdictsAreRecent,
                FailuresAreRecent, CallsAreDue, HistoryBound
  <2>2. ASSUME NEW p \in Probe, Begin(p) PROVE ReadinessIndInv'
    BY <2>2, BeginStep
  <2>3. ASSUME NEW p \in Probe, Lock(p) PROVE ReadinessIndInv'
    <3>1. CASE AnswerProbe(p, cache.ready) /\ UNCHANGED holder
      BY <2>3, <3>1, CachedStep DEF Lock
    <3>2. CASE holder' = p /\ probe' = [probe EXCEPT ![p].pc = "get"] /\ UNCHANGED last
      BY <2>3, <3>2, GetStarts DEF Lock
    <3> QED
      BY <2>3, <3>1, <3>2 DEF Lock
  <2>4. ASSUME NEW p \in Probe, Call(p) \/ CallLost(p) PROVE ReadinessIndInv'
    BY <2>4, ServedStep, EndedCallStep, LostStep DEF Call
  <2>5. ASSUME NEW p \in Probe, Leave(p) PROVE ReadinessIndInv'
    BY <2>5, LeaveStep
  <2>6. CASE ApiChange \/ JwksChange \/ \E k \in Key : KeyExpires(k)
    BY <2>6, EnvironmentStep
  <2>7. CASE ReadinessTick
    BY <2>7, ReadinessTickStep
  <2> QED
    BY <2>1, <2>2, <2>3, <2>4, <2>5, <2>6, <2>7 DEF ReadinessNext
<1> QED
  BY <1>1, <1>2, PTL DEF ReadinessSpec

\* The state keeps its types, and only the holder of the mutex makes the call.
THEOREM ReadinessTypes == ReadinessSpec => []ReadinessTypeOK
<1>1. ReadinessIndInv => ReadinessTypeOK
  BY DEF ReadinessIndInv
<1> QED
  BY <1>1, ReadinessInvariant, PTL

\* The steps that give a probe its answer.
LEMMA AnswersComeFrom ==
    ASSUME ReadinessIndInv, ReadinessNext, NEW p \in Probe, last[p] = "none", last'[p] # "none"
    PROVE  /\ UNCHANGED <<heard, healthy>>
           /\ \/ /\ cache.age < Ttl
                 /\ last'[p] = IF cache.ready /\ ~probe[p].failed THEN "ready" ELSE "not_ready"
              \/ /\ heard <= Timeout
                 /\ last'[p] = IF ~probe[p].failed THEN "ready" ELSE "not_ready"
              \/ healthy <= Timeout /\ last'[p] = "not_ready"
<1>1. last \in [Probe -> {"none", "ready", "not_ready"}]
  BY DEF ReadinessIndInv, ReadinessTypeOK
<1>2. PICK q \in Probe : Lock(q) \/ GetSucceeds(q) \/ GetFails(q) \/ GetTimesOut(q)
  <2>1. ASSUME NEW q \in Probe, Begin(q) PROVE FALSE
    BY <1>1, <2>1 DEF Begin
  <2>2. \A q \in Probe : ~ApiServes(q) /\ ~CallLost(q) /\ ~Leave(q)
    BY DEF ApiServes, CallLost, Leave
  <2>3. ~ApiChange /\ ~JwksChange /\ ~ReadinessTick /\ \A k \in Key : ~KeyExpires(k)
    BY DEF ApiChange, JwksChange, ReadinessTick, KeyExpires
  <2> QED
    BY <2>1, <2>2, <2>3 DEF ReadinessNext, Call
<1>3. UNCHANGED <<heard, healthy>>
  BY <1>2 DEF Lock, GetSucceeds, GetFails, GetTimesOut
<1>4. CASE Lock(q)
  <2>1. PICK ready \in BOOLEAN : ready = cache.ready
    BY ReadinessShapes
  <2>2. cache.age < Ttl /\ AnswerProbe(q, ready)
    BY <1>4, <2>1 DEF Lock
  <2>3. q = p /\ last'[p] = IF ready /\ ~probe[p].failed THEN "ready" ELSE "not_ready"
    BY <2>2, AnswerIsTyped
  <2> QED
    BY <1>3, <2>1, <2>2, <2>3
<1>5. CASE GetSucceeds(q)
  <2>1. AnswerProbe(q, TRUE)
    BY <1>5 DEF GetSucceeds, Store
  <2>2. q = p /\ last'[p] = IF ~probe[p].failed THEN "ready" ELSE "not_ready"
    BY <2>1, AnswerIsTyped
  <2>3. heard <= probe[q].wait /\ probe[q].wait \in 0 .. Timeout
    BY <1>5, ReadinessShapes DEF GetSucceeds, ReadinessIndInv, VerdictsAreRecent, Task
  <2>4. heard <= Timeout
    BY <2>3, ReadinessShapes
  <2> QED
    BY <1>3, <2>2, <2>4
<1>6. CASE GetFails(q) \/ GetTimesOut(q)
  <2>1. AnswerProbe(q, FALSE)
    BY <1>6 DEF GetFails, GetTimesOut, Store
  <2>2. q = p /\ last'[p] = "not_ready"
    BY <2>1, AnswerIsTyped
  <2>3. CASE GetFails(q)
    BY <1>3, <2>2, <2>3, ReadinessShapes DEF GetFails, ReadinessIndInv, FailuresAreRecent
  <2>4. CASE GetTimesOut(q)
    BY <1>3, <2>2, <2>4, TimedOutLate DEF GetTimesOut
  <2> QED
    BY <1>6, <2>3, <2>4
<1> QED
  BY <1>2, <1>4, <1>5, <1>6

(***************************************************************************)
(* A 204 of /readyz is never old, for every number of probes that share    *)
(* the verdict and wait for each other, every READINESS_CACHE_TTL and      *)
(* every READINESS_TIMEOUT.                                                *)
(***************************************************************************)
THEOREM RecentReadiness == ReadinessSpec => ReadyIsRecent
<1>1. ReadinessIndInv /\ [ReadinessNext]_readinessVars =>
        [\A p \in Probe : Answered(p, "ready") => heard' < HistoryBound]_readinessVars
  <2> SUFFICES ASSUME ReadinessIndInv, ReadinessNext, NEW p \in Probe,
                      last[p] = "none", last'[p] = "ready"
               PROVE  heard' < HistoryBound
    BY DEF Answered
  <2>1. \/ cache.age < Ttl /\ cache.ready
        \/ heard <= Timeout
    BY AnswersComeFrom
  <2>2. heard' = heard
    BY AnswersComeFrom
  <2>3. CASE cache.age < Ttl /\ cache.ready
    <3>1. heard <= cache.age + Timeout
      BY <2>3 DEF ReadinessIndInv, VerdictsAreRecent
    <3> QED
      BY <2>2, <2>3, <3>1, ReadinessShapes
  <2>4. CASE heard <= Timeout
    BY <2>2, <2>4, ReadinessShapes
  <2> QED
    BY <2>1, <2>3, <2>4
<1> QED
  BY <1>1, ReadinessInvariant, PTL DEF ReadinessSpec, ReadyIsRecent

(***************************************************************************)
(* The failure of a call, lost before the recovery or not, is no reason    *)
(* for a 503 once everything has been in order for READINESS_CACHE_TTL     *)
(* plus READINESS_TIMEOUT, for every number of probes and every timing.    *)
(***************************************************************************)
THEOREM TimelyRecovery == ReadinessSpec => RecoversInTime
<1>1. ReadinessIndInv /\ [ReadinessNext]_readinessVars =>
        [\A p \in Probe : Answered(p, "not_ready") /\ ~probe[p].failed =>
            healthy < HistoryBound]_readinessVars
  <2> SUFFICES ASSUME ReadinessIndInv, ReadinessNext, NEW p \in Probe,
                      last[p] = "none", last'[p] = "not_ready", ~probe[p].failed
               PROVE  healthy < HistoryBound
    BY DEF Answered
  <2>1. \/ cache.age < Ttl /\ ~cache.ready
        \/ healthy <= Timeout
    BY AnswersComeFrom
  <2>2. CASE cache.age < Ttl /\ ~cache.ready
    <3>1. healthy <= cache.age + Timeout
      BY <2>2 DEF ReadinessIndInv, FailuresAreRecent
    <3> QED
      BY <2>2, <3>1, ReadinessShapes
  <2>3. CASE healthy <= Timeout
    BY <2>3, ReadinessShapes
  <2> QED
    BY <2>1, <2>2, <2>3
<1> QED
  BY <1>1, ReadinessInvariant, PTL DEF ReadinessSpec, RecoversInTime
=============================================================================
