----------------------------- MODULE Lifecycle -----------------------------
(***************************************************************************)
(* The life of one process: Config::from_env of src/config.rs and main of  *)
(* src/main.rs, from the environment variables to the exit.                *)
(*                                                                         *)
(* main loads what the enabled exchanges need, one stage after the other,  *)
(* and ends at the first that fails.  It then serves one or two listeners; *)
(* with two, a task of its own waits for the termination signal and tells  *)
(* both through a broadcast channel, and a second task sets the deadline   *)
(* of the workload listener.  Spawned tasks run in parallel with main.     *)
(***************************************************************************)
EXTENDS Naturals, Sequences

CONSTANTS
    Environment,  \* settings of the environment variables
    Grace,        \* the deadline of graceful_shutdown on the workload listener
    MaxRequests   \* bound: requests in flight on a listener

Flag == {"true", "false", "absent", "other"}

\* clash: both listen addresses are the same; sound: every other variable that
\* is needed is there and valid; ca: an additional CA file is named.
Settings == [workload : Flag, browser : Flag, oidc : Flag,
             clash : BOOLEAN, sound : BOOLEAN, ca : BOOLEAN]

ASSUME LifecycleAssumption ==
    /\ Environment \subseteq Settings
    /\ Grace \in Nat /\ MaxRequests \in Nat

Listener == {"public", "workload"}

VARIABLES
    env,        \* the environment this process started with
    todo,       \* the stages of main still to come
    loaded,     \* the stages that succeeded
    outcome,    \* "running", or how the process ended
    receiver,   \* per listener: its end of the broadcast channel
    signalTask, \* the task that waits for the signal
    server,     \* per listener: the state of its server future
    requests,   \* per listener: requests in flight
    reading,    \* per listener: those whose client has not sent all of the body
    grace       \* seconds left to the workload listener

vars == <<env, todo, loaded, outcome, receiver, signalTask, server, requests, reading, grace>>

-----------------------------------------------------------------------------
On(flag) == flag = "true"

ValidWorkload(e) == e.workload # "other" /\ (On(e.workload) => ~e.clash)

ValidBrowser(e) == e.browser # "other" /\ (On(e.browser) => On(e.workload))

ValidOidc(e) == e.oidc # "other"

\* Config::from_env.
ValidConfig(e) == e.sound /\ ValidWorkload(e) /\ ValidBrowser(e) /\ ValidOidc(e)

Core == <<"configuration", "github_policy", "policy_contract", "es256_ring", "ledger",
          "verifier", "warm_up">>

OidcStages(e) ==
    IF ~On(e.oidc) THEN <<>>
    ELSE <<"oidc_policy">> \o (IF e.ca THEN <<"additional_ca">> ELSE <<>>) \o <<"oidc_verifier">>

WorkloadStages ==
    <<"rsa_ring", "disjoint_rings", "token_reviewer", "workload_policy", "workload_tls">>

\* Faulty: the tasks are spawned before main subscribes for the listeners.
StagesSpawnFirst(e) ==
    Core \o OidcStages(e) \o
    (IF On(e.workload)
     THEN WorkloadStages \o <<"public_listener">>
          \o (IF On(e.browser) THEN <<"steward_jwks">> ELSE <<>>)
          \o <<"spawn", "subscribe", "serve">>
     ELSE <<"public_listener", "serve">>)

\* Faulty: the browser's keys are loaded once the listeners are served.
StagesServeFirst(e) ==
    Core \o OidcStages(e) \o
    (IF On(e.workload)
     THEN WorkloadStages \o <<"public_listener", "subscribe", "spawn", "serve">>
          \o (IF On(e.browser) THEN <<"steward_jwks">> ELSE <<>>)
     ELSE <<"public_listener", "serve">>)

\* The stages of main, in the order of the code.
Stages(e) ==
    Core \o OidcStages(e) \o
    (IF On(e.workload)
     THEN WorkloadStages \o <<"public_listener">>
          \o (IF On(e.browser) THEN <<"steward_jwks">> ELSE <<>>)
          \o <<"subscribe", "spawn", "serve">>
     ELSE <<"public_listener", "serve">>)

-----------------------------------------------------------------------------
(* Starting.                                                                *)

Init ==
    /\ env \in Environment
    /\ todo = Stages(env)
    /\ loaded = {}
    /\ outcome = "running"
    /\ receiver = [l \in Listener |-> "none"]
    /\ signalTask = "none"
    /\ server = [l \in Listener |-> "off"]
    /\ requests = [l \in Listener |-> 0]
    /\ reading = [l \in Listener |-> 0]
    /\ grace = Grace

AtStage(stage) == outcome = "running" /\ todo # <<>> /\ Head(todo) = stage

Infallible == {"subscribe", "spawn", "serve"}

\* A stage that loads, connects or binds something and can fail.
Load ==
    /\ outcome = "running" /\ todo # <<>> /\ Head(todo) \notin Infallible
    /\ Head(todo) = "configuration" => ValidConfig(env)
    /\ loaded' = loaded \cup {Head(todo)}
    /\ todo' = Tail(todo)
    /\ UNCHANGED <<env, outcome, receiver, signalTask, server, requests, reading, grace>>

\* log_startup_failure, and main returns the error.
LoadFails ==
    /\ outcome = "running" /\ todo # <<>> /\ Head(todo) \notin Infallible
    /\ Head(todo) = "configuration" => ~ValidConfig(env)
    /\ outcome' = "failed"
    /\ UNCHANGED <<env, todo, loaded, receiver, signalTask, server, requests, reading, grace>>

\* shutdown_sender.subscribe() for both listeners.
Subscribe ==
    /\ AtStage("subscribe")
    /\ receiver' = [l \in Listener |-> "empty"]
    /\ todo' = Tail(todo)
    /\ UNCHANGED <<env, loaded, outcome, signalTask, server, requests, reading, grace>>

\* tokio::spawn of the task that waits for the signal.
Spawn ==
    /\ AtStage("spawn")
    /\ signalTask' = "spawned"
    /\ todo' = Tail(todo)
    /\ UNCHANGED <<env, loaded, outcome, receiver, server, requests, reading, grace>>

\* The server futures are polled; without workload exchange the public one
\* waits for the signal itself.
Serve ==
    /\ AtStage("serve")
    /\ todo' = Tail(todo)
    /\ IF On(env.workload)
       THEN /\ server' = [public |-> "serving", workload |-> "binding"]
            /\ UNCHANGED <<signalTask, receiver>>
       ELSE /\ server' = [server EXCEPT !["public"] = "serving"]
            /\ signalTask' = "spawned"
            /\ receiver' = [receiver EXCEPT !["public"] = "empty"]
    /\ UNCHANGED <<env, loaded, outcome, requests, reading, grace>>

-----------------------------------------------------------------------------
(* Serving and stopping.                                                    *)

\* bind_rustls binds its address when it is polled.
BindWorkload ==
    /\ outcome = "running" /\ server["workload"] = "binding"
    /\ server' = [server EXCEPT !["workload"] = "serving"]
    /\ UNCHANGED <<env, todo, loaded, outcome, receiver, signalTask, requests, reading, grace>>

\* It fails: try_join! drops the public server and what it was doing.
BindWorkloadFails ==
    /\ outcome = "running" /\ server["workload"] = "binding"
    /\ outcome' = "failed"
    /\ UNCHANGED <<env, todo, loaded, receiver, signalTask, server, requests, reading, grace>>

\* A client sends the head of a request; extractors await its body.
Request(l) ==
    /\ outcome = "running" /\ server[l] = "serving"
    /\ requests[l] < MaxRequests
    /\ requests' = [requests EXCEPT ![l] = @ + 1]
    /\ reading' = [reading EXCEPT ![l] = @ + 1]
    /\ UNCHANGED <<env, todo, loaded, outcome, receiver, signalTask, server, grace>>

\* The rest of the body is there, and the handler runs.
BodyArrives(l) ==
    /\ outcome = "running" /\ server[l] \in {"serving", "draining"}
    /\ reading[l] > 0
    /\ reading' = [reading EXCEPT ![l] = @ - 1]
    /\ UNCHANGED <<env, todo, loaded, outcome, receiver, signalTask, server, requests, grace>>

\* The client goes away before it has sent its body.
ClientLeaves(l) ==
    /\ outcome = "running" /\ server[l] \in {"serving", "draining"}
    /\ reading[l] > 0
    /\ requests' = [requests EXCEPT ![l] = @ - 1]
    /\ reading' = [reading EXCEPT ![l] = @ - 1]
    /\ UNCHANGED <<env, todo, loaded, outcome, receiver, signalTask, server, grace>>

\* The handler of a request that has arrived ends.
Answer(l) ==
    /\ outcome = "running" /\ server[l] \in {"serving", "draining"}
    /\ requests[l] > reading[l]
    /\ requests' = [requests EXCEPT ![l] = @ - 1]
    /\ UNCHANGED <<env, todo, loaded, outcome, receiver, signalTask, server, reading, grace>>

\* shutdown() is polled for the first time and installs its handlers.
InstallHandlers ==
    /\ outcome = "running" /\ signalTask = "spawned"
    /\ signalTask' = "listening"
    /\ UNCHANGED <<env, todo, loaded, outcome, receiver, server, requests, reading, grace>>

\* SIGTERM or SIGINT; without a handler it ends the process at once.
Signal ==
    /\ outcome = "running" /\ signalTask \in {"none", "spawned", "listening"}
    /\ IF signalTask = "listening"
       THEN signalTask' = "caught" /\ UNCHANGED outcome
       ELSE outcome' = "killed" /\ UNCHANGED signalTask
    /\ UNCHANGED <<env, todo, loaded, receiver, server, requests, reading, grace>>

\* signal_sender.send(()): whoever has subscribed is told.
Send ==
    /\ outcome = "running" /\ signalTask = "caught"
    /\ signalTask' = "sent"
    /\ receiver' = [l \in Listener |-> IF receiver[l] = "empty" THEN "told" ELSE receiver[l]]
    /\ UNCHANGED <<env, todo, loaded, outcome, server, requests, reading, grace>>

\* The listener's server takes no more connections; on the workload listener
\* graceful_shutdown(Some(30 s)) has started its clock.
Drain(l) ==
    /\ outcome = "running" /\ receiver[l] = "told" /\ server[l] = "serving"
    /\ server' = [server EXCEPT ![l] = "draining"]
    /\ UNCHANGED <<env, todo, loaded, outcome, receiver, signalTask, requests, reading, grace>>

\* The server future completes: no request is left, or the deadline is over.
Drained(l) ==
    /\ outcome = "running" /\ server[l] = "draining"
    /\ requests[l] = 0 \/ (l = "workload" /\ grace = 0)
    /\ server' = [server EXCEPT ![l] = "done"]
    /\ requests' = [requests EXCEPT ![l] = 0]
    /\ reading' = [reading EXCEPT ![l] = 0]
    /\ UNCHANGED <<env, todo, loaded, outcome, receiver, signalTask, grace>>

Tick ==
    /\ outcome = "running" /\ server["workload"] = "draining" /\ grace > 0
    /\ grace' = grace - 1
    /\ UNCHANGED <<env, todo, loaded, outcome, receiver, signalTask, server, requests, reading>>

\* Faulty: main returns as soon as one of the servers is done.
ExitEarly ==
    /\ outcome = "running" /\ todo = <<>>
    /\ \E l \in Listener : server[l] = "done"
    /\ outcome' = "ok"
    /\ UNCHANGED <<env, todo, loaded, receiver, signalTask, server, requests, reading, grace>>

\* try_join! has both results, or the only server is done.
Exit ==
    /\ outcome = "running" /\ todo = <<>>
    /\ server["public"] = "done"
    /\ On(env.workload) => server["workload"] = "done"
    /\ outcome' = "ok"
    /\ UNCHANGED <<env, todo, loaded, receiver, signalTask, server, requests, reading, grace>>

\* The container is started again, perhaps with another environment.
Restart ==
    /\ outcome # "running"
    /\ env' \in Environment
    /\ todo' = Stages(env')
    /\ loaded' = {}
    /\ outcome' = "running"
    /\ receiver' = [l \in Listener |-> "none"]
    /\ signalTask' = "none"
    /\ server' = [l \in Listener |-> "off"]
    /\ requests' = [l \in Listener |-> 0]
    /\ reading' = [l \in Listener |-> 0]
    /\ grace' = Grace

Next ==
    \/ Load \/ LoadFails \/ Subscribe \/ Spawn \/ Serve
    \/ BindWorkload \/ BindWorkloadFails
    \/ \E l \in Listener : Request(l) \/ BodyArrives(l) \/ ClientLeaves(l) \/ Answer(l)
    \/ \E l \in Listener : Drain(l) \/ Drained(l)
    \/ InstallHandlers \/ Signal \/ Send \/ Tick \/ Exit
    \/ Restart

Spec == Init /\ [][Next]_vars

\* The runtime polls every future that can go on, and time passes.  On the
\* public listener a handler that has its request ends, for every call it makes
\* has a timeout.  Clients owe nothing: nothing limits the time they take to
\* send a body, nor is any answer on the workload listener promised.
FairSpec ==
    /\ Spec
    /\ WF_vars(Load \/ LoadFails \/ Subscribe \/ Spawn \/ Serve)
    /\ WF_vars(BindWorkload \/ BindWorkloadFails)
    /\ WF_vars(Send) /\ WF_vars(Tick) /\ WF_vars(Exit)
    /\ \A l \in Listener : WF_vars(Drain(l)) /\ WF_vars(Drained(l))
    /\ WF_vars(server["public"] = "draining" /\ Answer("public"))

-----------------------------------------------------------------------------
(* Properties.                                                              *)

\* The state has its types; requests are in flight only where one serves.
TypeOK ==
    /\ env \in Environment
    /\ outcome \in {"running", "ok", "failed", "killed"}
    /\ receiver \in [Listener -> {"none", "empty", "told"}]
    /\ signalTask \in {"none", "spawned", "listening", "caught", "sent"}
    /\ server \in [Listener -> {"off", "binding", "serving", "draining", "done"}]
    /\ requests \in [Listener -> 0 .. MaxRequests]
    /\ reading \in [Listener -> 0 .. MaxRequests]
    /\ \A l \in Listener : reading[l] <= requests[l]
    /\ grace \in 0 .. Grace
    /\ \A l \in Listener : requests[l] > 0 => server[l] \in {"serving", "draining"}

\* What an enabled exchange cannot do without.
Needs(e) ==
    {"github_policy", "policy_contract", "es256_ring", "ledger", "warm_up"}
    \cup (IF On(e.oidc) THEN {"oidc_policy", "oidc_verifier"} ELSE {})
    \cup (IF On(e.oidc) /\ e.ca THEN {"additional_ca"} ELSE {})
    \cup (IF On(e.workload)
          THEN {"rsa_ring", "disjoint_rings", "workload_policy", "workload_tls"} ELSE {})
    \cup (IF On(e.browser) THEN {"steward_jwks"} ELSE {})

(***************************************************************************)
(* A replica never serves by halves: when a listener takes requests, the   *)
(* configuration was valid and everything any enabled exchange needs has   *)
(* been loaded, whichever listener it is reached through.                  *)
(***************************************************************************)
ServesComplete ==
    \A l \in Listener : server[l] \in {"serving", "draining"} =>
        ValidConfig(env) /\ Needs(env) \subseteq loaded

(***************************************************************************)
(* A termination that main handles loses no answer: when the process exits *)
(* with success, no request is in flight on either listener, except those  *)
(* the workload listener dropped at its deadline.                          *)
(***************************************************************************)
NoAnswerIsLost ==
    [][outcome' = "ok" /\ outcome = "running" => \A l \in Listener : requests[l] = 0]_vars

(***************************************************************************)
(* Once main has caught the signal the process ends, unless a client of    *)
(* the public listener withholds its body for ever: no read timeout and no *)
(* shutdown deadline bounds that.  The message on the broadcast channel    *)
(* reaches both servers although it may be sent while main is still        *)
(* starting them, and requests on the workload listener that never end     *)
(* delay it to the deadline at most.                                       *)
(***************************************************************************)
SignalEndsProcess ==
    signalTask = "caught" ~> (outcome # "running" \/ [](reading["public"] > 0))
=============================================================================
