-------------------------- MODULE MCTokenExchange --------------------------
(***************************************************************************)
(* Instance of TokenExchange for TLC: two replicas with one handler each,  *)
(* and assertions for every path of the four handlers, whose identifiers   *)
(* coincide wherever issuers are independent.                              *)
(***************************************************************************)
EXTENDS TokenExchange, TLC

Processes == Permutations(Handler)
OwnReplica == [h \in Handler |-> h]

\* "foreign" is not admitted, "nojti" has no source identity, "plain" is a
\* workload without a task.
Sources == {"gha", "foreign", "ci1", "ci2", "nojti", "task", "plain", "session"}
SourceProfile ==
    [gha |-> "github", foreign |-> "github", ci1 |-> "oidc", ci2 |-> "oidc", nojti |-> "oidc",
     task |-> "workload", plain |-> "workload", session |-> "browser"]
SourceIssuer ==
    [gha |-> "github", foreign |-> "github", ci1 |-> "one", ci2 |-> "two", nojti |-> "one",
     task |-> "kubernetes", plain |-> "kubernetes", session |-> "steward"]
SourceIds ==
    [gha |-> 1, foreign |-> 2, ci1 |-> 1, ci2 |-> 1, nojti |-> 2, task |-> 3, plain |-> 4, session |-> 1]
=============================================================================
