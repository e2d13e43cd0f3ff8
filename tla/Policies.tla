----------------------------- MODULE Policies -----------------------------
(***************************************************************************)
(* The three policies as src/main.rs loads them: the GitHub policy always, *)
(* which must also have the version the configuration expects, then that   *)
(* of the generic OIDC exchange and that of the workload exchange where    *)
(* they are enabled.  The first one refused ends the process, and what     *)
(* follows it is never looked at.  The stages of start-up between them     *)
(* are those of Lifecycle, and succeed here.                               *)
(***************************************************************************)
EXTENDS RepositoryPolicy, OidcPolicy, WorkloadPolicy

CONSTANT Mounted  \* files and configuration the process may find

Exchange == {"oidc", "workload"}

ASSUME MountedAssumption ==
    Mounted \subseteq [github : Document, oidc : OidcDocument, workload : WorkloadDocument,
                       expected : {V5, V6}, enabled : SUBSET Exchange]

VARIABLES
    expected,  \* config.expected_policy_version
    contract,  \* what comparing the version with it has shown
    enabled    \* the exchanges that are Some in the configuration

policyVars == <<expected, contract, enabled, vars, oidcVars, workloadVars>>

PoliciesInit ==
    /\ \E m \in Mounted : /\ file = m.github /\ oidcFile = m.oidc /\ listing = m.workload
                          /\ expected = m.expected /\ enabled = m.enabled
    /\ contract = "unchecked"
    /\ Start /\ OidcStart /\ WorkloadStart

GitHubLoaded == contract = "met"
OidcLoaded == "oidc" \in enabled => oidcPc = "accepted"
WorkloadLoaded == "workload" \in enabled => workloadPc = "accepted"

LoadGitHubPolicy == Next /\ UNCHANGED <<expected, contract, enabled, oidcVars, workloadVars>>

CheckVersion ==
    /\ pc = "accepted" /\ contract = "unchecked"
    /\ contract' = IF file.version = expected THEN "met" ELSE "broken"
    /\ UNCHANGED <<expected, enabled, vars, oidcVars, workloadVars>>

LoadOidcPolicy ==
    /\ GitHubLoaded
    /\ "oidc" \in enabled
    /\ OidcNext
    /\ UNCHANGED <<expected, contract, enabled, vars, workloadVars>>

\* Faulty: the workload policy is loaded where the OIDC policy was.
LoadWorkloadPolicyNested ==
    /\ GitHubLoaded /\ "oidc" \in enabled /\ oidcPc = "accepted"
    /\ "workload" \in enabled
    /\ WorkloadNext
    /\ UNCHANGED <<expected, contract, enabled, vars, oidcVars>>

LoadWorkloadPolicy ==
    /\ GitHubLoaded /\ OidcLoaded
    /\ "workload" \in enabled
    /\ WorkloadNext
    /\ UNCHANGED <<expected, contract, enabled, vars, oidcVars>>

PoliciesNext == LoadGitHubPolicy \/ CheckVersion \/ LoadOidcPolicy \/ LoadWorkloadPolicy

\* Start-up is one sequential function, which the runtime keeps running.
PoliciesSpec == PoliciesInit /\ [][PoliciesNext]_policyVars /\ WF_policyVars(PoliciesNext)

-----------------------------------------------------------------------------
Loaded == GitHubLoaded /\ OidcLoaded /\ WorkloadLoaded

Refused == \/ pc = "rejected" \/ contract = "broken"
           \/ "oidc" \in enabled /\ oidcPc = "rejected"
           \/ "workload" \in enabled /\ workloadPc = "rejected"

EnabledPoliciesSound ==
    /\ Sound(file) /\ file.version = expected
    /\ "oidc" \in enabled => OidcSound(oidcFile)
    /\ "workload" \in enabled => WorkloadSound(listing)

(***************************************************************************)
(* Loading the policies comes to an end, whatever the files hold: with all *)
(* policies loaded exactly when the GitHub policy and those of the enabled *)
(* exchanges are in order, and with a refusal exactly when one is not.     *)
(* The file of an exchange that is not enabled has no say.                 *)
(***************************************************************************)
LoadingDecides ==
    <>[](IF EnabledPoliciesSound THEN Loaded /\ ~Refused ELSE Refused /\ ~Loaded)

(***************************************************************************)
(* What of LoadingDecides needs no fairness: whenever all policies are     *)
(* loaded they are in order, and whenever there is a refusal one is not.   *)
(***************************************************************************)
LoadingIsExact ==
    /\ Loaded => EnabledPoliciesSound
    /\ Refused => ~EnabledPoliciesSound

\* The version is compared with a policy that was accepted, and once.
ContractIsChecked ==
    /\ contract \in {"unchecked", "met", "broken"}
    /\ contract = "met" => pc = "accepted" /\ file.version = expected
    /\ contract = "broken" => file.version # expected
=============================================================================
