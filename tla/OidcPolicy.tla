---------------------------- MODULE OidcPolicy ----------------------------
(***************************************************************************)
(* The generic OIDC authorization policy of src/oidc.rs: what              *)
(* OidcPolicy::validate makes of the mounted file, binding by binding, and *)
(* what OidcPolicy::authorize makes of verified claims.                    *)
(*                                                                         *)
(* A map of claims is a function from claim names, None where the map has  *)
(* no string under the name.  What the code asks of the characters of a    *)
(* string is the set of those that pass, given as a constant.              *)
(***************************************************************************)
EXTENDS Naturals, Sequences, FiniteSets

CONSTANTS
    OidcDocument,     \* policy files that may be mounted
    ClaimName,        \* names of claims
    ValidClaimName,   \* those that valid_claim_name lets pass
    Reserved,         \* iss, aud, exp, iat, nbf, jti
    Sub,              \* the name "sub"
    ClaimValue,       \* strings under a claim name
    ValidClaimValue,  \* those that bounded_graphic lets pass
    Issuer,           \* issuer URLs
    ValidIssuer,      \* those that valid_issuer lets pass
    Audience,         \* audiences of providers
    ValidAudience,    \* those that bounded_graphic lets pass
    OidcTask,         \* task bindings
    ValidOidcTask,    \* those that valid_task_binding lets pass
    MaxProviders,     \* 32
    MaxBindings,      \* 256
    MaxClaims,        \* 16
    NoClaim           \* an absent claim

ClaimMap == [ClaimName -> ClaimValue \union {NoClaim}]

OidcBinding == [claims : ClaimMap, task : OidcTask]

OidcProviderPolicy == [issuer : Issuer, audience : Audience, bindings : Seq(OidcBinding)]

OidcPolicyDocument == [version : {"v1", "other"}, providers : Seq(OidcProviderPolicy)]

ASSUME OidcAssumption ==
    /\ OidcDocument \subseteq OidcPolicyDocument
    /\ Sub \in ClaimName /\ NoClaim \notin ClaimValue
    /\ ValidClaimValue \subseteq ClaimValue
    /\ {MaxProviders, MaxBindings, MaxClaims} \subseteq Nat

VARIABLES
    oidcFile,  \* the policy file this process read
    oidcPc,    \* where validate is
    provider,  \* the provider of the outer loop, from 1
    binding,   \* the binding of the inner loop, from 1; 0 before the provider is looked at
    issuers,   \* issuers seen so far
    bindings   \* claim maps of this provider seen so far

oidcVars == <<oidcFile, oidcPc, provider, binding, issuers, bindings>>

-----------------------------------------------------------------------------
\* What is asked of a provider and of a binding alone.

ClaimNames(claims) == {n \in ClaimName : claims[n] # NoClaim}

\* Faulty: maps overlap when every claim they share is present in both.
OverlapWhenEqual(left, right) == left = right

\* claim_bindings_overlap: no claim tells the two apart.
ClaimBindingsOverlap(left, right) ==
    ~\E n \in ClaimName : left[n] # NoClaim /\ right[n] # NoClaim /\ right[n] # left[n]

ValidProvider(p) ==
    /\ p.issuer \in ValidIssuer
    /\ p.audience \in ValidAudience
    /\ Len(p.bindings) \in 1 .. MaxBindings

ValidBinding(b) ==
    /\ Cardinality(ClaimNames(b.claims)) \in 1 .. MaxClaims
    /\ b.claims[Sub] \in ValidClaimValue
    /\ \A n \in ClaimNames(b.claims) :
          n \in ValidClaimName \ Reserved /\ b.claims[n] \in ValidClaimValue
    /\ b.task \in ValidOidcTask

OidcHeader(p) == p.version = "v1" /\ Len(p.providers) \in 1 .. MaxProviders

-----------------------------------------------------------------------------
\* OidcPolicy::validate.

OidcStart ==
    /\ oidcPc = "header"
    /\ provider = 1 /\ binding = 0
    /\ issuers = {} /\ bindings = {}

OidcInit == oidcFile \in OidcDocument /\ OidcStart

RejectOidcPolicy ==
    /\ oidcPc' = "rejected"
    /\ UNCHANGED <<oidcFile, provider, binding, issuers, bindings>>

ValidateOidcHeader ==
    /\ oidcPc = "header"
    /\ \/ ~OidcHeader(oidcFile) /\ RejectOidcPolicy
       \/ /\ OidcHeader(oidcFile)
          /\ oidcPc' = "providers"
          /\ UNCHANGED <<oidcFile, provider, binding, issuers, bindings>>

InProvider == oidcPc = "providers" /\ provider <= Len(oidcFile.providers)

\* The head of the outer loop.
ValidateProvider ==
    LET p == oidcFile.providers[provider]
        valid == ValidProvider(p) /\ p.issuer \notin issuers
    IN  /\ InProvider /\ binding = 0
        /\ \/ ~valid /\ RejectOidcPolicy
           \/ /\ valid
              /\ issuers' = issuers \union {p.issuer}
              /\ binding' = 1
              /\ bindings' = {}
              /\ UNCHANGED <<oidcFile, oidcPc, provider>>

\* Faulty: a binding is only compared with the one just before it.
ValidateBindingAgainstLast ==
    LET b == oidcFile.providers[provider].bindings[binding]
        valid == /\ ValidBinding(b)
                 /\ ~\E existing \in bindings : ClaimBindingsOverlap(existing, b.claims)
    IN  /\ InProvider
        /\ binding \in 1 .. Len(oidcFile.providers[provider].bindings)
        /\ \/ ~valid /\ RejectOidcPolicy
           \/ /\ valid
              /\ bindings' = {b.claims}
              /\ binding' = binding + 1
              /\ UNCHANGED <<oidcFile, oidcPc, provider, issuers>>

\* One iteration of the inner loop.
ValidateBinding ==
    LET b == oidcFile.providers[provider].bindings[binding]
        valid == /\ ValidBinding(b)
                 /\ ~\E existing \in bindings : ClaimBindingsOverlap(existing, b.claims)
    IN  /\ InProvider
        /\ binding \in 1 .. Len(oidcFile.providers[provider].bindings)
        /\ \/ ~valid /\ RejectOidcPolicy
           \/ /\ valid
              /\ bindings' = bindings \union {b.claims}
              /\ binding' = binding + 1
              /\ UNCHANGED <<oidcFile, oidcPc, provider, issuers>>

NextProvider ==
    /\ InProvider
    /\ binding = Len(oidcFile.providers[provider].bindings) + 1
    /\ provider' = provider + 1
    /\ binding' = 0
    /\ UNCHANGED <<oidcFile, oidcPc, issuers, bindings>>

AcceptOidcPolicy ==
    /\ oidcPc = "providers"
    /\ provider > Len(oidcFile.providers)
    /\ oidcPc' = "accepted"
    /\ UNCHANGED <<oidcFile, provider, binding, issuers, bindings>>

OidcNext ==
    \/ ValidateOidcHeader
    \/ ValidateProvider
    \/ ValidateBinding
    \/ NextProvider
    \/ AcceptOidcPolicy

OidcSpec == OidcInit /\ [][OidcNext]_oidcVars

-----------------------------------------------------------------------------
\* OidcPolicy::authorize(claims).

Matches(b, claims) == \A n \in ClaimNames(b.claims) : claims[n] = b.claims[n]

\* find: the first provider with that issuer.
ProviderOf(p, issuer) ==
    {i \in DOMAIN p.providers : /\ p.providers[i].issuer = issuer
                                /\ \A j \in 1 .. i - 1 : p.providers[j].issuer # issuer}

MatchingBindings(p, i, claims) ==
    {j \in DOMAIN p.providers[i].bindings : Matches(p.providers[i].bindings[j], claims)}

\* The tasks authorize may return: none when it is Err(Unauthorized), which it
\* is too when a second binding matches.
AuthorizeClaims(p, issuer, claims) ==
    {t \in OidcTask : \E i \in ProviderOf(p, issuer) : \E j \in DOMAIN p.providers[i].bindings :
        MatchingBindings(p, i, claims) = {j} /\ t = p.providers[i].bindings[j].task}

-----------------------------------------------------------------------------
\* Properties.

\* The loop variables stay in range of the file they walk over.
OidcTypeOK ==
    /\ oidcFile \in OidcPolicyDocument
    /\ oidcPc \in {"header", "providers", "rejected", "accepted"}
    /\ provider \in 1 .. Len(oidcFile.providers) + 1
    /\ provider <= Len(oidcFile.providers) =>
            binding \in 0 .. Len(oidcFile.providers[provider].bindings) + 1
    /\ provider > Len(oidcFile.providers) => binding = 0
    /\ issuers \subseteq Issuer
    /\ bindings \subseteq ClaimMap

\* Two bindings that some claims match both of.
AmbiguousBindings(b, c) == \E claims \in ClaimMap : Matches(b, claims) /\ Matches(c, claims)

BindingsSound(p) ==
    /\ \A j \in DOMAIN p.bindings : ValidBinding(p.bindings[j])
    /\ \A j, k \in DOMAIN p.bindings : j # k => ~AmbiguousBindings(p.bindings[j], p.bindings[k])

IssuersDiffer(p) ==
    \A i, k \in DOMAIN p.providers : p.providers[i].issuer = p.providers[k].issuer => i = k

\* What a valid policy is, without regard to the order of anything.
OidcSound(p) ==
    /\ OidcHeader(p)
    /\ \A i \in DOMAIN p.providers : ValidProvider(p.providers[i]) /\ BindingsSound(p.providers[i])
    /\ IssuersDiffer(p)

(***************************************************************************)
(* OidcPolicy::validate accepts a file exactly when it is in order and no  *)
(* claims whatsoever fall under two bindings of a provider: the pairwise   *)
(* look at shared names neither misses an ambiguity nor invents one, and   *)
(* the order of providers and bindings does not matter.                    *)
(***************************************************************************)
OidcVerdictIsExact ==
    /\ oidcPc = "rejected" => ~OidcSound(oidcFile)
    /\ oidcPc = "accepted" => OidcSound(oidcFile)

Extends(wide, claims) == \A n \in ClaimName : claims[n] # NoClaim => wide[n] = claims[n]

(***************************************************************************)
(* In a policy that OidcPolicy::validate accepted, an issuer that adds     *)
(* claims to its tokens never changes the task authorize binds them to:    *)
(* "additional exact signed string claims may narrow" a binding, and the   *)
(* refusal of a second match never strikes.                                *)
(***************************************************************************)
ExtraClaimsChangeNothing ==
    oidcPc = "accepted" =>
        \A issuer \in Issuer, claims \in ClaimMap, wide \in ClaimMap :
            Extends(wide, claims) /\ AuthorizeClaims(oidcFile, issuer, claims) # {} =>
                AuthorizeClaims(oidcFile, issuer, wide) = AuthorizeClaims(oidcFile, issuer, claims)
=============================================================================
