-------------------------- MODULE WorkloadPolicy --------------------------
(***************************************************************************)
(* The workload policy of src/workload.rs: what WorkloadPolicy::validate   *)
(* makes of the mounted file, identity by identity, and what               *)
(* WorkloadPolicy::authorize makes of a reviewed username.                 *)
(*                                                                         *)
(* A username or subject is its prefix and what split(':') finds after it. *)
(* What the code asks of the characters of a string is the set of those    *)
(* that pass, given as a constant.                                         *)
(***************************************************************************)
EXTENDS Naturals, Sequences, FiniteSets

CONSTANTS
    WorkloadDocument,  \* policy files that may be mounted
    Segment,           \* strings without a colon
    ExactSegment,      \* those that are not empty and hold no asterisk
    Role,              \* roles
    ExactRole,         \* those that are not empty and hold no asterisk or whitespace
    Task,              \* task bindings
    ValidTask,         \* those with a bounded service, a canonical user and a canonical email
    NoTask             \* no task binding

\* SERVICE_ACCOUNT_PREFIX, SUBJECT_PREFIX, and what has neither.
Prefix == {"system:serviceaccount:", "kubernetes:serviceaccount:", ""}

Text == [prefix : Prefix, segments : Seq(Segment)]

WorkloadIdentity == [username : Text, subject : Text, roles : Seq(Role), task : Task \union {NoTask}]

WorkloadPolicyDocument == [version : {"v1", "other"}, identities : Seq(WorkloadIdentity)]

ASSUME WorkloadAssumption ==
    /\ WorkloadDocument \subseteq WorkloadPolicyDocument
    /\ ExactSegment \subseteq Segment /\ ExactRole \subseteq Role
    /\ ValidTask \subseteq Task /\ NoTask \notin Task

VARIABLES
    listing,     \* the policy file this process read
    workloadPc,  \* where validate is
    nextId,      \* the identity of the loop, from 1
    usernames,   \* usernames seen so far
    subjects     \* subjects seen so far

workloadVars == <<listing, workloadPc, nextId, usernames, subjects>>

-----------------------------------------------------------------------------
\* What is asked of an identity alone.

ServiceAccount(text) ==
    /\ text.prefix = "system:serviceaccount:"
    /\ Len(text.segments) = 2
    /\ \A i \in 1 .. 2 : text.segments[i] \in ExactSegment

\* Faulty: only the namespace has to agree.
CorrespondsInNamespace(subject, username) ==
    /\ subject.prefix = "kubernetes:serviceaccount:"
    /\ Len(subject.segments) = 2
    /\ subject.segments[1] = username.segments[1]

Corresponds(subject, username) ==
    /\ subject.prefix = "kubernetes:serviceaccount:"
    /\ subject.segments = username.segments

ValidRoles(identity) ==
    /\ identity.roles # <<>> \/ identity.task # NoTask
    /\ \A i, j \in DOMAIN identity.roles : identity.roles[i] = identity.roles[j] => i = j
    /\ \A i \in DOMAIN identity.roles : identity.roles[i] \in ExactRole

ValidIdentity(identity) ==
    /\ ServiceAccount(identity.username)
    /\ Corresponds(identity.subject, identity.username)
    /\ ValidRoles(identity)
    /\ identity.task # NoTask => identity.task \in ValidTask

WorkloadHeader(p) == p.version = "v1" /\ p.identities # <<>>

-----------------------------------------------------------------------------
\* WorkloadPolicy::validate.

WorkloadStart ==
    /\ workloadPc = "header"
    /\ nextId = 1
    /\ usernames = {} /\ subjects = {}

WorkloadInit == listing \in WorkloadDocument /\ WorkloadStart

ValidateWorkloadHeader ==
    /\ workloadPc = "header"
    /\ workloadPc' = IF WorkloadHeader(listing) THEN "identities" ELSE "rejected"
    /\ UNCHANGED <<listing, nextId, usernames, subjects>>

InLoop == workloadPc = "identities" /\ nextId <= Len(listing.identities)

\* The sets may hold what is rejected, since nobody looks at them again.
RejectIdentity ==
    LET identity == listing.identities[nextId]
    IN  /\ InLoop
        /\ \/ ~ValidIdentity(identity)
           \/ identity.username \in usernames
           \/ identity.subject \in subjects
        /\ workloadPc' = "rejected"
        /\ UNCHANGED <<listing, nextId, usernames, subjects>>

\* Faulty: the sets only ever hold the identity just looked at.
AcceptIdentityAlone ==
    LET identity == listing.identities[nextId]
    IN  /\ InLoop
        /\ ValidIdentity(identity)
        /\ identity.username \notin usernames /\ identity.subject \notin subjects
        /\ usernames' = {identity.username}
        /\ subjects' = {identity.subject}
        /\ nextId' = nextId + 1
        /\ UNCHANGED <<listing, workloadPc>>

AcceptIdentity ==
    LET identity == listing.identities[nextId]
    IN  /\ InLoop
        /\ ValidIdentity(identity)
        /\ identity.username \notin usernames /\ identity.subject \notin subjects
        /\ usernames' = usernames \union {identity.username}
        /\ subjects' = subjects \union {identity.subject}
        /\ nextId' = nextId + 1
        /\ UNCHANGED <<listing, workloadPc>>

AcceptWorkloadPolicy ==
    /\ workloadPc = "identities"
    /\ nextId > Len(listing.identities)
    /\ workloadPc' = "accepted"
    /\ UNCHANGED <<listing, nextId, usernames, subjects>>

WorkloadNext == ValidateWorkloadHeader \/ RejectIdentity \/ AcceptIdentity \/ AcceptWorkloadPolicy

WorkloadSpec == WorkloadInit /\ [][WorkloadNext]_workloadVars

-----------------------------------------------------------------------------
\* WorkloadPolicy::authorize(username).

MatchingIdentities(p, username) == {i \in DOMAIN p.identities : p.identities[i].username = username}

\* The identities authorize may return: none when it is Err(Unauthorized),
\* which it is too when a second identity matches.  Sorted and without
\* repetition, the roles are a set.
AuthorizeUsername(p, username) ==
    {[subject |-> p.identities[i].subject,
      roles |-> {p.identities[i].roles[j] : j \in DOMAIN p.identities[i].roles},
      task |-> p.identities[i].task] :
        i \in {k \in DOMAIN p.identities : MatchingIdentities(p, username) = {k}}}

-----------------------------------------------------------------------------
\* Properties.

\* The loop variable stays in range of the list it walks over.
WorkloadTypeOK ==
    /\ listing \in WorkloadPolicyDocument
    /\ workloadPc \in {"header", "identities", "rejected", "accepted"}
    /\ nextId \in 1 .. Len(listing.identities) + 1
    /\ usernames \subseteq Text /\ subjects \subseteq Text

Differ(p) ==
    \A i, j \in DOMAIN p.identities : p.identities[i].username = p.identities[j].username => i = j

\* What a valid policy is, without regard to the order of anything.
WorkloadSound(p) ==
    /\ WorkloadHeader(p)
    /\ Differ(p)
    /\ \A i \in DOMAIN p.identities : ValidIdentity(p.identities[i])

(***************************************************************************)
(* WorkloadPolicy::validate accepts a file exactly when every identity is  *)
(* in order and no username occurs twice, wherever in the list the two     *)
(* stand: asking that subjects be unique as well refuses nothing more.     *)
(***************************************************************************)
WorkloadVerdictIsExact ==
    /\ workloadPc = "rejected" => ~WorkloadSound(listing)
    /\ workloadPc = "accepted" => WorkloadSound(listing)

(***************************************************************************)
(* Under an accepted policy authorize gives every listed service account   *)
(* one identity and no two of them the same subject, so a token's subject  *)
(* tells which workload it was issued to.                                  *)
(***************************************************************************)
SubjectsAreNotShared ==
    workloadPc = "accepted" =>
        \A i, j \in DOMAIN listing.identities :
            LET mine == AuthorizeUsername(listing, listing.identities[i].username)
                other == AuthorizeUsername(listing, listing.identities[j].username)
            IN  /\ mine # {}
                /\ \A a \in mine, b \in other : a.subject = b.subject => i = j
=============================================================================
