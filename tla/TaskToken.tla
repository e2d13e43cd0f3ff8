----------------------------- MODULE TaskToken -----------------------------
(***************************************************************************)
(* How old a workload token is when it leaves: exchange() of               *)
(* src/workload.rs with the API calls of use_once in src/replay.rs.        *)
(*                                                                         *)
(* exchange() reads `now' once, before the claim, and puts it into iat and *)
(* exp of a token it signs after the claim and after the clean-up that     *)
(* follows it.  What other handlers do to the ledger shows in the answers  *)
(* to this handler's calls, so one exchange is enough, and its time is     *)
(* counted in seconds from its arrival.                                    *)
(***************************************************************************)
EXTENDS Integers

CONSTANTS
    CallTimeout,   \* timeout of the HTTP clients for the API server
    TokenTtl,      \* token_ttl
    Retention,     \* LEASE_RETENTION_SECONDS
    MaxDuration,   \* MAX_LEASE_DURATION_SECONDS
    SourceExp      \* exp claims of source tokens

ASSUME TaskTokenAssumption ==
    /\ {CallTimeout, TokenTtl, Retention, MaxDuration} \subseteq Nat
    /\ SourceExp \subseteq Int

VARIABLES
    time,      \* seconds since the request arrived
    pc,        \* the await the handler is suspended at, or its outcome
    due,       \* when the call in flight times out
    source,    \* exp of the source token
    now,       \* `now' of exchange()
    task,      \* the identity has a task binding
    attempt,   \* loop counter of reclaim_expired
    pages      \* pages clean-up may still list

vars == <<time, pc, due, source, now, task, attempt, pages>>

Call == {"review", "create", "get", "recreate", "update", "list", "recheck", "delete"}
Outcome == {"issued", "denied", "failed"}

Init ==
    /\ time = 0 /\ now = 0
    /\ pc = "review" /\ due = CallTimeout
    /\ source \in SourceExp
    /\ task \in BOOLEAN
    /\ attempt = 0 /\ pages = 0

\* The next call is sent.
Await(call) ==
    /\ pc' = call
    /\ due' = time + CallTimeout
    /\ UNCHANGED <<time, source, task>>

\* exchange() returns.
Return(outcome) ==
    /\ pc' = outcome
    /\ UNCHANGED <<time, due, source, task>>

\* task_keys.sign or keys.sign, which finds its key current or not.
Sign == Return("issued") \/ Return("failed")

-----------------------------------------------------------------------------
(* exchange() up to the claim.                                              *)

\* The TokenReview refuses, is unavailable, or names an unmapped account.
ReviewRefused ==
    /\ pc = "review"
    /\ Return("denied") \/ Return("failed")
    /\ UNCHANGED <<now, attempt, pages>>

\* A plain identity: signed at once.
ReviewedPlain ==
    /\ pc = "review"
    /\ ~task
    /\ now' = time
    /\ Sign
    /\ UNCHANGED <<attempt, pages>>

\* retained_until(exp, now): the source may be too long-lived for a record.
RetentionInRange == source + Retention - time \in 1 .. MaxDuration

\* A task identity: the source's claims are read and use_once is called.
ReviewedTask ==
    /\ pc = "review"
    /\ task
    /\ now' = time
    /\ \/ Return("denied")     \* they are not usable, or exp <= now
       \/ source > time /\ ~RetentionInRange /\ Return("failed")
       \/ source > time /\ RetentionInRange /\ Await("create")
    /\ UNCHANGED <<attempt, pages>>

-----------------------------------------------------------------------------
(* use_once: claim, then clean-up.                                          *)

\* A call of the claim ends with an error: ReplayError::Unavailable.
ClaimFails ==
    /\ pc \in {"create", "get", "recreate", "update"}
    /\ Return("failed")
    /\ UNCHANGED <<now, attempt, pages>>

BeginCleanup == Await("list") /\ pages' = 2 /\ UNCHANGED <<now, attempt>>

Created ==
    /\ pc \in {"create", "recreate"}
    /\ BeginCleanup

\* The record exists.
CreateConflict ==
    /\ pc = "create"
    /\ Await("get")
    /\ UNCHANGED <<now, attempt, pages>>

GetServed ==
    /\ pc = "get"
    /\ \/ Await("recreate")     \* it is gone
       \/ Return("denied")      \* it is current: Replayed
       \/ Await("update")       \* it has expired
    /\ UNCHANGED <<now, attempt, pages>>

Updated ==
    /\ pc = "update"
    /\ BeginCleanup

\* Faulty variant: a conflict is retried for as long as it takes.
UpdateConflictForever ==
    /\ pc = "update"
    /\ Await("get")
    /\ UNCHANGED <<now, attempt, pages>>

\* Somebody else wrote it: once more, then Unavailable.
UpdateConflict ==
    /\ pc = "update"
    /\ \/ attempt = 0 /\ Await("get") /\ attempt' = 1
       \/ attempt = 1 /\ Return("failed") /\ UNCHANGED attempt
    /\ UNCHANGED <<now, pages>>

\* The page is done: the next one, or the token.
PageDone ==
    \/ pages > 1 /\ Await("list") /\ pages' = pages - 1
    \/ Sign /\ UNCHANGED pages

ListServed ==
    /\ pc = "list"
    /\ \/ Await("recheck") /\ UNCHANGED pages
       \/ PageDone
    /\ UNCHANGED <<now, attempt>>

\* Clean-up is best effort: its errors end it and not the exchange.
ListFails ==
    /\ pc = "list"
    /\ Sign
    /\ UNCHANGED <<now, attempt, pages>>

RecheckServed ==
    /\ pc = "recheck"
    /\ \/ Await("delete") /\ UNCHANGED pages
       \/ PageDone
    /\ UNCHANGED <<now, attempt>>

\* Whatever the answer.
DeleteServed ==
    /\ pc = "delete"
    /\ Sign
    /\ UNCHANGED <<now, attempt, pages>>

-----------------------------------------------------------------------------
\* A call is over, answered or not, when its timeout is.
Tick ==
    /\ pc \in Call
    /\ time < due
    /\ time' = time + 1
    /\ UNCHANGED <<pc, due, source, now, task, attempt, pages>>

Step ==
    \/ ReviewRefused \/ ReviewedPlain \/ ReviewedTask
    \/ ClaimFails \/ Created \/ CreateConflict \/ GetServed \/ Updated \/ UpdateConflict
    \/ ListServed \/ ListFails \/ RecheckServed \/ DeleteServed

Next == Step \/ Tick

Spec == Init /\ [][Next]_vars

-----------------------------------------------------------------------------
TypeOK ==
    /\ {time, now} \subseteq Nat /\ due \in Nat
    /\ pc \in Call \union Outcome
    /\ source \in SourceExp /\ task \in BOOLEAN
    /\ attempt \in {0, 1} /\ pages \in 0 .. 2

(***************************************************************************)
(* A workload token has most of its life ahead when exchange() returns it, *)
(* although its exp was fixed before the claim: at most ten calls lie      *)
(* between, five that claim and five that clean up, and each has a         *)
(* timeout.  (120 s less 50 s with the source's numbers.)                  *)
(***************************************************************************)
TokensAreYoung ==
    pc = "issued" => (now + TokenTtl) - time >= TokenTtl - 10 * CallTimeout
=============================================================================
