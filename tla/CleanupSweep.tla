--------------------------- MODULE CleanupSweep ---------------------------
(***************************************************************************)
(* Clean-up of the replay ledger over an endless supply of exchanges:      *)
(* cleanup_one of src/replay.rs.                                           *)
(*                                                                         *)
(* Every claim is followed by a clean-up of at most MaxPages pages and one *)
(* deletion.  Where the next clean-up goes on is the replica's continue    *)
(* token, which all its handlers read, move and overwrite without holding  *)
(* anything across their API calls.  ReplayLedger shows that clean-up      *)
(* takes nothing too early; this module is about whether it gets           *)
(* everywhere.                                                             *)
(*                                                                         *)
(* Time is left out: a record is live until it expires, and what a handler *)
(* knows of time is `judged', the records that had expired at its `now'.   *)
(***************************************************************************)
EXTENDS Integers, FiniteSets, FiniteSetsExt

CONSTANTS
    Name,       \* lease names, as numbers in the API's list order
    Handler,    \* exchange futures of one replica
    PageSize,   \* CLEANUP_PAGE_SIZE
    MaxPages    \* MAX_CLEANUP_PAGES_PER_EXCHANGE

ASSUME SweepAssumption ==
    /\ Name \subseteq Nat \ {0} /\ IsFiniteSet(Name)
    /\ {PageSize, MaxPages} \subseteq Nat \ {0}

VARIABLES
    record,         \* the ledger: per name, absent, live or expired
    continueToken,  \* KubernetesLeaseReplayLedger.cleanup_continue
    handler,        \* per handler: the state of its future
    calm            \* no call fails, no client leaves, nothing restarts

sweepVars == <<record, continueToken, handler, calm>>

NoToken == 0

\* Locals of cleanup_one at its awaits.
Task == [pc     : {"idle", "list", "recheck", "delete"},
         cursor : Name \cup {NoToken},   \* token of the page to list
         next   : Name \cup {NoToken},   \* next_continue of the page listed
         pages  : 0 .. MaxPages,         \* pages it may still list
         judged : SUBSET Name,           \* records expired(_, now) holds for
         victim : Name \cup {0}]

Idle == [pc |-> "idle", cursor |-> NoToken, next |-> NoToken, pages |-> 0,
         judged |-> {}, victim |-> 0]

Present == {n \in Name : record[n] # "absent"}
ExpiredNames == {n \in Name : record[n] = "expired"}

-----------------------------------------------------------------------------
(* The API server.                                                          *)

Remaining(cursor) == {n \in Present : n > cursor}

\* The items of a list call: the first PageSize records behind the token.
Page(cursor) ==
    {n \in Remaining(cursor) :
        Cardinality({m \in Remaining(cursor) : m < n}) < PageSize}

\* metadata.continue of its response.
NextToken(cursor) ==
    IF Page(cursor) = Remaining(cursor) THEN NoToken ELSE Max(Page(cursor))

\* A new or renewed record is no longer the one that others saw expire.
Replace(n, state, tasks) ==
    /\ record' = [record EXCEPT ![n] = state]
    /\ handler' = [h \in Handler |->
                      [tasks[h] EXCEPT !.judged = tasks[h].judged \ {n}]]

-----------------------------------------------------------------------------
(* cleanup_one.                                                             *)

(***************************************************************************)
(* use_once made its claim, by creating the record or by reclaiming an     *)
(* expired one, and calls cleanup_one with the time it started at.         *)
(***************************************************************************)
Begin(h, n) ==
    /\ handler[h].pc = "idle"
    /\ record[n] # "live"
    /\ Replace(n, "live", [handler EXCEPT ![h] =
           [Idle EXCEPT !.pc = "list", !.cursor = continueToken,
                        !.pages = MaxPages, !.judged = ExpiredNames]])
    /\ UNCHANGED <<continueToken, calm>>

\* Faulty variant: the page counter is not looked at.
GoOnUnlimited(h, next) ==
    handler' = [handler EXCEPT ![h] =
                   IF next = NoToken
                   THEN Idle
                   ELSE [handler[h] EXCEPT !.pc = "list", !.cursor = next,
                             !.next = NoToken, !.victim = 0, !.pages = @ - 1]]

\* The page is done: list the next one, or return.
GoOn(h, next) ==
    handler' = [handler EXCEPT ![h] =
                   IF next = NoToken \/ handler[h].pages <= 1
                   THEN Idle
                   ELSE [handler[h] EXCEPT !.pc = "list", !.cursor = next,
                             !.next = NoToken, !.victim = 0, !.pages = @ - 1]]

\* Faulty variant: a clean-up that stops at its last page forgets the rest.
PageServedForgets(h) ==
    /\ handler[h].pc = "list"
    /\ LET cursor == handler[h].cursor
           next == NextToken(cursor)
           found == Page(cursor) \cap handler[h].judged
       IN  /\ continueToken' = IF handler[h].pages <= 1 THEN NoToken ELSE next
           /\ \/ /\ found # {}
                 /\ handler' = [handler EXCEPT ![h] =
                      [@ EXCEPT !.pc = "recheck", !.victim = Min(found), !.next = next]]
              \/ found = {} /\ GoOn(h, next)
    /\ UNCHANGED <<record, calm>>

\* The token moves before anything is deleted; take(1) of the expired items.
PageServed(h) ==
    /\ handler[h].pc = "list"
    /\ LET cursor == handler[h].cursor
           next == NextToken(cursor)
           found == Page(cursor) \cap handler[h].judged
       IN  /\ continueToken' = next
           /\ \/ /\ found # {}
                 /\ handler' = [handler EXCEPT ![h] =
                      [@ EXCEPT !.pc = "recheck", !.victim = Min(found), !.next = next]]
              \/ found = {} /\ GoOn(h, next)
    /\ UNCHANGED <<record, calm>>

\* Any error: the token may be too old, so the next sweep starts anew.
PageFails(h) ==
    /\ ~calm
    /\ handler[h].pc = "list"
    /\ continueToken' = NoToken
    /\ handler' = [handler EXCEPT ![h] = Idle]
    /\ UNCHANGED <<record, calm>>

\* The record is still there and expired.
VictimExpired(h) ==
    /\ handler[h].pc = "recheck"
    /\ handler[h].victim \in handler[h].judged
    /\ handler' = [handler EXCEPT ![h] = [@ EXCEPT !.pc = "delete"]]
    /\ UNCHANGED <<record, continueToken, calm>>

\* It was deleted or renewed meanwhile, or the call fails: `continue'.
VictimSkipped(h) ==
    /\ handler[h].pc = "recheck"
    /\ ~calm \/ handler[h].victim \notin handler[h].judged
    /\ GoOn(h, handler[h].next)
    /\ UNCHANGED <<record, continueToken, calm>>

\* Deleted under the resourceVersion of the re-check.
VictimDeleted(h) ==
    /\ handler[h].pc = "delete"
    /\ handler[h].victim \in handler[h].judged
    /\ Replace(handler[h].victim, "absent", [handler EXCEPT ![h] = Idle])
    /\ UNCHANGED <<continueToken, calm>>

\* The version is no longer current, or the call fails: ignored.
VictimKept(h) ==
    /\ handler[h].pc = "delete"
    /\ ~calm \/ handler[h].victim \notin handler[h].judged
    /\ handler' = [handler EXCEPT ![h] = Idle]
    /\ UNCHANGED <<record, continueToken, calm>>

-----------------------------------------------------------------------------
(* The environment.                                                         *)

\* The client goes away and the future is dropped where it is suspended.
Leave(h) ==
    /\ ~calm
    /\ handler[h].pc # "idle"
    /\ handler' = [handler EXCEPT ![h] = Idle]
    /\ UNCHANGED <<record, continueToken, calm>>

Restart ==
    /\ ~calm
    /\ handler' = [h \in Handler |-> Idle]
    /\ continueToken' = NoToken
    /\ UNCHANGED <<record, calm>>

Expire(n) ==
    /\ record[n] = "live"
    /\ record' = [record EXCEPT ![n] = "expired"]
    /\ UNCHANGED <<continueToken, handler, calm>>

WeatherChanges ==
    /\ calm' = ~calm
    /\ UNCHANGED <<record, continueToken, handler>>

-----------------------------------------------------------------------------
SweepInit ==
    /\ record \in [Name -> {"absent", "expired"}]
    /\ continueToken = NoToken
    /\ handler = [h \in Handler |-> Idle]
    /\ calm = FALSE

Respond(h) ==
    \/ PageServed(h) \/ VictimExpired(h) \/ VictimSkipped(h)
    \/ VictimDeleted(h) \/ VictimKept(h)

Exchange == \E h \in Handler, n \in Name : Begin(h, n)

SweepNext ==
    \/ Exchange
    \/ \E h \in Handler : Respond(h) \/ PageFails(h) \/ Leave(h)
    \/ \E n \in Name : Expire(n)
    \/ Restart
    \/ WeatherChanges

(***************************************************************************)
(* Calls end (the client has a timeout), and there are always more         *)
(* exchanges: clean-up does nothing by itself.                             *)
(***************************************************************************)
Fairness ==
    /\ \A h \in Handler : WF_sweepVars(Respond(h))
    /\ WF_sweepVars(Exchange)

Sweep == SweepInit /\ [][SweepNext]_sweepVars

FairSweep == Sweep /\ Fairness

-----------------------------------------------------------------------------
\* Types, and the bound on clean-up: no exchange is at a page beyond its last.
SweepTypeOK ==
    /\ record \in [Name -> {"absent", "live", "expired"}]
    /\ continueToken \in Name \cup {NoToken}
    /\ handler \in [Handler -> Task]
    /\ \A h \in Handler : handler[h].pc # "idle" => handler[h].pages > 0
    /\ calm \in BOOLEAN

(***************************************************************************)
(* expired(_, now) is computed before the calls of a clean-up and acted on *)
(* after them: what a handler took for expired is still expired, because a *)
(* renewed record has another resourceVersion.                             *)
(***************************************************************************)
JudgedHaveExpired ==
    \A h \in Handler : handler[h].judged \subseteq ExpiredNames

\* A victim lies on the page that was listed, and the page lies between the
\* token it was listed with and the token that was returned: lists move on.
VictimsAreListed ==
    \A h \in Handler :
        handler[h].pc \in {"recheck", "delete"} =>
            /\ handler[h].cursor < handler[h].victim
            /\ handler[h].next # NoToken => handler[h].victim <= handler[h].next

\* The inductive invariant of clean-up: its bounds, and that nothing a handler
\* still believes of the ledger is out of date.
SweepIndInv ==
    /\ SweepTypeOK
    /\ JudgedHaveExpired
    /\ VictimsAreListed

(***************************************************************************)
(* The token moves "before deletion", so what it leaves behind is out of   *)
(* sight until the next sweep: it passes a record that has expired, by     *)
(* moving on or by starting over, only if the handler that moves it goes   *)
(* on to delete that record or an earlier one.                             *)
(***************************************************************************)
TokenPassesVictims ==
    [][\A h \in Handler, n \in Name :
          /\ PageServed(h)
          /\ n \in handler[h].judged
          /\ n > handler[h].cursor
          /\ continueToken' = NoToken \/ n <= continueToken'
          => handler'[h].pc = "recheck" /\ handler'[h].victim <= n]_sweepVars

\* The PageSize - 1 records listed just before n.
Neighbours(n) ==
    {m \in Present : m < n /\ Cardinality({k \in Present : m <= k /\ k < n}) < PageSize}

\* n is the first expired record of any page it can be on.
FirstOfItsPage(n) ==
    /\ record[n] = "expired"
    /\ Neighbours(n) \cap ExpiredNames = {}

(***************************************************************************)
(* "each successful exchange makes bounded, eventual progress even when    *)
(* the first page contains only unexpired records": once calls succeed, no *)
(* record stays behind that is the first expired one of its page, whatever *)
(* page that is and however the handlers overwrite each other's token.     *)
(***************************************************************************)
SweepReachesEveryPage ==
    <>[]calm => \A n \in Name : []<>~FirstOfItsPage(n)

=============================================================================
