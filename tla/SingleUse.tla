----------------------------- MODULE SingleUse -----------------------------
(***************************************************************************)
(* What the trait ReplayLedger of src/replay.rs promises its callers,      *)
(* without leases, clocks or an API server.  A caller is granted an        *)
(* assertion when use_once has made its claim, and use_once returns Ok to  *)
(* it some time later; a caller that goes away, or whose replica stops,    *)
(* forfeits its grant.  No assertion is granted while another caller holds *)
(* it or after use_once has returned Ok for it.                            *)
(***************************************************************************)
EXTENDS Naturals

CONSTANTS Caller, Assertion

VARIABLES
    holding,  \* per caller: the assertion it was granted, if any, as a set
    used      \* per assertion: how often use_once returned Ok

vars == <<holding, used>>

Init ==
    /\ holding = [c \in Caller |-> {}]
    /\ used = [a \in Assertion |-> 0]

Grant(c, a) ==
    /\ used[a] = 0
    /\ \A d \in Caller : a \notin holding[d]
    /\ holding' = [holding EXCEPT ![c] = {a}]
    /\ UNCHANGED used

Use(c, a) ==
    /\ a \in holding[c]
    /\ used' = [used EXCEPT ![a] = @ + 1]
    /\ holding' = [holding EXCEPT ![c] = {}]

Forfeit(lost) ==
    /\ holding' = [c \in Caller |-> IF c \in lost THEN {} ELSE holding[c]]
    /\ UNCHANGED used

Next ==
    \/ \E c \in Caller, a \in Assertion : Grant(c, a) \/ Use(c, a)
    \/ \E lost \in SUBSET Caller : Forfeit(lost)

Spec == Init /\ [][Next]_vars
=============================================================================
