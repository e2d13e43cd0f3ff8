-------------------------- MODULE MCReplayLedger --------------------------
(***************************************************************************)
(* Instance of ReplayLedger for TLC: two replicas with one handler each.   *)
(***************************************************************************)
EXTENDS ReplayLedger, TLC

Processes == Permutations(Handler)
OwnReplica == [h \in Handler |-> h]

\* "old" and "new" share a lease, and "new" is valid when the record of "old"
\* expires, to the tick: it is there to be reclaimed, or to be cleaned up
\* meanwhile by the exchange of "other", whose own lease is another one.
Contenders == {"old", "new", "other"}
ContenderName == [old |-> 1, new |-> 1, other |-> 2]
ContenderIssue == [old |-> 0, new |-> 8, other |-> 8]
ContenderExpiry == [old |-> 0, new |-> 8, other |-> 8]
=============================================================================
