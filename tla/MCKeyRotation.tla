--------------------------- MODULE MCKeyRotation ---------------------------
(***************************************************************************)
(* Instances of KeyRotation for TLC.                                       *)
(***************************************************************************)
EXTENDS KeyRotation, TLC

Processes == Permutations(Replica) \cup Permutations(Kid) \cup Permutations(Tool)
=============================================================================
