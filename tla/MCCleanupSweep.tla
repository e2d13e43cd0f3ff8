-------------------------- MODULE MCCleanupSweep --------------------------
(* Instances of CleanupSweep: lists of more pages than an exchange visits.  *)
EXTENDS CleanupSweep

ThreeNames == 1 .. 3
=============================================================================
