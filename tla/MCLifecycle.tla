---------------------------- MODULE MCLifecycle ----------------------------
(***************************************************************************)
(* Instances of Lifecycle for TLC.                                         *)
(***************************************************************************)
EXTENDS Lifecycle

\* Every combination of the switches, and each way to be invalid.
AllSettings == {e \in Settings : e.ca => e.oidc = "true"}

=============================================================================
