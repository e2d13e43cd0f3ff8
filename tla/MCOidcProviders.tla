-------------------------- MODULE MCOidcProviders --------------------------
(***************************************************************************)
(* Instances of OidcProviders for TLC.                                     *)
(***************************************************************************)
EXTENDS OidcProviders, TLC

\* Requests and key IDs are interchangeable; so are providers.
RequestsAndKids == Permutations(Request) \cup Permutations(Kid)
Providers == Permutations(Provider)
=============================================================================
