--------------------------- MODULE MCOAuthSession ---------------------------
(***************************************************************************)
(* Two deployments and two refreshes in flight: one of the deployment that *)
(* was left and one of its successor.                                      *)
(***************************************************************************)
EXTENDS OAuthSession, TLC

Symmetry == Permutations(Hosts) \cup Permutations(Slots) \cup Permutations(Timers)
=============================================================================
