----------------------------- MODULE MCService -----------------------------
(***************************************************************************)
(* An instance of Service: both platforms, two ports, a remote whose       *)
(* default branch is not the first of its list.                            *)
(***************************************************************************)
EXTENDS Service, TLC

CONSTANTS p1, p2

MCBranches == <<"develop", "main">>

=============================================================================
