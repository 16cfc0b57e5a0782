----------------------------- MODULE MCPolicies -----------------------------
(* Two requests at a time and three policies saved in all, for one           *)
(* environment or for all of them.                                           *)
EXTENDS Policies, TLC

CONSTANTS q1, q2

\* Requests are alike.
Alike == Permutations(Request)
=============================================================================
