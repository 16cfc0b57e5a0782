---------------------------- MODULE MCDiscovery ----------------------------
(* Three workloads of two repositories and one without mapping.             *)
EXTENDS Discovery, TLC

CONSTANTS w1, w2, w3, w4, r1, r2, none

Mapped == (w1 :> r1) @@ (w2 :> r1) @@ (w3 :> r2) @@ (w4 :> none)
=============================================================================
