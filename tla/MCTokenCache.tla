---------------------------- MODULE MCTokenCache ----------------------------
(* Two tenants, two callers, two tokens each.                                *)
EXTENDS TokenCache, TLC

CONSTANTS t1, t2, c1, c2

\* Tenants are alike, and so are callers.
Alike == Permutations(Tenant) \cup Permutations(Caller)
=============================================================================
