----------------------------- MODULE PolicyMap ------------------------------
(***************************************************************************)
(* MemoryPolicies (internal/repo/memory.go): the policies of one tenant as *)
(* a map from rule and environment to the mode saved, "none" if none is.   *)
(* The environment "" stands for all of them, the rule "*" for every rule. *)
(*                                                                         *)
(* It is the plainest account of what a store of policies promises, and    *)
(* PolicyTable is shown to keep that promise.                              *)
(***************************************************************************)
EXTENDS Naturals

CONSTANTS
  Environment,  \* the environments a policy may be saved for, besides ""
  Mode          \* the modes of a policy, "none" is not one of them

VARIABLE entries

Rule  == {"*", "manifest", "drift"}
Scope == Environment \cup {""}

Init == entries = [k \in Rule \X Scope |-> "none"]

Upsert(r, e, mode) == entries' = [entries EXCEPT ![<<r, e>>] = mode]

Next == \E r \in Rule, e \in Scope, mode \in Mode : Upsert(r, e, mode)

Spec == Init /\ [][Next]_entries

\* Where Get looks, in this order; for the global rule the last two are the first two.
Places(r, e) == << <<r, e>>, <<r, "">>, <<"*", e>>, <<"*", "">> >>

Holds(r, e, i) == entries[Places(r, e)[i]] # "none"

Get(r, e) ==
  IF \E i \in 1..4 : Holds(r, e, i)
  THEN entries[Places(r, e)[CHOOSE i \in 1..4 :
                              Holds(r, e, i) /\ \A j \in 1..(i-1) : ~Holds(r, e, j)]]
  ELSE "none"

\* ListEligibleTenants, whether the tenant is in it.
Eligible(r) ==
  \E k \in {r, "*"} \X Scope : entries[k] \notin {"none", "disabled"}
=============================================================================
