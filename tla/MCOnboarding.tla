---------------------------- MODULE MCOnboarding ----------------------------
(* Two tenants and two callers; the second token of the newcomer sees one    *)
(* repository more than the first, and its definition is on master.          *)
EXTENDS Onboarding, TLC

CONSTANTS t1, t2, c1, c2, r1, r2

Seen == (0 :> {}) @@ (1 :> {r1}) @@ (2 :> {r1, r2})

\* Callers are alike.
Alike == Permutations(Caller)

\* What a caller was answered matters to its discovery only.
View == <<token, noticed, cache, call, raced, own,
          [c \in Caller |-> IF stage[c] = "idle" THEN NoAnswer ELSE answer[c]]>>
=============================================================================
