---------------------------- MODULE PolicyTable -----------------------------
(***************************************************************************)
(* PGPolicies (internal/repo/postgres.go): the policies of one tenant as   *)
(* rows of a table, with NULL for the environment "".                      *)
(***************************************************************************)
EXTENDS Naturals

CONSTANTS
  Environment,
  Mode,
  Null

ASSUME EnvironmentAssumption == "" \notin Environment
ASSUME ModeAssumption        == "none" \notin Mode
ASSUME NullAssumption        == Null \notin Environment \cup {""}

VARIABLE rows

Rule  == {"*", "manifest", "drift"}
Scope == Environment \cup {""}
Row   == [rule : Rule, environment : Environment \cup {Null}, mode : Mode]

Empty == rows = {}

Coalesce(environment) == IF environment = Null THEN "" ELSE environment
Nullable(e)           == IF e = "" THEN Null ELSE e

\* Mutant: the environment is not part of the key.
ConflictsAcross(row, r, e) == row.rule = r

\* ON CONFLICT (tenant_id, rule_id, COALESCE(environment, '')).
Conflicts(row, r, e) == row.rule = r /\ Coalesce(row.environment) = e

Upsert(r, e, mode) ==
  rows' = {row \in rows : ~Conflicts(row, r, e)}
            \cup {[rule |-> r, environment |-> Nullable(e), mode |-> mode]}

\* Mutant: NULLS FIRST.
PlaceNullsFirst(row, r) ==
  2 * (IF row.rule = r THEN 0 ELSE 1) + (IF row.environment = Null THEN 0 ELSE 1)

\* ORDER BY: the rule asked for before the global one, NULLS LAST.
Place(row, r) ==
  2 * (IF row.rule = r THEN 0 ELSE 1) + (IF row.environment = Null THEN 1 ELSE 0)

Get(r, e) ==
  LET candidates == {row \in rows : row.rule \in {r, "*"} /\ row.environment \in {e, Null}}
  IN  IF candidates = {} THEN "none"
      ELSE (CHOOSE row \in candidates :
              \A other \in candidates : Place(row, r) <= Place(other, r)).mode

Eligible(r) == \E row \in rows : row.rule \in {r, "*"} /\ row.mode # "disabled"

-----------------------------------------------------------------------------
(* The table as a map.                                                     *)

ModesAt(r, e) == {row.mode : row \in {x \in rows : x.rule = r /\ x.environment = Nullable(e)}}

\* A key with rows of two modes is none that a map has.
Entries ==
  [k \in Rule \X Scope |->
     LET modes == ModesAt(k[1], k[2])
     IN  IF modes = {} THEN "none"
         ELSE IF \E mode \in Mode : modes = {mode} THEN CHOOSE mode \in Mode : modes = {mode}
         ELSE "ambiguous"]

Map == INSTANCE PolicyMap WITH entries <- Entries

\* Whatever the table is asked it answers as the map of local development does
\* (postgres.go:189-203, 231-239; memory.go:134-153, 165-180).
AnswersAsMap ==
  \A r \in Rule :
    /\ \A e \in Scope : Get(r, e) = Map!Get(r, e)
    /\ Eligible(r) = Map!Eligible(r)
=============================================================================
