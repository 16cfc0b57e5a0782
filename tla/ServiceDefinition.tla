------------------------- MODULE ServiceDefinition --------------------------
(***************************************************************************)
(* A service definition on its way from .titlis/service.yaml to the        *)
(* deployments it leads to: the parser (internal/scanner/parser.go), the   *)
(* two forms a path may have in YAML and in JSON (model/types.go), and     *)
(* where ItemWorkflow and PromotionWorkflow take paths from.               *)
(*                                                                         *)
(* A definition as it is written is a record: "name" is metadata.name,     *)
(* "sound" stands for the parts checked and not used afterwards, "branch"  *)
(* is gitops.base_branch and "paths" a function from the keys written to   *)
(* their entries.                                                          *)
(***************************************************************************)
EXTENDS Naturals

CONSTANT Branch     \* names of branches

ASSUME BranchAssumption == "main" \in Branch /\ "" \notin Branch

Env == {"dev", "hml", "prd"}

\* An entry is the path alone, or a path and a branch; either may be empty.
Entry == [path : {"", "file"}] \cup [path : {"", "file"}, branch : Branch \cup {""}]

\* UnmarshalYAML and UnmarshalJSON: the path alone leaves the branch empty.
Decode(entry) ==
  [path |-> entry.path, branch |-> IF "branch" \in DOMAIN entry THEN entry.branch ELSE ""]

DecodeAll(paths) == [k \in DOMAIN paths |-> Decode(paths[k])]

Parses(def) ==
  /\ def.sound
  /\ DOMAIN def.paths # {}
  /\ \A k \in DOMAIN def.paths : k \in Env /\ def.paths[k].path # ""

Or(branch, other) == IF branch = "" THEN other ELSE branch

\* Mutant: the paths are filled in before the default is known.
ParseInOrder(def) ==
  [k \in DOMAIN def.paths |->
     [Decode(def.paths[k]) EXCEPT !.branch = Or(@, def.branch)]]

\* The paths of a definition that parses: every one has its branch.
Parse(def) ==
  [k \in DOMAIN def.paths |->
     [Decode(def.paths[k]) EXCEPT !.branch = Or(@, Or(def.branch, "main"))]]

NoPaths == [k \in {} |-> ""]

\* Paths given with a campaign item take the place of those of the mapping.
ItemPaths(given, stored) == IF DOMAIN given = {} THEN stored ELSE DecodeAll(given)

\* The environments deployed, when the cascade reaches all of them.
Deployed(paths) == {e \in Env : e \in DOMAIN paths /\ paths[e].path # ""}

-----------------------------------------------------------------------------
\* The branch that a definition means for an environment: the one closest to it.
Means(def, e) ==
  LET wishes == <<Decode(def.paths[e]).branch, def.branch, "main">>
  IN  wishes[CHOOSE i \in 1..3 : wishes[i] # "" /\ \A j \in 1..(i-1) : wishes[j] = ""]
=============================================================================
