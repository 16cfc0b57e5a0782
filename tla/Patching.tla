------------------------------ MODULE Patching ------------------------------
(***************************************************************************)
(* The patch of a manifest and its validation (internal/patch), as         *)
(* EnvDeployWorkflow uses them: recommended content is computed by         *)
(* ApplyHpaRecommendation from the manifest fetched, given content is      *)
(* taken as it is, and either is validated against the manifest fetched.   *)
(*                                                                         *)
(* A manifest is the sequence of its YAML documents.  Of a document only   *)
(* what the two functions look at is kept: its kind, what its spec is, the *)
(* replica bounds (0 when absent or not a number) and the CPU metric.      *)
(***************************************************************************)
EXTENDS Integers, Sequences

CONSTANTS
  Manifests,   \* the manifests that may be fetched or given
  Recos        \* the recommendations

Kind   == {"hpa", "other", "broken"}      \* "broken" does not parse
Shape  == {"mapping", "other", "absent"}  \* what is under the key spec
Doc    == [kind : Kind, spec : Shape, min : Nat, max : Nat, metric : BOOLEAN, cpu : Nat]
Reco   == [off : BOOLEAN, min : Nat, max : Nat, cpu : Nat]
NoReco == [off |-> FALSE, min |-> 0, max |-> 0, cpu |-> 0]

ASSUME ManifestsAssumption == Manifests \subseteq Seq(Doc)
ASSUME RecosAssumption     == Recos \subseteq Reco

VARIABLES
  at,        \* fetched, patched, or one of the ends: committed, refused
  current,   \* the manifest on the base branch
  given,     \* is content given?
  reco,      \* the recommendation
  new        \* the content to commit

patchVars == <<at, current, given, reco, new>>

-----------------------------------------------------------------------------
(* apply.go                                                                *)

AllParse(m) == \A i \in DOMAIN m : m[i].kind # "broken"

\* Metrics are set only where there is one.
patchHPADocument(doc, r) ==
  [doc EXCEPT !.min = r.min, !.max = r.max, !.cpu = IF doc.metric THEN r.cpu ELSE @]

Patchable(doc) == doc.kind = "hpa" /\ doc.spec = "mapping"

CanApply(m, r) ==
  /\ ~r.off
  /\ r.min # 0 \/ r.max # 0 \/ r.cpu # 0
  /\ AllParse(m)
  /\ \E i \in DOMAIN m : Patchable(m[i])

\* Mutants: documents that are no HPA are left out; only the first document is
\* patched.
ApplyDroppingOthers(m, r) ==
  SelectSeq([i \in DOMAIN m |-> IF Patchable(m[i]) THEN patchHPADocument(m[i], r) ELSE m[i]],
            LAMBDA doc : doc.kind = "hpa")

ApplyToFirstDocument(m, r) ==
  [i \in DOMAIN m |-> IF i = 1 /\ Patchable(m[i]) THEN patchHPADocument(m[i], r) ELSE m[i]]

\* Every HPA of the manifest is patched.
ApplyHpaRecommendation(m, r) ==
  [i \in DOMAIN m |-> IF Patchable(m[i]) THEN patchHPADocument(m[i], r) ELSE m[i]]

-----------------------------------------------------------------------------
(* validate.go                                                             *)

\* Reading stops at a document that does not parse.
ReadableDocs(m) == {i \in DOMAIN m : \A j \in 1..i : m[j].kind # "broken"}

HPAs(m) == {i \in ReadableDocs(m) : m[i].kind = "hpa" /\ m[i].spec # "absent"}

\* Of the HPAs only the first is looked at; a spec that is no mapping has none of
\* the keys.
First(m) == CHOOSE i \in HPAs(m) : \A j \in HPAs(m) : i <= j

extractHPA(m) ==
  LET doc == m[First(m)]
  IN  IF doc.spec = "mapping"
      THEN [min |-> doc.min, max |-> doc.max, cpu |-> IF doc.metric THEN doc.cpu ELSE 0]
      ELSE [min |-> 0, max |-> 0, cpu |-> 0]

SafeFloor == 30

\* Mutant: maxReplicas is not compared.
ValidateMinOnly(cur, nu) ==
  /\ HPAs(cur) # {} /\ HPAs(nu) # {}
  /\ extractHPA(nu).min >= extractHPA(cur).min
  /\ ~(extractHPA(nu).cpu > 0 /\ extractHPA(nu).cpu < SafeFloor)

ValidateNeverReduce(cur, nu) ==
  /\ HPAs(cur) # {} /\ HPAs(nu) # {}
  /\ extractHPA(nu).min >= extractHPA(cur).min
  /\ extractHPA(nu).max >= extractHPA(cur).max
  /\ ~(extractHPA(nu).cpu > 0 /\ extractHPA(nu).cpu < SafeFloor)

-----------------------------------------------------------------------------
(* EnvDeployWorkflow between the fetch and the branch.                     *)

PatchInit ==
  /\ at = "fetched"
  /\ current \in Manifests
  /\ \/ given = TRUE /\ reco = NoReco
     \/ given = FALSE /\ reco \in Recos
  /\ new = << >>

Patch ==
  /\ at = "fetched"
  /\ \/ /\ given /\ new' \in Manifests \ {<< >>}
        /\ at' = "patched"
     \/ /\ ~given /\ CanApply(current, reco)
        /\ new' = ApplyHpaRecommendation(current, reco)
        /\ at' = "patched"
     \/ /\ ~given /\ ~CanApply(current, reco)
        /\ at' = "refused"
        /\ UNCHANGED new
  /\ UNCHANGED <<current, given, reco>>

ValidatePatch ==
  /\ at = "patched"
  /\ at' = IF ValidateNeverReduce(current, new) THEN "committed" ELSE "refused"
  /\ UNCHANGED <<current, given, reco, new>>

PatchNext == Patch \/ ValidatePatch

PatchSpec == PatchInit /\ [][PatchNext]_patchVars

-----------------------------------------------------------------------------
(* Properties.                                                             *)

Committed == at = "committed"

\* A manifest of one well-formed HPA, whatever other documents it has.
Single(m) ==
  /\ AllParse(m)
  /\ \E i \in DOMAIN m :
       /\ m[i].kind = "hpa" /\ m[i].spec = "mapping"
       /\ \A j \in DOMAIN m : m[j].kind = "hpa" => j = i

HpaOf(m) == m[CHOOSE i \in DOMAIN m : m[i].kind = "hpa"]

\* Where there is one HPA before and after, neither replica bound of it is ever
\* lowered, wherever among the documents it stands, and its CPU target is not
\* below the safe floor (validate.go:24-34).
SingleNeverReduced ==
  Committed /\ Single(current) /\ Single(new) =>
    /\ HpaOf(new).min >= HpaOf(current).min
    /\ HpaOf(new).max >= HpaOf(current).max
    /\ HpaOf(new).metric /\ HpaOf(new).cpu > 0 => HpaOf(new).cpu >= SafeFloor

\* A recommended patch changes nothing but HPAs: every document is still there,
\* in its place and of its kind, and all that is not an HPA is as it was
\* (apply.go:37-58).
OnlyHPAsTouched ==
  Committed /\ ~given =>
    /\ Len(new) = Len(current)
    /\ \A i \in DOMAIN current : current[i].kind # "hpa" => new[i] = current[i]

\* What is committed has an HPA with the recommended bounds, and applying the
\* same recommendation to the result changes nothing, so an attempt repeated
\* on content already merged is harmless (apply.go:61-107).
PatchSettles ==
  Committed /\ ~given =>
    /\ \E i \in DOMAIN new : new[i].kind = "hpa" /\ new[i].min = reco.min
                                                 /\ new[i].max = reco.max
    /\ ApplyHpaRecommendation(new, reco) = new

\* "ensures the new YAML does not reduce min/max replicas or target CPU compared
\* to the current YAML" (validate.go:16-17), for every HPA the patch touches.
NothingReduced ==
  Committed /\ ~given =>
    \A i \in DOMAIN current : Patchable(current[i]) =>
      /\ new[i].min >= current[i].min
      /\ new[i].max >= current[i].max
      /\ new[i].metric => new[i].cpu >= current[i].cpu
=============================================================================
