------------------------------ MODULE Discovery ------------------------------
(***************************************************************************)
(* DiscoverDriftWorkflow (internal/workflow/discover.go): the daily run    *)
(* that turns the open findings of one rule into campaigns, one for each   *)
(* repository, within the tenant's max_prs_per_day.                        *)
(*                                                                         *)
(* A child workflow is started under an id; a second start under the id of *)
(* a child of the same parent is refused, and the code does not look at    *)
(* the answer.                                                             *)
(***************************************************************************)
EXTENDS Naturals, FiniteSets

CONSTANTS
  Workload,
  Repo,
  RepoOf,     \* the mapped repository of a workload, or NoRepo
  NoRepo,
  Cap,        \* the values max_prs_per_day may have
  MaxRuns     \* bound on runs, one a day

ASSUME WorkloadAssumption == IsFiniteSet(Workload)
ASSUME RepoOfAssumption   == NoRepo \notin Repo /\ RepoOf \in [Workload -> Repo \cup {NoRepo}]
ASSUME CapAssumption      == Cap \subseteq Nat \ {0}
ASSUME MaxRunsAssumption  == MaxRuns \in Nat

VARIABLES
  at,         \* the step of the run
  policy,     \* PolicyOutput: disabled or not, MaxPRsPerDay
  found,      \* findings.Items of the run
  todo,       \* findings whose mapping is not resolved yet
  groups,     \* repoGroups
  orphans,    \* workloads reported, or tried to be, as having no mapping
  left,       \* groups not looked at yet by the launching loop
  launched,   \* items the loop has counted
  started,    \* items of the campaign that runs under this run's id
  runs

vars == <<at, policy, found, todo, groups, orphans, left, launched, started, runs>>

Step   == {"idle", "policy", "list", "resolve", "launch", "announce"}
Policy == [enabled : BOOLEAN, cap : Cap]
Empty  == [r \in Repo |-> {}]

Init ==
  /\ at = "idle"
  /\ policy \in Policy
  /\ found = {} /\ todo = {}
  /\ groups = Empty
  /\ orphans = {}
  /\ left = {}
  /\ launched = 0
  /\ started = {}
  /\ runs = 0

-----------------------------------------------------------------------------
(* The workflow, from one activity to the next.                            *)

Fire ==
  /\ at = "idle"
  /\ runs < MaxRuns
  /\ at' = "policy"
  /\ runs' = runs + 1
  /\ found' = {} /\ todo' = {}
  /\ groups' = Empty
  /\ orphans' = {}
  /\ left' = {}
  /\ launched' = 0
  /\ started' = {}
  /\ UNCHANGED policy

Goes(step) == at' = step /\ UNCHANGED <<policy, groups, orphans, left, launched, started,
                                       runs>>

\* The policy of the day, whatever people have made of it; an error ends the run.
GetPolicy ==
  /\ at = "policy"
  /\ policy' \in Policy
  /\ at' \in {"list", "idle"}
  /\ at' = "list" => policy'.enabled
  /\ UNCHANGED <<found, todo, groups, orphans, left, launched, started, runs>>

ListFindings ==
  /\ at = "list"
  /\ \/ /\ found' \in SUBSET Workload
        /\ todo' = found'
        /\ Goes(IF found' = {} THEN "announce" ELSE "resolve")
     \/ Goes("idle") /\ UNCHANGED <<found, todo>>

\* Mutant: an error is skipped.
ResolveMappingSilently(w) ==
  /\ at = "resolve"
  /\ w \in todo
  /\ todo' = todo \ {w}
  /\ \/ /\ RepoOf[w] # NoRepo
        /\ groups' = [groups EXCEPT ![RepoOf[w]] = @ \cup {w}]
     \/ UNCHANGED groups
  /\ UNCHANGED <<at, policy, found, orphans, left, launched, started, runs>>

\* An error is taken for a workload without mapping.
ResolveMapping(w) ==
  /\ at = "resolve"
  /\ w \in todo
  /\ todo' = todo \ {w}
  /\ \/ /\ RepoOf[w] # NoRepo
        /\ groups' = [groups EXCEPT ![RepoOf[w]] = @ \cup {w}]
        /\ UNCHANGED orphans
     \/ orphans' = orphans \cup {w} /\ UNCHANGED groups
  /\ UNCHANGED <<at, policy, found, left, launched, started, runs>>

GroupsDone ==
  /\ at = "resolve"
  /\ todo = {}
  /\ at' = "launch"
  /\ left' = {r \in Repo : groups[r] # {}}
  /\ UNCHANGED <<policy, found, todo, groups, orphans, launched, started, runs>>

\* Mutant: a group is not cut to what is left of the cap.
ShareWhole(items, room) == {items}

\* Mutant: a group that does not fit is left out.
ShareThatFits(items, room) == IF Cardinality(items) <= room THEN {items} ELSE {{}}

\* The items of a group that still fit; which ones is the order of the findings.
Share(items, room) ==
  IF Cardinality(items) <= room THEN {items} ELSE {s \in SUBSET items : Cardinality(s) = room}

\* The loop takes the groups in the order of a Go map, that is in any.  All of
\* them are started under the id of the run, so that only the first start is
\* accepted; the others are counted as well.
LaunchGroup(r) ==
  /\ at = "launch"
  /\ r \in left
  /\ launched < policy.cap
  /\ \E items \in Share(groups[r], policy.cap - launched) :
       /\ launched' = launched + Cardinality(items)
       /\ started' = IF started = {} THEN items ELSE started
  /\ left' = left \ {r}
  /\ UNCHANGED <<at, policy, found, todo, groups, orphans, runs>>

\* Mutant: a used-up cap does not end the loop.
LoopDoneWhenEmpty ==
  /\ at = "launch"
  /\ left = {}
  /\ Goes("announce") /\ UNCHANGED <<found, todo>>

LoopDone ==
  /\ at = "launch"
  /\ left = {} \/ launched >= policy.cap
  /\ Goes("announce") /\ UNCHANGED <<found, todo>>

\* discovery_completed is sent or given up.
Announce == at = "announce" /\ Goes("idle") /\ UNCHANGED <<found, todo>>

Work == \/ GetPolicy \/ ListFindings \/ GroupsDone \/ LoopDone \/ Announce
        \/ \E w \in Workload : ResolveMapping(w)
        \/ \E r \in Repo : LaunchGroup(r)

Next == Fire \/ Work

Spec == Init /\ [][Next]_vars

\* Every activity is attempted a bounded number of times, and Temporal runs the
\* workflow tasks.
FairSpec == Spec /\ WF_vars(Work)

-----------------------------------------------------------------------------
(* Properties.                                                             *)

\* Every variable has its type; the loop never counts more items than the cap
\* (discover.go:104-112).
TypeOK ==
  /\ at \in Step \cup {"idle"}
  /\ policy \in Policy
  /\ found \subseteq Workload /\ todo \subseteq found
  /\ groups \in [Repo -> SUBSET found]
  /\ orphans \subseteq found
  /\ left \subseteq Repo
  /\ launched \in 0..policy.cap
  /\ started \subseteq found
  /\ runs \in 0..MaxRuns

\* What discovery_completed announces as launched is all that is mapped, up to the
\* cap, however the map orders the repositories: a group that does not fit is cut
\* and no room is left unused.  When there is anything to launch a campaign runs,
\* and when all of it is in one repository the campaign has as many items as were
\* announced; of several repositories only the first one gets a campaign, and the
\* rest is announced all the same (discover.go:95-145).
LaunchedTruth ==
  at = "announce" =>
    LET mapped  == found \ orphans
        fitting == IF Cardinality(mapped) <= policy.cap THEN Cardinality(mapped)
                                                        ELSE policy.cap
        alone   == \A q, r \in Repo : groups[q] # {} /\ groups[r] # {} => q = r
    IN  /\ launched = fitting
        /\ started \subseteq mapped
        /\ mapped # {} => started # {}
        /\ alone => Cardinality(started) = launched

\* No finding is forgotten: once mappings are resolved each is in exactly one
\* group or has been reported as unmapped (61-93).
NothingForgotten ==
  at = "launch" =>
    \A w \in found :
      Cardinality({r \in Repo : w \in groups[r]}) = IF w \in orphans THEN 0 ELSE 1

\* Every run ends, even one whose cap is used up before the last group.
Ends == at # "idle" ~> at = "idle"

\* "launches a CampaignWorkflow per group" (discover.go:24-26): at the end of a
\* run that had room for all of its findings, each mapped one is in a campaign.
EveryGroupLaunched ==
  at = "announce" /\ Cardinality(found) <= policy.cap =>
    \A r \in Repo : groups[r] \subseteq started
=============================================================================
