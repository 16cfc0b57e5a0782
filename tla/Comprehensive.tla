---------------------------- MODULE Comprehensive ----------------------------
(***************************************************************************)
(* DiscoverComprehensiveWorkflow (internal/workflow/                       *)
(* discover_comprehensive.go) and the ComprehensiveItemWorkflow of each    *)
(* workload it launches (comprehensive_item.go), with the events by which  *)
(* titlis-api follows a run that a person triggered.                       *)
(*                                                                         *)
(* The items are abandoned children: they go on, all concurrently, while   *)
(* the parent ends.  Their events are sent once and never retried.         *)
(***************************************************************************)
EXTENDS Naturals, FiniteSets

CONSTANTS
  Workload,
  Cap          \* the values max_prs_per_day may have

ASSUME WorkloadAssumption == IsFiniteSet(Workload)
ASSUME CapAssumption      == Cap \subseteq Nat \ {0}

VARIABLES
  at,         \* the step of the parent
  manual,     \* triggered by a person (DiscoverSpec.CampaignID is set)
  policy,     \* the policy saved
  mode,       \* the mode the run goes by
  found,      \* allFindings.Workloads
  announced,  \* total_items of the campaign_started event received, 0 if none
  item,       \* the step of each workload's item
  outcome,    \* ItemResult.Status of each item, "none" while there is none
  reason,     \* the step that decided it, which ItemResult.Reason names
  heard,      \* status of the campaign_item_completed event received for it
  lost        \* its event was sent and not received

parentVars == <<at, manual, policy, mode, found, announced>>
itemVars   == <<item, outcome, reason, heard, lost>>
vars       == <<parentVars, itemVars>>

Step     == {"policy", "list", "started", "launch", "completed", "discovered", "closed"}
ItemStep == {"absent", "resolve", "fetch", "generate", "promote", "notify", "done"}
Mode     == {"disabled", "discovery_only", "open_pr", "auto_merge"}
Final    == {"skipped", "failed", "awaiting_human", "pr_open", "pr_merged"}
Reason   == {"resolve", "fetch", "generate", "promote"}
Policy   == [mode : Mode, cap : Cap]

Init ==
  /\ at = "policy"
  /\ manual \in BOOLEAN
  /\ policy \in Policy
  /\ mode = policy.mode
  /\ found = {}
  /\ announced = 0
  /\ item = [w \in Workload |-> "absent"]
  /\ outcome = [w \in Workload |-> "none"]
  /\ reason = [w \in Workload |-> "none"]
  /\ heard = [w \in Workload |-> "none"]
  /\ lost = [w \in Workload |-> FALSE]

-----------------------------------------------------------------------------
(* The parent.                                                             *)

Goes(step) == at' = step /\ UNCHANGED <<manual, policy, mode, found, announced, itemVars>>

\* Mutant: a run by hand gets the boldest mode.
ManualModeBold(saved) == IF saved = "disabled" THEN "auto_merge" ELSE saved

\* A run by hand ignores that the policy is disabled, and only opens requests.
ManualMode(saved) == IF saved = "disabled" THEN "open_pr" ELSE saved

GetPolicy ==
  /\ at = "policy"
  /\ \/ Goes("closed")                                 \* an error
     \/ policy.mode = "disabled" /\ ~manual /\ Goes("closed")
     \/ /\ policy.mode # "disabled" \/ manual
        /\ at' = "list"
        /\ mode' = ManualMode(policy.mode)
        /\ UNCHANGED <<manual, policy, found, announced, itemVars>>

ListAllFindings ==
  /\ at = "list"
  /\ \/ Goes("closed")                                 \* an error
     \/ /\ found' \in SUBSET Workload
        /\ at' = IF found' = {} THEN "discovered"
                 ELSE IF manual THEN "started" ELSE "launch"
        /\ UNCHANGED <<manual, policy, mode, announced, itemVars>>

\* Mutant: the number of findings is announced.
TotalUncapped(n) == n

\* How many items are announced.
TotalToLaunch(n) == IF n > policy.cap THEN policy.cap ELSE n

NotifyStarted ==
  /\ at = "started"
  /\ announced' \in {0, TotalToLaunch(Cardinality(found))}
  /\ at' = "launch"
  /\ UNCHANGED <<manual, policy, mode, found, itemVars>>

\* The loop starts its children in one workflow task.
Launch ==
  /\ at = "launch"
  /\ \E batch \in SUBSET found :
       /\ IF Cardinality(found) <= policy.cap THEN batch = found
                                              ELSE Cardinality(batch) = policy.cap
       /\ item' = [w \in Workload |-> IF w \in batch THEN "resolve" ELSE item[w]]
  /\ at' = IF manual THEN "completed" ELSE "discovered"
  /\ UNCHANGED <<manual, policy, mode, found, announced, outcome, reason, heard, lost>>

\* campaign_completed (with status RUNNING) and discovery_completed.
NotifyCompleted == at = "completed" /\ Goes("discovered")
NotifyDiscovered == at = "discovered" /\ Goes("closed")

Parent == \/ GetPolicy \/ ListAllFindings \/ NotifyStarted \/ Launch
          \/ NotifyCompleted \/ NotifyDiscovered

-----------------------------------------------------------------------------
(* An item.                                                                *)

ItemGoes(w, step) ==
  item' = [item EXCEPT ![w] = step] /\ UNCHANGED <<parentVars, outcome, reason, heard, lost>>

\* The result of an item, by the step it is at, and where it goes with it.
Results(w, status, step) ==
  /\ item' = [item EXCEPT ![w] = step]
  /\ outcome' = [outcome EXCEPT ![w] = status]
  /\ reason' = [reason EXCEPT ![w] = item[w]]
  /\ UNCHANGED <<parentVars, heard, lost>>

\* An error of one of the activities: the item ends, and nobody is told.
Fail(w) == Results(w, "failed", "done")

\* Mutant of Settle: nobody is told of items that failed.
SettleQuietly(w, status) ==
  Results(w, status, IF manual /\ status # "failed" THEN "notify" ELSE "done")

Settle(w, status) == Results(w, status, IF manual THEN "notify" ELSE "done")

\* No mapping, or a mapping without paths.
ResolveMapping(w) ==
  /\ item[w] = "resolve"
  /\ ItemGoes(w, "fetch") \/ Settle(w, "skipped") \/ Fail(w)

FetchManifest(w) == item[w] = "fetch" /\ (ItemGoes(w, "generate") \/ Fail(w))

\* titlis-ai may find nothing to fix.
GenerateComprehensivePatch(w) ==
  /\ item[w] = "generate"
  /\ ItemGoes(w, "promote") \/ Settle(w, "skipped") \/ Fail(w)

\* The outcome of PromotionWorkflow, which merges only in mode auto_merge; an
\* error of the child, reported like any other outcome.
Promote(w) ==
  /\ item[w] = "promote"
  /\ \E status \in Final :
       /\ status = "pr_merged" => mode = "auto_merge"
       /\ Settle(w, status)

\* Mutant: the event is tried again without end.
NotifyItemAgain(w) ==
  /\ item[w] = "notify"
  /\ \/ heard' = [heard EXCEPT ![w] = outcome[w]] /\ item' = [item EXCEPT ![w] = "done"]
                                                 /\ UNCHANGED lost
     \/ lost' = [lost EXCEPT ![w] = ~@] /\ UNCHANGED <<heard, item>>
  /\ UNCHANGED <<parentVars, outcome, reason>>

NotifyItem(w) ==
  /\ item[w] = "notify"
  /\ item' = [item EXCEPT ![w] = "done"]
  /\ \/ heard' = [heard EXCEPT ![w] = outcome[w]] /\ UNCHANGED lost
     \/ lost' = [lost EXCEPT ![w] = TRUE] /\ UNCHANGED heard
  /\ UNCHANGED <<parentVars, outcome, reason>>

Item(w) == \/ ResolveMapping(w) \/ FetchManifest(w) \/ GenerateComprehensivePatch(w)
           \/ Promote(w) \/ NotifyItem(w)

Next == Parent \/ \E w \in Workload : Item(w)

Spec == Init /\ [][Next]_vars

\* Temporal runs every workflow task; attempts of activities are bounded.
FairSpec == Spec /\ WF_vars(Parent) /\ \A w \in Workload : WF_vars(Item(w))

-----------------------------------------------------------------------------
(* Properties.                                                             *)

Launched == {w \in Workload : item[w] # "absent"}

\* Every variable has its type.
TypeOK ==
  /\ at \in Step
  /\ manual \in BOOLEAN
  /\ policy \in Policy
  /\ mode \in Mode
  /\ found \subseteq Workload
  /\ announced \in 0..Cardinality(found)
  /\ item \in [Workload -> ItemStep]
  /\ outcome \in [Workload -> Final \cup {"none"}]
  /\ reason \in [Workload -> Reason \cup {"none"}]
  /\ heard \in [Workload -> Final \cup {"none"}]
  /\ lost \in [Workload -> BOOLEAN]

\* titlis-api is never told of more items than it was announced, and exactly as
\* many are launched (discover_comprehensive.go:59-109), within the cap.
AnnouncedTruth ==
  /\ Launched # {} => Cardinality(Launched) <= policy.cap
  /\ Launched # {} /\ announced # 0 => Cardinality(Launched) = announced

\* While the policy is disabled a scheduled run launches nothing, and a run by
\* hand opens pull requests of which none is merged by it
\* (discover_comprehensive.go:27-36, by way of the mode each item is given).
DisabledRespected ==
  policy.mode = "disabled" =>
    \A w \in Workload : (item[w] # "absent" => manual) /\ outcome[w] # "pr_merged"

\* An item of a run by hand that ends unheard of has failed before its promotion,
\* or its event was lost: items that were skipped are heard of, and so is whatever
\* became of a promotion, a failed one too, as it was (comprehensive_item.go:42-60,
\* 76-78, 91-98, 131-136).
HeardOrFailed ==
  \A w \in Workload :
    /\ manual /\ item[w] = "done" /\ heard[w] = "none" =>
         lost[w] \/ (outcome[w] = "failed" /\ reason[w] # "promote")
    /\ heard[w] # "none" => item[w] = "done" /\ heard[w] = outcome[w]

\* Every item that is launched ends.
ItemsEnd == \A w \in Workload : item[w] = "resolve" ~> item[w] = "done"
=============================================================================
