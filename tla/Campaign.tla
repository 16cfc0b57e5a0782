------------------------------ MODULE Campaign ------------------------------
(***************************************************************************)
(* CampaignWorkflow and its ItemWorkflow children                          *)
(* (internal/workflow/campaign.go, item.go), with the HTTP calls that      *)
(* start and cancel it (http/handlers.go, temporal/starter.go).            *)
(*                                                                         *)
(* The items of a campaign are processed one at a time.  Workflow code     *)
(* runs in workflow tasks: within one task the main coroutine runs until   *)
(* it blocks, and only then the coroutine that waits for the cancel signal *)
(* does; so a signal that arrives with the answer the main coroutine waits *)
(* for is seen after the next item has started.                            *)
(***************************************************************************)
EXTENDS Naturals, Sequences, FiniteSets

CONSTANTS
  Workload,     \* deployment names
  Lists,        \* the item lists a campaign may be created with
  MaxRuns       \* bound on executions of the campaign (the same idempotency
                \*   key posted again after the campaign has ended)

Recommendation == {"absent", "skipped", "given"}
Item           == [name : Workload, reco : Recommendation]

ASSUME ListsAssumption   == Lists \subseteq Seq(Item)
ASSUME MaxRunsAssumption == MaxRuns \in Nat
ASSUME WorkloadAssumption == IsFiniteSet(Workload)

VARIABLES
  phase,      \* where the workflow is blocked
  items,      \* CampaignSpec.Items
  next,       \* the item being processed
  itemAt,     \* the activity or child its ItemWorkflow is at
  state,      \* CampaignResult: the counters
  byName,     \* CampaignResult.Items: status by deployment name
  signalled,  \* a cancel signal has been delivered
  cancelled,  \* the flag the waiting coroutine sets
  stopped,    \* CampaignResult.Cancelled: the loop saw the flag
  late,       \* items started after the signal was delivered
  told,       \* the campaign_completed event of this run, if it was sent
  runs

vars == <<phase, items, next, itemAt, state, byName, signalled, cancelled, stopped,
          late, told, runs>>

Phase   == {"absent", "announce", "item", "finish", "closed"}
ItemAt  == {"none", "resolve", "recommend", "promote"}
Outcome == {"failed", "awaiting_human", "pr_open", "pr_merged", "skipped"}
Counter == {"succeeded", "failed", "skipped", "awaiting"}
Quiet   == [status |-> "none", total |-> 0, succeeded |-> 0, failed |-> 0, skipped |-> 0]

Fresh == [c \in Counter |-> 0]

Processed == state["succeeded"] + state["failed"] + state["skipped"] + state["awaiting"]

\* Every variable has its type.
TypeOK ==
  /\ phase \in Phase
  /\ items \in Lists \cup {<< >>}
  /\ next \in 0..Len(items)
  /\ itemAt \in ItemAt
  /\ state \in [Counter -> 0..Len(items)]
  /\ byName \in [Workload -> Outcome \cup {"none"}]
  /\ {signalled, cancelled, stopped} \subseteq BOOLEAN
  /\ late \in Nat
  /\ told.status \in {"none", "COMPLETED", "CANCELLED"}
  /\ runs \in 0..MaxRuns

Init ==
  /\ phase = "absent"
  /\ items = << >>
  /\ next = 0
  /\ itemAt = "none"
  /\ state = Fresh
  /\ byName = [w \in Workload |-> "none"]
  /\ signalled = FALSE /\ cancelled = FALSE /\ stopped = FALSE
  /\ late = 0
  /\ told = Quiet
  /\ runs = 0

-----------------------------------------------------------------------------
(* The HTTP API.                                                           *)

\* POST /campaigns: Temporal joins a running execution of the same id (nothing
\* changes) and starts a new one when the last has closed.
CreateCampaign(list) ==
  /\ phase \in {"absent", "closed"}
  /\ runs < MaxRuns
  /\ list # << >>
  /\ phase' = "announce"
  /\ items' = list
  /\ next' = 0
  /\ itemAt' = "none"
  /\ state' = Fresh
  /\ byName' = [w \in Workload |-> "none"]
  /\ signalled' = FALSE /\ cancelled' = FALSE /\ stopped' = FALSE
  /\ late' = 0
  /\ told' = Quiet
  /\ runs' = runs + 1

\* POST .../cancel: a signal to a running execution.
CancelCampaign ==
  /\ phase \notin {"absent", "closed"}
  /\ ~signalled
  /\ signalled' = TRUE
  /\ UNCHANGED <<phase, items, next, itemAt, state, byName, cancelled, stopped, late,
                 told, runs>>

-----------------------------------------------------------------------------
(* Workflow tasks.                                                         *)

\* The task of the signal itself, when nothing else is answered: the coroutine
\* exists once the first item has started.
ReceiveCancel ==
  /\ phase \in {"item", "finish"}
  /\ signalled /\ ~cancelled
  /\ cancelled' = TRUE
  /\ UNCHANGED <<phase, items, next, itemAt, state, byName, signalled, stopped, late,
                 told, runs>>

StartItem ==
  /\ phase' = "item" /\ itemAt' = "resolve"
  /\ next' = next + 1
  /\ late' = late + (IF signalled THEN 1 ELSE 0)
  /\ UNCHANGED stopped

\* Mutant: the flag of the result is never set.
LeaveLoopUnmarked(early) ==
  /\ phase' = "finish" /\ itemAt' = "none"
  /\ stopped' = FALSE
  /\ UNCHANGED <<next, late>>

LeaveLoop(early) ==
  /\ phase' = "finish" /\ itemAt' = "none"
  /\ stopped' = early
  /\ UNCHANGED <<next, late>>

\* Mutant of NextItem: the flag is not looked at.
NextItemHeedless ==
  /\ IF next = Len(items) THEN LeaveLoop(FALSE) ELSE StartItem
  /\ cancelled' = signalled
  /\ UNCHANGED <<items, signalled, runs>>

\* The head of the loop, in a task in which the flag still has the value it had
\* before; the coroutine sees the signal at the end of the task.
NextItem ==
  /\ IF next = Len(items) THEN LeaveLoop(FALSE)
     ELSE IF cancelled     THEN LeaveLoop(TRUE) ELSE StartItem
  /\ cancelled' = signalled
  /\ UNCHANGED <<items, signalled, runs>>

\* campaign_started is sent or given up; either way the loop begins.
Announce ==
  /\ phase = "announce"
  /\ NextItem
  /\ UNCHANGED <<state, byName, told>>

CounterOf(outcome) ==
  CASE outcome \in {"pr_merged", "pr_open"} -> "succeeded"
    [] outcome = "failed"                   -> "failed"
    [] outcome = "skipped"                  -> "skipped"
    [] outcome = "awaiting_human"           -> "awaiting"

\* Mutants of ItemDone: a failed item is not counted; its status is not kept.
ItemDoneUncounted(outcome) ==
  /\ state' = IF outcome = "failed" THEN state
              ELSE [state EXCEPT ![CounterOf(outcome)] = @ + 1]
  /\ byName' = [byName EXCEPT ![items[next].name] = outcome]
  /\ NextItem
  /\ UNCHANGED told

ItemDoneUnkept(outcome) ==
  /\ state' = [state EXCEPT ![CounterOf(outcome)] = @ + 1]
  /\ byName' = IF outcome = "failed" THEN byName
               ELSE [byName EXCEPT ![items[next].name] = outcome]
  /\ NextItem
  /\ UNCHANGED told

ItemDone(outcome) ==
  /\ state' = [state EXCEPT ![CounterOf(outcome)] = @ + 1]
  /\ byName' = [byName EXCEPT ![items[next].name] = outcome]
  /\ NextItem
  /\ UNCHANGED told

\* campaign_completed is sent, or given up after its attempts.
Finish ==
  /\ phase = "finish"
  /\ phase' = "closed"
  /\ \/ UNCHANGED told
     \/ told' = [status    |-> IF stopped THEN "CANCELLED" ELSE "COMPLETED",
                 total     |-> Len(items),
                 succeeded |-> state["succeeded"],
                 failed    |-> state["failed"],
                 skipped   |-> state["skipped"]]
  /\ UNCHANGED <<items, next, itemAt, state, byName, signalled, cancelled, stopped,
                 late, runs>>

-----------------------------------------------------------------------------
(* ItemWorkflow.                                                           *)

ItemGoesTo(step) ==
  /\ itemAt' = step
  /\ UNCHANGED <<phase, items, next, state, byName, signalled, cancelled, stopped,
                 late, told, runs>>

\* The mapping cannot be read; there is none, or it has no paths and the item
\* has none, or the item's recommendation is to skip it; or the item goes on.
ResolveMapping ==
  /\ itemAt = "resolve"
  /\ \/ ItemDone("failed")
     \/ ItemDone("skipped")
     \/ items[next].reco = "absent" /\ ItemGoesTo("recommend")
     \/ items[next].reco = "given" /\ ItemGoesTo("promote")

\* Mutant: without a recommendation the item starts over.
GetRecommendationAgain ==
  /\ itemAt = "recommend"
  /\ ItemGoesTo("promote") \/ ItemGoesTo("resolve")

\* A recommendation that cannot be fetched is one there is not.
GetRecommendation ==
  /\ itemAt = "recommend"
  /\ ItemGoesTo("promote") \/ ItemDone("skipped")

\* The outcome of PromotionWorkflow, or Temporal's refusal to run it.
Promote ==
  /\ itemAt = "promote"
  /\ \E outcome \in Outcome : ItemDone(outcome)

\* Temporal may refuse or lose the child that runs ItemWorkflow itself.
LoseItem == itemAt # "none" /\ ItemDone("failed")

ItemStep == ResolveMapping \/ GetRecommendation \/ Promote \/ LoseItem

Next ==
  \/ \E list \in Lists : CreateCampaign(list)
  \/ CancelCampaign \/ ReceiveCancel
  \/ Announce \/ ItemStep \/ Finish

Spec == Init /\ [][Next]_vars

FairSpec == Spec /\ WF_vars(Announce \/ ItemStep \/ Finish) /\ WF_vars(ReceiveCancel)

-----------------------------------------------------------------------------
(* Properties.                                                             *)

\* The counters of the status query and of the completion event account for
\* every item processed, whatever its end (campaign.go:82-98).
Accounting ==
  Processed = IF itemAt = "none" THEN next ELSE next - 1

Distinct(list) == \A i, j \in DOMAIN list : list[i].name = list[j].name => i = j

\* With distinct deployment names the status of every item is kept and agrees
\* with the counters (87-97); Items is keyed by name, so a list that names a
\* deployment twice keeps the last status only.
ItemsAgree ==
  Distinct(items) =>
    \A c \in Counter :
      state[c] = Cardinality({w \in Workload : byName[w] # "none" /\ CounterOf(byName[w]) = c})

\* At most one more item starts once the cancel signal is delivered: the one
\* that starts in the task in which the signal is first seen (59-71).
CancelPrompt == late <= 1

\* titlis-api hears CANCELLED exactly when items were left out, and of a
\* COMPLETED campaign it can work out every item (100-115).
CompletionTruth ==
  /\ told.status = "CANCELLED" => next < told.total /\ signalled
  /\ told.status = "COMPLETED" =>
       told.succeeded + told.failed + told.skipped + state["awaiting"] = told.total

\* Every campaign closes (29-118).
Closes == phase = "announce" ~> phase = "closed"
=============================================================================
