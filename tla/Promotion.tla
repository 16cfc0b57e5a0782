----------------------------- MODULE Promotion -----------------------------
(***************************************************************************)
(* PromotionWorkflow (internal/workflow/promotion.go): one recommendation  *)
(* to the environments of one workload, each by a child EnvDeployWorkflow, *)
(* all in parallel, with the outcome of the whole derived from theirs.     *)
(*                                                                         *)
(* The children are what PRContract promises of them (EnvDeploy keeps that *)
(* contract); Deploy is the set of environments.                           *)
(***************************************************************************)
EXTENDS PRContract, Naturals

CONSTANTS
  Asked,           \* the promotions that may be asked for
  MaxPromotions    \* bound on promotions of the workload

ASSUME EnvAssumption           == Deploy = {"dev", "hml", "prd"}
ASSUME MaxPromotionsAssumption == MaxPromotions \in Nat

VARIABLES
  spec,     \* PromotionSpec: environments with a manifest path, policy mode,
            \*   CascadeUpTo, whether a person triggered it
  child,    \* how far the coroutine of each environment is
  result,   \* EnvDeployResult.Status each coroutine has put on the channel
  steps,    \* PromotionResult.Steps: what has been received from it
  final,    \* PromotionResult.FinalStatus
  at,       \* the workflow: idle or collecting results
  promotions

promotionVars == <<spec, child, result, steps, final, at, promotions>>
vars          == <<contractVars, promotionVars>>

Mode      == {"disabled", "discovery_only", "open_pr", "auto_merge"}
Cascade   == {"dev", "hml", "prd", "unset"}
Request   == [paths : SUBSET Deploy, mode : Mode, cascade : Cascade, manual : BOOLEAN]
ChildAt   == {"absent", "waiting", "running", "sent", "received"}
Final     == {"none", "skipped", "failed", "awaiting_human", "pr_open", "pr_merged"}

envOrdinal(e) == CASE e = "dev" -> 0 [] e = "hml" -> 1 [] e = "prd" -> 2

cascadeOrdinal(c) == CASE c = "hml" -> 1 [] c = "prd" -> 2 [] OTHER -> 0

\* Mutant: CascadeUpTo is ignored.
TasksUncapped(s) == s.paths

\* The environments a promotion deploys to.
Tasks(s) == {e \in s.paths : envOrdinal(e) <= cascadeOrdinal(s.cascade)}

\* Mutant: no special rule for prd.
EffectiveModeSame(s, e) == s.mode

EffectiveMode(s, e) == IF e = "prd" /\ ~s.manual THEN "open_pr" ELSE s.mode

ASSUME AskedAssumption == Asked \subseteq Request

\* Every variable has its type.
TypeOK ==
  /\ ContractTypeOK
  /\ spec \in Request
  /\ child \in [Deploy -> ChildAt]
  /\ result \in [Deploy -> Verdict]
  /\ steps \in [Deploy -> Verdict]
  /\ final \in Final
  /\ at \in {"idle", "collect"}
  /\ promotions \in 0..MaxPromotions

Nowhere == [e \in Deploy |-> "absent"]
Nothing == [e \in Deploy |-> "none"]

Init ==
  /\ ContractInit
  /\ spec = [paths |-> {}, mode |-> "open_pr", cascade |-> "unset", manual |-> FALSE]
  /\ child = Nowhere
  /\ result = Nothing
  /\ steps = Nothing
  /\ final = "none"
  /\ at = "idle"
  /\ promotions = 0

-----------------------------------------------------------------------------
(* The workflow.                                                           *)

Promote(s) ==
  /\ at = "idle"
  /\ promotions < MaxPromotions
  /\ promotions' = promotions + 1
  /\ spec' = s
  /\ result' = Nothing
  /\ steps' = Nothing
  /\ child' = [e \in Deploy |-> IF e \in Tasks(s) THEN "waiting" ELSE "absent"]
  /\ IF Tasks(s) = {} THEN at' = "idle" /\ final' = "skipped"
                      ELSE at' = "collect" /\ final' = "none"
  /\ UNCHANGED contractVars

\* The coroutine of e starts its child ...
StartChild(e) ==
  /\ child[e] = "waiting"
  /\ Begin(e, EffectiveMode(spec, e) = "auto_merge")
  /\ child' = [child EXCEPT ![e] = "running"]
  /\ UNCHANGED <<spec, result, steps, final, at, promotions>>

\* ... which Temporal may refuse or lose (an execution with that id is running,
\* or the child was terminated): an error counts as failed ...
Send(e, status) ==
  /\ child' = [child EXCEPT ![e] = "sent"]
  /\ result' = [result EXCEPT ![e] = status]
  /\ UNCHANGED <<spec, steps, final, at, promotions>>

\* Mutant: the coroutine ends without a result.
RefuseChildSilently(e) ==
  /\ child[e] = "waiting"
  /\ child' = [child EXCEPT ![e] = "absent"]
  /\ UNCHANGED <<contractVars, spec, result, steps, final, at, promotions>>

RefuseChild(e) == child[e] = "waiting" /\ Send(e, "failed") /\ UNCHANGED contractVars

\* ... and puts the child's result on the channel, which has room for all.
ChildReturns(e) ==
  /\ child[e] = "running" /\ ~running[e]
  /\ Send(e, verdict[e])
  /\ UNCHANGED contractVars

Receive(e) ==
  /\ at = "collect"
  /\ child[e] = "sent"
  /\ steps' = [steps EXCEPT ![e] = result[e]]
  /\ child' = [child EXCEPT ![e] = "received"]
  /\ UNCHANGED <<contractVars, spec, result, final, at, promotions>>

\* Mutant: a step left to people is overlooked.
AggregateOverlooking(got) ==
  IF "failed" \in got THEN "failed"
  ELSE IF "pr_open" \in got THEN "pr_open" ELSE "pr_merged"

\* The worst step decides.
Aggregate(got) ==
  IF "failed" \in got THEN "failed"
  ELSE IF "awaiting_human" \in got THEN "awaiting_human"
  ELSE IF "pr_open" \in got THEN "pr_open" ELSE "pr_merged"

Conclude ==
  /\ at = "collect"
  /\ \A e \in Tasks(spec) : child[e] = "received"
  /\ final' = Aggregate({steps[e] : e \in Tasks(spec)})
  /\ at' = "idle"
  /\ UNCHANGED <<contractVars, spec, child, result, steps, promotions>>

-----------------------------------------------------------------------------
(* What the children do, and people to their pull requests.                *)

ChildWorks(e) ==
  /\ Open(e) \/ OpenAndFail(e) \/ MergeAndGiveUp(e) \/ Settle(e, "merged")
     \/ Settle(e, "closed")
  /\ UNCHANGED promotionVars

ChildReports(e) ==
  /\ \E v \in Verdict : Report(e, v)
  /\ UNCHANGED promotionVars

Coroutine(e) == StartChild(e) \/ RefuseChild(e) \/ ChildReturns(e)

Next ==
  \/ \E s \in Asked : Promote(s)
  \/ \E e \in Deploy : Coroutine(e) \/ Receive(e)
  \/ Conclude
  \/ \E e \in Deploy : ChildWorks(e) \/ ChildReports(e)

Spec == Init /\ [][Next]_vars

\* Temporal schedules the workflow and its coroutines, and every child run ends
\* (EnvDeploy's Terminates).
FairSpec ==
  /\ Spec
  /\ WF_vars(Conclude)
  /\ \A e \in Deploy : WF_vars(Coroutine(e)) /\ WF_vars(Receive(e))
  /\ \A e \in Deploy : WF_vars(ChildReports(e))

-----------------------------------------------------------------------------
(* Properties.                                                             *)

\* prd is never auto-merged when a schedule triggered the promotion
\* (promotion.go:67-68): no run for prd may merge, whichever promotion of the
\* workload started it, and none reports a merge.
PrdNeverAutoMerged ==
  ~spec.manual => ~auto["prd"] /\ steps["prd"] # "merged"

\* The final status tells the worst that happened, in every environment that
\* was to be deployed (promotion.go:150-171), and stays true.
FinalTruth ==
  /\ final = "pr_merged" =>
       spec.mode = "auto_merge" /\ \A e \in Tasks(spec) : latest[e] = "merged"
  /\ final \in {"pr_open", "awaiting_human"} =>
       \A e \in Tasks(spec) : latest[e] # "absent"

\* Only environments up to CascadeUpTo are ever deployed to (promotion.go:73-82),
\* and none is left running when the promotion has concluded (143-148).
CascadeRespected ==
  \A e \in Deploy : running[e] =>
    /\ at = "collect"
    /\ e \in spec.paths
    /\ e = "hml" => spec.cascade \in {"hml", "prd"}
    /\ e = "prd" => spec.cascade = "prd"

\* Every promotion concludes: each coroutine sends exactly one result and the
\* channel never fills up (promotion.go:124-148).
Concludes == at = "collect" ~> at = "idle"
=============================================================================
