-------------------------- MODULE Promotion_proofs --------------------------
(* What a promotion concludes is true, prd is merged by hand only, and no    *)
(* environment past the cascade is deployed to: for every set of promotions  *)
(* that may be asked for and any number of them, one after the other.        *)
EXTENDS Promotion, TLAPS

\* A result that has come from the child of e, for the promotion under way.
Arrived(e, v) ==
  /\ v # "none"
  /\ v = "merged" => latest[e] = "merged" /\ EffectiveMode(spec, e) = "auto_merge"
  /\ v # "failed" => latest[e] # "absent"

\* A child runs only between its start and its result, merges only if its mode
\* is to merge, and its result is true wherever it has got to.
ChildInv(e) ==
  /\ child[e] = "absent" <=> e \notin Tasks(spec)
  /\ running[e] => child[e] = "running"
  /\ auto[e] => running[e] /\ EffectiveMode(spec, e) = "auto_merge"
  /\ child[e] = "running" /\ ~running[e] => Arrived(e, verdict[e])
  /\ child[e] = "sent" => Arrived(e, result[e])
  /\ IF child[e] = "received" THEN Arrived(e, steps[e]) ELSE steps[e] = "none"

\* Whoever has concluded has received all results, and concludes from them.
ConcludedInv ==
  /\ at = "idle" => \A e \in Deploy : child[e] \in {"absent", "received"}
  /\ at = "collect" => final = "none" /\ Tasks(spec) # {}
  /\ final = "pr_merged" => Tasks(spec) # {} /\ \A e \in Tasks(spec) : steps[e] = "merged"
  /\ final \in {"pr_open", "awaiting_human"} => \A e \in Tasks(spec) : steps[e] # "failed"

PromotionInv == TypeOK /\ (\A e \in Deploy : ChildInv(e)) /\ ConcludedInv

-----------------------------------------------------------------------------
(* Types.                                                                  *)

\* Every step keeps the types of the contract and of the workflow.
LEMMA TypeStep == TypeOK /\ [Next]_vars => TypeOK'
<1> SUFFICES ASSUME TypeOK, [Next]_vars PROVE TypeOK'
  OBVIOUS
<1> USE DEF TypeOK, ContractTypeOK
<1>1. ASSUME NEW s \in Asked, Promote(s) PROVE TypeOK'
  BY <1>1, AskedAssumption, MaxPromotionsAssumption
  DEF Promote, contractVars, Nothing, Verdict, ChildAt, Final
<1>2. ASSUME NEW e \in Deploy, StartChild(e) PROVE TypeOK'
  BY <1>2 DEF StartChild, Begin, Verdict, ChildAt
<1>3. ASSUME NEW e \in Deploy, RefuseChild(e) PROVE TypeOK'
  BY <1>3 DEF RefuseChild, Send, contractVars, Verdict, ChildAt
<1>4. ASSUME NEW e \in Deploy, ChildReturns(e) PROVE TypeOK'
  BY <1>4 DEF ChildReturns, Send, contractVars, ChildAt
<1>5. ASSUME NEW e \in Deploy, Receive(e) PROVE TypeOK'
  BY <1>5 DEF Receive, contractVars, ChildAt
<1>6. ASSUME Conclude PROVE TypeOK'
  BY <1>6 DEF Conclude, Aggregate, contractVars, Final
<1>7. ASSUME NEW e \in Deploy, ChildWorks(e) PROVE TypeOK'
  BY <1>7 DEF ChildWorks, Open, OpenAndFail, MergeAndGiveUp, Settle, promotionVars,
              Latest, Verdict
<1>8. ASSUME NEW e \in Deploy, ChildReports(e) PROVE TypeOK'
  BY <1>8 DEF ChildReports, Report, promotionVars
<1>9. ASSUME UNCHANGED vars PROVE TypeOK'
  BY <1>9 DEF vars, contractVars, promotionVars
<1> QED
  BY <1>1, <1>2, <1>3, <1>4, <1>5, <1>6, <1>7, <1>8, <1>9 DEF Next, Coroutine

-----------------------------------------------------------------------------
(* One lemma per kind of step.                                             *)

\* An environment of which nothing changes is as sound as before.
LEMMA Apart ==
  ASSUME NEW e \in Deploy, ChildInv(e), spec' = spec,
         latest'[e] = latest[e], running'[e] = running[e], auto'[e] = auto[e],
         verdict'[e] = verdict[e], child'[e] = child[e], result'[e] = result[e],
         steps'[e] = steps[e]
  PROVE  ChildInv(e)'
BY DEF ChildInv, Arrived

\* A promotion begins when no child of an earlier one runs.
LEMMA PromoteKeeps ==
  ASSUME PromotionInv, NEW s \in Asked, Promote(s)
  PROVE  (\A e \in Deploy : ChildInv(e)') /\ ConcludedInv'
<1>1. \A e \in Deploy : ~running[e] /\ ~auto[e]
  BY DEF PromotionInv, ConcludedInv, ChildInv, Promote
<1>2. /\ spec' = s /\ UNCHANGED contractVars /\ steps' = Nothing
      /\ child' = [e \in Deploy |-> IF e \in Tasks(s) THEN "waiting" ELSE "absent"]
      /\ IF Tasks(s) = {} THEN at' = "idle" /\ final' = "skipped"
                          ELSE at' = "collect" /\ final' = "none"
  BY DEF Promote
<1>3. \A e \in Deploy : ChildInv(e)'
  BY <1>1, <1>2 DEF ChildInv, contractVars, Nothing
<1>4. ConcludedInv'
  BY <1>2 DEF ConcludedInv
<1> QED
  BY <1>3, <1>4

\* The coroutine of one environment, and receiving from it.
LEMMA CoroutineKeeps ==
  ASSUME PromotionInv, NEW e \in Deploy, Coroutine(e) \/ Receive(e)
  PROVE  (\A f \in Deploy : ChildInv(f)') /\ ConcludedInv'
<1> USE DEF TypeOK, ContractTypeOK
<1>0. TypeOK /\ ChildInv(e) /\ spec' = spec /\ final' = final /\ at' = at
  BY DEF PromotionInv, Coroutine, StartChild, RefuseChild, ChildReturns, Send, Receive
<1>1. at = "collect"
  BY <1>0 DEF PromotionInv, ConcludedInv, Coroutine, StartChild, RefuseChild,
              ChildReturns, Receive
<1>2. ASSUME NEW f \in Deploy, f # e PROVE ChildInv(f)'
  <2>1. /\ latest'[f] = latest[f] /\ running'[f] = running[f] /\ auto'[f] = auto[f]
        /\ verdict'[f] = verdict[f] /\ child'[f] = child[f] /\ result'[f] = result[f]
        /\ steps'[f] = steps[f]
    BY <1>0, <1>2 DEF Coroutine, StartChild, Begin, RefuseChild, ChildReturns, Send,
                      Receive, contractVars
  <2> QED
    BY <1>0, <2>1, Apart DEF PromotionInv
<1>3. ChildInv(e)'
  <2>1. CASE StartChild(e)
    BY <1>0, <2>1 DEF StartChild, Begin, ChildInv
  <2>2. CASE RefuseChild(e)
    BY <1>0, <2>2 DEF RefuseChild, Send, ChildInv, Arrived, contractVars
  <2>3. CASE ChildReturns(e)
    BY <1>0, <2>3 DEF ChildReturns, Send, ChildInv, Arrived, contractVars
  <2>4. CASE Receive(e)
    BY <1>0, <2>4 DEF Receive, ChildInv, Arrived, contractVars
  <2> QED
    BY <2>1, <2>2, <2>3, <2>4 DEF Coroutine
<1>4. ConcludedInv'
  BY <1>0, <1>1 DEF PromotionInv, ConcludedInv
<1> QED
  BY <1>2, <1>3, <1>4

\* Concluding changes neither results nor children.
LEMMA ConcludeKeeps ==
  ASSUME PromotionInv, Conclude
  PROVE  (\A e \in Deploy : ChildInv(e)') /\ ConcludedInv'
<1> DEFINE got == {steps[e] : e \in Tasks(spec)}
<1>1. /\ UNCHANGED <<contractVars, spec, child, result, steps>>
      /\ at' = "idle" /\ final' = Aggregate(got)
      /\ \A e \in Tasks(spec) : child[e] = "received"
  BY DEF Conclude
<1>2. \A e \in Deploy : ChildInv(e)'
  BY <1>1, Apart DEF PromotionInv, contractVars
<1>3. Tasks(spec) # {}
  BY DEF PromotionInv, ConcludedInv, Conclude
<1>4. \A e \in Tasks(spec) : e \in Deploy /\ steps[e] \in Verdict \ {"none"}
  BY <1>1 DEF PromotionInv, TypeOK, ChildInv, Arrived, Tasks, Request
<1>5. \A e \in Deploy : child[e] \in {"absent", "received"}
  BY <1>1 DEF PromotionInv, ChildInv
<1>6. final' = "pr_merged" => \A e \in Tasks(spec) : steps[e] = "merged"
  BY <1>1, <1>4 DEF Aggregate, Verdict
<1>7. final' \in {"pr_open", "awaiting_human"} => \A e \in Tasks(spec) : steps[e] # "failed"
  BY <1>1 DEF Aggregate
<1> HIDE DEF got
<1> QED
  BY <1>1, <1>2, <1>3, <1>5, <1>6, <1>7 DEF ConcludedInv

\* What a child does to its pull request, and people do, spoils no result: a
\* child that runs has none yet, and what is merged stays merged.
LEMMA ChildKeeps ==
  ASSUME PromotionInv, NEW e \in Deploy, ChildWorks(e) \/ ChildReports(e)
  PROVE  (\A f \in Deploy : ChildInv(f)') /\ ConcludedInv'
<1> USE DEF TypeOK, ContractTypeOK
<1>0. TypeOK /\ ChildInv(e) /\ UNCHANGED <<spec, child, result, steps, final, at>>
  BY DEF PromotionInv, ChildWorks, ChildReports, promotionVars
<1>1. ASSUME NEW f \in Deploy, f # e PROVE ChildInv(f)'
  <2>1. /\ latest'[f] = latest[f] /\ running'[f] = running[f] /\ auto'[f] = auto[f]
        /\ verdict'[f] = verdict[f]
    BY <1>0, <1>1 DEF ChildWorks, ChildReports, Open, OpenAndFail, MergeAndGiveUp, Settle,
                      Report
  <2> QED
    BY <1>0, <2>1, Apart DEF PromotionInv
<1>2. ChildInv(e)'
  <2>1. CASE Open(e)
    BY <1>0, <2>1 DEF Open, ChildInv
  <2>2. CASE OpenAndFail(e)
    BY <1>0, <2>2 DEF OpenAndFail, ChildInv, Arrived
  <2>3. CASE MergeAndGiveUp(e)
    BY <1>0, <2>3 DEF MergeAndGiveUp, ChildInv, Arrived
  <2>4. CASE Settle(e, "merged") \/ Settle(e, "closed")
    BY <1>0, <2>4 DEF Settle, ChildInv, Arrived
  <2>5. ASSUME NEW v \in Verdict, Report(e, v) PROVE ChildInv(e)'
    BY <1>0, <2>5 DEF Report, Truthful, ChildInv, Arrived
  <2> QED
    BY <2>1, <2>2, <2>3, <2>4, <2>5 DEF ChildWorks, ChildReports
<1>3. ConcludedInv'
  BY <1>0 DEF PromotionInv, ConcludedInv
<1> QED
  BY <1>1, <1>2, <1>3

\* The invariant of a promotion.
THEOREM Inductive == Spec => []PromotionInv
<1>1. Init => PromotionInv
  <2> SUFFICES ASSUME Init PROVE PromotionInv
    OBVIOUS
  <2>1. TypeOK
    BY MaxPromotionsAssumption
    DEF Init, ContractInit, TypeOK, ContractTypeOK, Request, Mode, Cascade, Nowhere,
        Nothing, Latest, Verdict, ChildAt, Final
  <2>2. Tasks(spec) = {}
    BY DEF Init, Tasks
  <2> QED
    BY <2>1, <2>2 DEF Init, ContractInit, PromotionInv, ChildInv, ConcludedInv, Nowhere,
                      Nothing
<1>2. PromotionInv /\ [Next]_vars => PromotionInv'
  <2> SUFFICES ASSUME PromotionInv, [Next]_vars
               PROVE  (\A e \in Deploy : ChildInv(e)') /\ ConcludedInv'
    BY TypeStep DEF PromotionInv
  <2>1. CASE UNCHANGED vars
    BY <2>1, Apart DEF PromotionInv, ConcludedInv, vars, contractVars, promotionVars
  <2> QED
    BY <2>1, PromoteKeeps, CoroutineKeeps, ConcludeKeeps, ChildKeeps DEF Next
<1> QED
  BY <1>1, <1>2, PTL DEF Spec

-----------------------------------------------------------------------------
(* What follows.                                                           *)

\* prd is never auto-merged when a schedule triggered the promotion
\* (promotion.go:67-68).
THEOREM PrdByHandOnly == Spec => []PrdNeverAutoMerged
<1>1. PromotionInv => PrdNeverAutoMerged
  <2> SUFFICES ASSUME PromotionInv, ~spec.manual
               PROVE  ~auto["prd"] /\ steps["prd"] # "merged"
    BY DEF PrdNeverAutoMerged
  <2>1. ChildInv("prd") /\ EffectiveMode(spec, "prd") = "open_pr"
    BY EnvAssumption DEF PromotionInv, EffectiveMode
  <2> QED
    BY <2>1 DEF ChildInv, Arrived
<1> QED
  BY <1>1, Inductive, PTL

\* The final status tells the worst that happened, and stays true
\* (promotion.go:150-171).
THEOREM FinalStatusTrue == Spec => []FinalTruth
<1>1. PromotionInv => FinalTruth
  <2> SUFFICES ASSUME PromotionInv PROVE FinalTruth
    OBVIOUS
  <2>1. \A e \in Tasks(spec) : e \in Deploy /\ child[e] # "absent"
    BY DEF PromotionInv, TypeOK, ChildInv, Tasks, Request
  <2>2. final # "none" => \A e \in Tasks(spec) : Arrived(e, steps[e])
    BY <2>1 DEF PromotionInv, TypeOK, ConcludedInv, ChildInv
  <2>3. \A e \in Deploy : EffectiveMode(spec, e) = "auto_merge" => spec.mode = "auto_merge"
    BY DEF EffectiveMode
  <2> QED
    BY <2>1, <2>2, <2>3 DEF PromotionInv, ConcludedInv, FinalTruth, Arrived
<1> QED
  BY <1>1, Inductive, PTL

\* No child runs past CascadeUpTo, nor after the promotion has concluded
\* (promotion.go:73-82, 143-148).
THEOREM CascadeKept == Spec => []CascadeRespected
<1>1. PromotionInv => CascadeRespected
  <2> SUFFICES ASSUME PromotionInv, NEW e \in Deploy, running[e]
               PROVE  /\ at = "collect" /\ e \in spec.paths
                      /\ e = "hml" => spec.cascade \in {"hml", "prd"}
                      /\ e = "prd" => spec.cascade = "prd"
    BY DEF CascadeRespected
  <2>1. child[e] = "running" /\ e \in Tasks(spec)
    BY DEF PromotionInv, ChildInv
  <2>2. at = "collect"
    BY <2>1 DEF PromotionInv, TypeOK, ConcludedInv
  <2>3. e \in spec.paths /\ envOrdinal(e) <= cascadeOrdinal(spec.cascade)
    BY <2>1 DEF Tasks
  <2>4. spec.cascade \in Cascade
    BY DEF PromotionInv, TypeOK, Request
  <2> QED
    BY <2>2, <2>3, <2>4 DEF envOrdinal, cascadeOrdinal, Cascade
<1> QED
  BY <1>1, Inductive, PTL

\* Every variable has its type.
THEOREM TypeCorrect == Spec => []TypeOK
BY Inductive, PTL DEF PromotionInv

\* A promotion asks of its children only what PRContract promises, so that any
\* deployment that keeps the contract may stand in for them, EnvDeploy among
\* them (promotion.go:128-140).
THEOREM UsesContract == Spec => ContractSpec
<1>1. Init => ContractInit
  BY DEF Init
<1>2. [Next]_vars => [ContractNext]_contractVars
  <2> SUFFICES ASSUME [Next]_vars PROVE [ContractNext]_contractVars
    OBVIOUS
  <2>1. ASSUME NEW e \in Deploy, StartChild(e) PROVE ContractNext
    BY <2>1 DEF StartChild, ContractNext
  <2>2. ASSUME NEW e \in Deploy, ChildWorks(e) \/ ChildReports(e) PROVE ContractNext
    BY <2>2 DEF ChildWorks, ChildReports, ContractNext
  <2>3. CASE UNCHANGED vars
    BY <2>3 DEF vars
  <2>4. ASSUME NEW e \in Deploy, RefuseChild(e) \/ ChildReturns(e) \/ Receive(e)
        PROVE  UNCHANGED contractVars
    BY <2>4 DEF RefuseChild, ChildReturns, Receive
  <2>5. ASSUME \/ \E s \in Asked : Promote(s)
               \/ Conclude
        PROVE  UNCHANGED contractVars
    BY <2>5 DEF Promote, Conclude
  <2> QED
    BY <2>1, <2>2, <2>3, <2>4, <2>5 DEF Next, Coroutine
<1> QED
  BY <1>1, <1>2, PTL DEF Spec, ContractSpec

-----------------------------------------------------------------------------
(* A promotion wears itself out.                                           *)

\* Steps to go of the coroutine of e: its child, the end of the child, the result
\* on the channel and off it.
EnvLeft(e) ==
  CASE child[e] = "waiting" -> 4
    [] child[e] = "running" -> IF running[e] THEN 3 ELSE 2
    [] child[e] = "sent"    -> 1
    [] OTHER                -> 0

WorkLeft == EnvLeft("dev") + EnvLeft("hml") + EnvLeft("prd") + (IF at = "collect" THEN 1 ELSE 0)

\* While results are collected some coroutine, its child or the workflow can go on.
CanGoOn ==
  \/ \E e \in Deploy : \/ child[e] \in {"waiting", "sent"}
                       \/ child[e] = "running"
                            /\ (running[e] => Truthful(e, "failed"))
  \/ \A e \in Tasks(spec) : child[e] = "received"

\* A promotion has at most thirteen steps to go, none exactly when it has concluded,
\* and is never stuck: nobody waits for a result that does not come.
Bounded ==
  /\ WorkLeft \in 0..13
  /\ WorkLeft = 0 <=> at = "idle"
  /\ at = "collect" => CanGoOn

\* Each of its steps, and the end of a child, leaves it less to do; nothing that
\* children or people do meanwhile gives it more.
WearsOut ==
  at = "collect" =>
    /\ WorkLeft' <= WorkLeft
    /\ Conclude \/ (\E e \in Deploy : Coroutine(e) \/ Receive(e) \/ ChildReports(e))
         => WorkLeft' < WorkLeft

LEMMA BoundedWork == PromotionInv => Bounded
<1> SUFFICES ASSUME PromotionInv PROVE Bounded
  OBVIOUS
<1>1. \A e \in Deploy : /\ EnvLeft(e) \in 0..4
                        /\ at = "idle" => EnvLeft(e) = 0
  <2> SUFFICES ASSUME NEW e \in Deploy
               PROVE  EnvLeft(e) \in 0..4 /\ (at = "idle" => EnvLeft(e) = 0)
    OBVIOUS
  <2>1. EnvLeft(e) \in {0, 1, 2, 3, 4}
    BY DEF EnvLeft
  <2>2. at = "idle" => child[e] \in {"absent", "received"}
    BY DEF PromotionInv, ConcludedInv
  <2>3. child[e] \in {"absent", "received"} => EnvLeft(e) = 0
    BY DEF EnvLeft
  <2> QED
    BY <2>1, <2>2, <2>3
<1>2. at \in {"idle", "collect"}
  BY DEF PromotionInv, TypeOK
<1>3. WorkLeft \in 0..13 /\ (WorkLeft = 0 <=> at = "idle")
  BY <1>1, <1>2, EnvAssumption DEF WorkLeft
<1>4. CanGoOn
  <2> SUFFICES ASSUME NEW e \in Tasks(spec), child[e] # "received" PROVE CanGoOn
    BY DEF CanGoOn
  <2>1. e \in Deploy /\ child[e] \in {"waiting", "running", "sent"}
    BY DEF PromotionInv, ChildInv, TypeOK, Tasks, Request, ChildAt
  <2> QED
    BY <2>1 DEF CanGoOn, Truthful
<1> QED
  BY <1>3, <1>4 DEF Bounded

\* One environment comes closer to its result and the others stay.
LEMMA OneCloser ==
  ASSUME NEW e \in Deploy, \A f \in Deploy : EnvLeft(f) \in Nat /\ EnvLeft(f)' \in Nat,
         \A f \in Deploy \ {e} : EnvLeft(f)' = EnvLeft(f), at' = at
  PROVE  /\ EnvLeft(e)' < EnvLeft(e) => WorkLeft' < WorkLeft
         /\ EnvLeft(e)' = EnvLeft(e) => WorkLeft' = WorkLeft
BY EnvAssumption DEF WorkLeft

\* The coroutine of e, the end of its child and the receipt of its result bring e
\* closer; what the child does before its end never takes it away.
LEMMA CoroutineLowers ==
  ASSUME PromotionInv, NEW e \in Deploy,
         Coroutine(e) \/ Receive(e) \/ ChildReports(e) \/ ChildWorks(e)
  PROVE  /\ at' = at
         /\ \A f \in Deploy \ {e} : EnvLeft(f)' = EnvLeft(f)
         /\ ChildWorks(e) => EnvLeft(e)' <= EnvLeft(e)
         /\ Coroutine(e) \/ Receive(e) \/ ChildReports(e) => EnvLeft(e)' < EnvLeft(e)
<1>0. /\ child \in [Deploy -> ChildAt] /\ running \in [Deploy -> BOOLEAN]
      /\ running[e] => child[e] = "running"
  BY DEF PromotionInv, TypeOK, ContractTypeOK, ChildInv
<1>1. /\ at' = at
      /\ \A f \in Deploy \ {e} : child'[f] = child[f] /\ running'[f] = running[f]
  BY <1>0 DEF Coroutine, StartChild, Begin, RefuseChild, ChildReturns, Send, Receive,
     ChildReports, Report, ChildWorks, Open, OpenAndFail, MergeAndGiveUp, Settle,
     contractVars, promotionVars
<1>2. \A f \in Deploy \ {e} : EnvLeft(f)' = EnvLeft(f)
  BY <1>1 DEF EnvLeft
<1>3. ASSUME StartChild(e) \/ RefuseChild(e) PROVE EnvLeft(e)' < EnvLeft(e)
  <2>1. child[e] = "waiting" /\ child'[e] \in {"running", "sent"}
    BY <1>0, <1>3 DEF StartChild, Begin, RefuseChild, Send
  <2> QED
    BY <2>1 DEF EnvLeft
<1>4. ASSUME ChildReturns(e) PROVE EnvLeft(e)' < EnvLeft(e)
  <2>1. child[e] = "running" /\ child'[e] = "sent"
    BY <1>0, <1>4 DEF ChildReturns, Send
  <2> QED
    BY <2>1 DEF EnvLeft
<1>5. ASSUME Receive(e) PROVE EnvLeft(e)' < EnvLeft(e)
  <2>1. child[e] = "sent" /\ child'[e] = "received"
    BY <1>0, <1>5 DEF Receive
  <2> QED
    BY <2>1 DEF EnvLeft
<1>6. ASSUME ChildReports(e) PROVE EnvLeft(e)' < EnvLeft(e)
  <2>1. child'[e] = "running" /\ child[e] = "running" /\ running[e] /\ ~running'[e]
    BY <1>0, <1>6 DEF ChildReports, Report, promotionVars
  <2> QED
    BY <2>1 DEF EnvLeft
<1>7. ASSUME ChildWorks(e) PROVE EnvLeft(e)' <= EnvLeft(e)
  <2>1. child' = child /\ (running'[e] => running[e])
    BY <1>0, <1>7 DEF ChildWorks, Open, OpenAndFail, MergeAndGiveUp, Settle, promotionVars
  <2> QED
    BY <1>0, <2>1 DEF EnvLeft
<1> QED
  BY <1>1, <1>2, <1>3, <1>4, <1>5, <1>6, <1>7 DEF Coroutine

\* A promotion concludes within thirteen steps, the ends of its children among
\* them, whatever they report (promotion.go:124-171): what Concludes needs besides
\* fairness and the end of every child (RunsWearOut of EnvDeploy_proofs).
THEOREM PromotionsWearOut == Spec => []Bounded /\ [][WearsOut]_vars
<1>1. PromotionInv => Bounded
  BY BoundedWork
<1>2. PromotionInv /\ PromotionInv' /\ [Next]_vars => [WearsOut]_vars
  <2> SUFFICES ASSUME PromotionInv, PromotionInv', [Next]_vars, at = "collect"
               PROVE  WearsOut \/ UNCHANGED vars
    BY DEF WearsOut
  <2>1. \A e \in Deploy : EnvLeft(e) \in Nat /\ EnvLeft(e)' \in Nat
    BY DEF EnvLeft
  <2>2. WorkLeft \in Nat /\ WorkLeft' \in Nat
    BY <2>1, EnvAssumption DEF WorkLeft
  <2>3. ASSUME NEW e \in Deploy,
               Coroutine(e) \/ Receive(e) \/ ChildReports(e) \/ ChildWorks(e)
        PROVE  /\ at' = at
               /\ WorkLeft' <= WorkLeft
               /\ Coroutine(e) \/ Receive(e) \/ ChildReports(e) => WorkLeft' < WorkLeft
    BY <2>1, <2>2, <2>3, CoroutineLowers, OneCloser
  <2>4. CASE Conclude
    <3>1. at' = "idle" /\ UNCHANGED <<child, running>>
      BY <2>4 DEF Conclude, contractVars
    <3>2. \A e \in Deploy : EnvLeft(e)' = EnvLeft(e)
      BY <3>1 DEF EnvLeft
    <3>3. WorkLeft' < WorkLeft
      BY <2>1, <3>1, <3>2, EnvAssumption DEF WorkLeft
    <3> QED
      BY <2>2, <3>3 DEF WearsOut
  <2>5. ASSUME NEW e \in Deploy,
               Coroutine(e) \/ Receive(e) \/ ChildReports(e) \/ ChildWorks(e)
        PROVE  WearsOut
    <3>1. ~Conclude
      BY <2>3, <2>5 DEF Conclude
    <3> QED
      BY <2>3, <2>5, <3>1 DEF WearsOut
  <2> QED
    BY <2>4, <2>5 DEF Next, Promote
<1> QED
  BY Inductive, <1>1, <1>2, PTL DEF Spec
=============================================================================
