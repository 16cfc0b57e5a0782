------------------------ MODULE Comprehensive_proofs -------------------------
(* A comprehensive run launches what it announced, within the cap, respects  *)
(* a disabled policy, and its items are heard of unless they failed: for     *)
(* every number of workloads and every cap.                                  *)
EXTENDS Comprehensive, FiniteSetTheorems, TLAPS

\* The types, all but that of announced, which Counted bounds.
RunTypes ==
  /\ at \in Step /\ manual \in BOOLEAN /\ policy \in Policy /\ mode \in Mode
  /\ found \subseteq Workload
  /\ item \in [Workload -> ItemStep]
  /\ outcome \in [Workload -> Final \cup {"none"}]
  /\ reason \in [Workload -> Reason \cup {"none"}]
  /\ heard \in [Workload -> Final \cup {"none"}]
  /\ lost \in [Workload -> BOOLEAN]

\* The total is announced before the launch, and is how many are launched.
Counted ==
  /\ at \in {"policy", "list", "started"} => announced = 0
  /\ announced # 0 => announced = TotalToLaunch(Cardinality(found))
  /\ at \in {"policy", "list", "started", "launch"} => Launched = {}
  /\ Launched # {} =>
       Cardinality(Launched) = TotalToLaunch(Cardinality(found))

\* A disabled policy lets only a run by hand go on, and never one that merges.
Permitted ==
  policy.mode = "disabled" =>
    /\ at \in {"list", "started", "launch"} \/ Launched # {} => manual
    /\ mode # "auto_merge"
    /\ \A w \in Workload : outcome[w] # "pr_merged"

\* What has become of an item, and what titlis-api knows of it.
ItemInv(w) ==
  /\ item[w] \notin {"notify", "done"} => outcome[w] = "none"
  /\ item[w] = "notify" => outcome[w] # "none"
  /\ item[w] # "done" => heard[w] = "none"
  /\ item[w] = "done" /\ heard[w] # "none" => heard[w] = outcome[w]
  /\ manual /\ item[w] = "done" /\ heard[w] = "none" =>
       lost[w] \/ (outcome[w] = "failed" /\ reason[w] # "promote")

RunInv == RunTypes /\ Counted /\ Permitted /\ \A w \in Workload : ItemInv(w)

\* Both the total and the loop apply the cap.
LEMMA TotalFits ==
  ASSUME NEW n \in Nat, policy \in Policy
  PROVE  TotalToLaunch(n) \in Nat /\ TotalToLaunch(n) <= policy.cap
<1>1. policy.cap \in Nat
  BY CapAssumption DEF Policy
<1> QED
  BY <1>1 DEF TotalToLaunch

LEMMA RunInit == Init => RunInv
<1> SUFFICES ASSUME Init PROVE RunInv
  OBVIOUS
<1>1. RunTypes /\ Launched = {}
  BY DEF Init, RunTypes, Step, ItemStep, Launched, Policy
<1> QED
  BY <1>1 DEF Init, RunInv, Counted, Permitted, ItemInv

\* A step of the parent that starts no item.
LEMMA RunWaits ==
  ASSUME RunInv, GetPolicy \/ ListAllFindings \/ NotifyStarted
                   \/ NotifyCompleted \/ NotifyDiscovered
  PROVE  RunInv'
<1> USE DEF RunInv
<1>0. UNCHANGED <<manual, policy, item, outcome, reason, heard, lost>>
  BY DEF GetPolicy, ListAllFindings, NotifyStarted, NotifyCompleted,
     NotifyDiscovered, Goes, itemVars
<1>1. Launched' = Launched /\ \A w \in Workload : ItemInv(w)'
  BY <1>0 DEF Launched, ItemInv
<1>2. at' \in Step /\ mode' \in Mode /\ found' \subseteq Workload
  BY DEF RunTypes, GetPolicy, ListAllFindings, NotifyStarted, NotifyCompleted,
     NotifyDiscovered, Goes, Step, Policy, Mode, ManualMode
<1>3. RunTypes'
  BY <1>0, <1>2 DEF RunTypes
<1>4. Counted'
  <2>1. CASE ListAllFindings
    BY <1>1, <2>1 DEF Counted, ListAllFindings, Goes
  <2>2. CASE NotifyStarted
    BY <1>0, <1>1, <2>2 DEF Counted, NotifyStarted, TotalToLaunch
  <2>3. CASE GetPolicy \/ NotifyCompleted \/ NotifyDiscovered
    <3>1. announced' = announced /\ found' = found
      BY <2>3 DEF GetPolicy, NotifyCompleted, NotifyDiscovered, Goes
    <3> QED
      BY <1>0, <1>1, <2>3, <3>1 DEF Counted, GetPolicy, NotifyCompleted,
         NotifyDiscovered, Goes, TotalToLaunch
  <2> QED
    BY <2>1, <2>2, <2>3
<1>5. Permitted'
  BY <1>0, <1>1 DEF Permitted, Counted, GetPolicy, ListAllFindings,
     NotifyStarted, NotifyCompleted, NotifyDiscovered, Goes, ManualMode
<1> QED
  BY <1>1, <1>3, <1>4, <1>5

LEMMA RunLaunches ==
  ASSUME RunInv, Launch
  PROVE  RunInv'
<1> USE DEF RunInv
<1>0. /\ at = "launch" /\ at' \in {"completed", "discovered"} /\ Launched = {}
      /\ UNCHANGED <<manual, policy, mode, found, announced, outcome, reason, heard, lost>>
  BY DEF Launch, Counted
<1>1. PICK batch \in SUBSET found :
        /\ IF Cardinality(found) <= policy.cap THEN batch = found
                                              ELSE Cardinality(batch) = policy.cap
        /\ item' = [w \in Workload |-> IF w \in batch THEN "resolve" ELSE item[w]]
  BY DEF Launch
<1>2. RunTypes'
  BY <1>0, <1>1 DEF RunTypes, Step, ItemStep
<1>3. \A w \in Workload : item[w] = "absent"
  BY <1>0 DEF Launched
<1>4. Launched' = batch
  BY <1>1, <1>3 DEF Launched, RunTypes
<1>5. Cardinality(batch) = TotalToLaunch(Cardinality(found))
  <2>1. Cardinality(found) \in Nat /\ policy.cap \in Nat
    BY WorkloadAssumption, CapAssumption, FS_Subset, FS_CardinalityType DEF RunTypes, Policy
  <2> QED
    BY <1>1, <2>1 DEF TotalToLaunch
<1>6. Counted'
  BY <1>0, <1>4, <1>5 DEF Counted, TotalToLaunch
<1>7. Permitted'
  BY <1>0 DEF Permitted
<1>8. ASSUME NEW w \in Workload PROVE ItemInv(w)'
  BY <1>0, <1>1, <1>3 DEF ItemInv
<1> QED
  BY <1>2, <1>6, <1>7, <1>8

\* A step of an item: it is launched and stays so, and it ends as it may.
LEMMA ItemSteps ==
  ASSUME RunInv, NEW w \in Workload, Item(w)
  PROVE  RunInv'
<1> USE DEF RunInv
<1>0. /\ UNCHANGED <<at, manual, policy, mode, found, announced>>
      /\ \E s \in ItemStep \ {"absent"} : item' = [item EXCEPT ![w] = s]
      /\ item[w] # "absent"
  BY DEF Item, ResolveMapping, FetchManifest, GenerateComprehensivePatch,
     Promote, NotifyItem, ItemGoes, Settle, Fail, Results, parentVars,
     ItemStep
<1>1. /\ \/ outcome' = outcome
         \/ \E o \in Final : /\ outcome' = [outcome EXCEPT ![w] = o]
                             /\ o = "pr_merged" => mode = "auto_merge"
      /\ \/ reason' = reason
         \/ item[w] \in Reason /\ reason' = [reason EXCEPT ![w] = item[w]]
      /\ heard' = heard \/ heard' = [heard EXCEPT ![w] = outcome[w]]
      /\ lost' = lost \/ lost' = [lost EXCEPT ![w] = TRUE]
  BY DEF Item, ResolveMapping, FetchManifest, GenerateComprehensivePatch,
     Promote, NotifyItem, ItemGoes, Settle, Fail, Results, Final, Reason
<1>2. RunTypes'
  <2>1. item' \in [Workload -> ItemStep]
    BY <1>0 DEF RunTypes
  <2>2. outcome' \in [Workload -> Final \cup {"none"}]
    BY <1>1 DEF RunTypes
  <2>3. reason' \in [Workload -> Reason \cup {"none"}]
    BY <1>1 DEF RunTypes
  <2>4. heard' \in [Workload -> Final \cup {"none"}]
    BY <1>1 DEF RunTypes
  <2>5. lost' \in [Workload -> BOOLEAN]
    BY <1>1 DEF RunTypes
  <2> QED
    BY <1>0, <2>1, <2>2, <2>3, <2>4, <2>5 DEF RunTypes
<1>3. Launched' = Launched
  BY <1>0 DEF Launched, RunTypes
<1>4. Counted'
  BY <1>0, <1>3 DEF Counted, TotalToLaunch
<1>5. Permitted'
  BY <1>0, <1>1, <1>3 DEF Permitted, RunTypes
<1>6. ASSUME NEW v \in Workload \ {w} PROVE ItemInv(v)'
  <2>1. UNCHANGED <<item[v], outcome[v], reason[v], heard[v], lost[v]>>
    BY <1>0, <1>1 DEF RunTypes
  <2> QED
    BY <1>0, <2>1 DEF ItemInv
<1>7. ItemInv(w)'
  <2>0. ItemInv(w)
    OBVIOUS
  <2>1. ASSUME NEW s, ItemGoes(w, s), item[w] \notin {"notify", "done"},
               s \notin {"notify", "done"}
        PROVE  ItemInv(w)'
    BY <2>0, <2>1 DEF ItemInv, ItemGoes, RunTypes, parentVars
  <2>2. ASSUME NEW o \in Final, Settle(w, o), item[w] \notin {"notify", "done"}
        PROVE  ItemInv(w)'
    BY <2>0, <2>2 DEF ItemInv, Settle, Results, RunTypes, parentVars, Final
  <2>3. ASSUME Fail(w), item[w] \in {"resolve", "fetch", "generate"} PROVE ItemInv(w)'
    BY <2>0, <2>3 DEF ItemInv, Fail, Results, RunTypes, parentVars
  <2>4. CASE NotifyItem(w)
    BY <2>0, <2>4 DEF ItemInv, NotifyItem, RunTypes, parentVars
  <2> QED
    BY <2>1, <2>2, <2>3, <2>4 DEF Item, ResolveMapping, FetchManifest,
       GenerateComprehensivePatch, Promote, Final
<1> QED
  BY <1>2, <1>4, <1>5, <1>6, <1>7

\* The invariant of a comprehensive run, for any workloads and caps.
THEOREM RunInductive == Spec => []RunInv
<1>1. RunInv /\ [Next]_vars => RunInv'
  <2>1. RunInv /\ UNCHANGED vars => RunInv'
    BY DEF RunInv, RunTypes, Counted, Permitted, ItemInv, vars, parentVars,
       itemVars, Launched, TotalToLaunch
  <2> QED
    BY <2>1, RunWaits, RunLaunches, ItemSteps DEF Next, Parent
<1> QED
  BY <1>1, RunInit, PTL DEF Spec

\* Every variable has its type, and no more items are announced than were found.
THEOREM TypeCorrect == Spec => []TypeOK
<1>1. RunInv => TypeOK
  <2> SUFFICES ASSUME RunInv PROVE announced \in 0..Cardinality(found)
    BY DEF RunInv, RunTypes, TypeOK
  <2>1. Cardinality(found) \in Nat
    BY WorkloadAssumption, FS_Subset, FS_CardinalityType DEF RunInv, RunTypes
  <2>2. announced = 0 \/ announced = TotalToLaunch(Cardinality(found))
    BY DEF RunInv, Counted
  <2>3. policy.cap \in Nat
    BY CapAssumption DEF RunInv, RunTypes, Policy
  <2> QED
    BY <2>1, <2>2, <2>3 DEF TotalToLaunch
<1> QED
  BY <1>1, RunInductive, PTL

\* Exactly as many items are launched as titlis-api was announced, within the cap
\* (discover_comprehensive.go:59-109).
THEOREM AnnouncementKept == Spec => []AnnouncedTruth
<1>1. RunInv => AnnouncedTruth
  <2> SUFFICES ASSUME RunInv, Launched # {}
               PROVE  /\ Cardinality(Launched) <= policy.cap
                      /\ announced # 0 => Cardinality(Launched) = announced
    BY DEF AnnouncedTruth
  <2>1. policy \in Policy /\ found \subseteq Workload
    BY DEF RunInv, RunTypes
  <2>2. Cardinality(found) \in Nat
    BY <2>1, WorkloadAssumption, FS_Subset, FS_CardinalityType
  <2> QED
    BY <2>1, <2>2, TotalFits DEF RunInv, Counted
<1> QED
  BY <1>1, RunInductive, PTL

\* A disabled policy lets no scheduled run launch anything and no run by hand merge
\* (discover_comprehensive.go:27-36).
THEOREM DisabledKept == Spec => []DisabledRespected
<1>1. RunInv => DisabledRespected
  BY DEF RunInv, Permitted, DisabledRespected, Launched
<1> QED
  BY <1>1, RunInductive, PTL

\* An item that ends unheard of had failed before its promotion or its event was
\* lost, and what is heard is its outcome (comprehensive_item.go:42-60, 76-78, 91-98,
\* 131-136).
THEOREM ItemsHeard == Spec => []HeardOrFailed
<1>1. RunInv => HeardOrFailed
  BY DEF RunInv, ItemInv, HeardOrFailed
<1> QED
  BY <1>1, RunInductive, PTL

-----------------------------------------------------------------------------
(* A run and its items wear themselves out.                                *)

\* Steps to go of the parent and of an item that was launched.
ParentLeft == [policy |-> 6, list |-> 5, started |-> 4, launch |-> 3, completed |-> 2,
               discovered |-> 1, closed |-> 0]
ItemLeft == [absent |-> 0, resolve |-> 5, fetch |-> 4, generate |-> 3, promote |-> 2,
             notify |-> 1, done |-> 0]

\* Every step of the parent leaves it less to do, every step of an item leaves the
\* item less to do, nobody else moves either, and an item is launched at most once:
\* by the parent, before any other.
WearsOut ==
  /\ ParentLeft[at'] <= ParentLeft[at]
  /\ Parent => ParentLeft[at'] < ParentLeft[at]
  /\ \A w \in Workload :
       /\ item[w] # "absent" => item'[w] # "absent" /\ ItemLeft[item'[w]] <= ItemLeft[item[w]]
       /\ Item(w) => ItemLeft[item'[w]] < ItemLeft[item[w]]
       /\ item[w] = "absent" /\ item'[w] # "absent" => at = "launch" /\ Launched = {}

\* However many items run at once, each ends within five steps of its own after it
\* was launched (comprehensive_item.go), and the parent within six
\* (discover_comprehensive.go): what ItemsEnd needs besides fairness.
THEOREM ItemsWearOut == Spec => [][WearsOut]_vars
<1>1. RunInv /\ [Next]_vars => [WearsOut]_vars
  <2> SUFFICES ASSUME RunInv, [Next]_vars PROVE WearsOut \/ UNCHANGED vars
    OBVIOUS
  <2>0. /\ at \in Step /\ item \in [Workload -> ItemStep]
        /\ at = "launch" => Launched = {}
        /\ \A s \in ItemStep : ItemLeft[s] \in 0..5
        /\ \A s \in Step : ParentLeft[s] \in 0..6
    BY DEF RunInv, RunTypes, Counted, ItemStep, ItemLeft, ParentLeft, Step
  <2>1. CASE Parent /\ at # "launch"
    <3>1. UNCHANGED item /\ at' \in Step /\ ParentLeft[at'] < ParentLeft[at]
      BY <2>1 DEF Parent, GetPolicy, ListAllFindings, NotifyStarted, Launch,
         NotifyCompleted, NotifyDiscovered, Goes, itemVars, ParentLeft, Step
    <3>2. ASSUME NEW w \in Workload PROVE ~Item(w)
      BY <2>1 DEF Parent, GetPolicy, ListAllFindings, NotifyStarted, Launch,
         NotifyCompleted, NotifyDiscovered, Goes, Item, ResolveMapping, FetchManifest,
         GenerateComprehensivePatch, Promote, NotifyItem, ItemGoes, Settle, Fail, Results,
         parentVars
    <3> QED
      BY <2>0, <3>1, <3>2 DEF WearsOut
  <2>2. CASE Launch
    <3>1. /\ at = "launch" /\ at' \in {"completed", "discovered"} /\ Launched = {}
          /\ \A w \in Workload : item[w] = "absent" /\ ~Item(w)
      BY <2>0, <2>2 DEF Launch, Launched, Item, ResolveMapping, FetchManifest,
         GenerateComprehensivePatch, Promote, NotifyItem
    <3>2. ParentLeft[at'] < ParentLeft[at]
      BY <3>1 DEF ParentLeft
    <3> QED
      BY <2>0, <3>1, <3>2 DEF WearsOut, ParentLeft
  <2>3. ASSUME NEW w \in Workload, Item(w)
        PROVE  /\ at' = at /\ ~Parent /\ item[w] # "absent"
               /\ \E s \in ItemStep \ {"absent"} : item' = [item EXCEPT ![w] = s]
                                                   /\ ItemLeft[s] < ItemLeft[item[w]]
    <3>1. at' = at /\ item[w] # "absent"
      BY <2>3 DEF Item, ResolveMapping, FetchManifest, GenerateComprehensivePatch,
         Promote, NotifyItem, ItemGoes, Settle, Fail, Results, parentVars
    <3>2. ~Parent
      BY <3>1 DEF Parent, GetPolicy, ListAllFindings, NotifyStarted, Launch,
         NotifyCompleted, NotifyDiscovered, Goes
    <3>3. \E s \in ItemStep \ {"absent"} : item' = [item EXCEPT ![w] = s]
                                           /\ ItemLeft[s] < ItemLeft[item[w]]
      BY <2>3 DEF Item, ResolveMapping, FetchManifest, GenerateComprehensivePatch,
         Promote, NotifyItem, ItemGoes, Settle, Fail, Results, ItemStep, ItemLeft
    <3> QED
      BY <3>1, <3>2, <3>3
  <2>4. ASSUME NEW w \in Workload, Item(w) PROVE WearsOut
    <3>1. at' = at /\ ~Parent
      BY <2>3, <2>4
    <3>2. ASSUME NEW v \in Workload PROVE
            \/ item'[v] = item[v] /\ ~Item(v)
            \/ item[v] # "absent" /\ item'[v] # "absent"
                 /\ ItemLeft[item'[v]] < ItemLeft[item[v]]
      <4>1. PICK s \in ItemStep \ {"absent"} : item' = [item EXCEPT ![w] = s]
                                               /\ ItemLeft[s] < ItemLeft[item[w]]
        BY <2>3, <2>4
      <4>2. CASE v = w
        BY <2>0, <2>3, <2>4, <4>1, <4>2
      <4>3. CASE v # w /\ ~Item(v)
        BY <2>0, <4>1, <4>3
      <4>4. CASE Item(v)
        <5>1. PICK q \in ItemStep \ {"absent"} : item' = [item EXCEPT ![v] = q]
                                                 /\ ItemLeft[q] < ItemLeft[item[v]]
          BY <2>3, <4>4
        <5> QED
          BY <2>0, <2>3, <4>4, <5>1
      <4> QED
        BY <4>2, <4>3, <4>4
    <3>3. ASSUME NEW v \in Workload
          PROVE  /\ item[v] # "absent" => item'[v] # "absent"
                                          /\ ItemLeft[item'[v]] <= ItemLeft[item[v]]
                 /\ Item(v) => ItemLeft[item'[v]] < ItemLeft[item[v]]
                 /\ ~(item[v] = "absent" /\ item'[v] # "absent")
      <4>1. ItemLeft[item[v]] \in Nat /\ item'[v] \in ItemStep \cup {item[v]}
        BY <2>0, <2>3, <2>4
      <4> QED
        BY <2>0, <3>2, <4>1
    <3> QED
      BY <2>0, <3>1, <3>3 DEF WearsOut
  <2>5. CASE Parent /\ at = "launch"
    BY <2>2, <2>5 DEF Parent, GetPolicy, ListAllFindings, NotifyStarted,
       NotifyCompleted, NotifyDiscovered
  <2> QED
    BY <2>1, <2>4, <2>5 DEF Next
<1> QED
  BY RunInductive, <1>1, PTL DEF Spec
==============================================================================
