-------------------------- MODULE Campaign_proofs ---------------------------
(* The accounts of a campaign are right, cancelling it is prompt and what it *)
(* announces is true: for every list of items and any number of executions.  *)
EXTENDS Campaign, FiniteSetTheorems, TLAPS

\* How far the workflow has come, without the bounds on the counters.
Shape ==
  /\ phase \in Phase
  /\ items \in Lists \cup {<< >>}
  /\ next \in 0..Len(items)
  /\ itemAt \in ItemAt
  /\ state \in [Counter -> Nat]
  /\ byName \in [Workload -> Outcome \cup {"none"}]
  /\ signalled \in BOOLEAN /\ cancelled \in BOOLEAN /\ stopped \in BOOLEAN
  /\ late \in Nat
  /\ told.status \in {"none", "COMPLETED", "CANCELLED"}
  /\ runs \in 0..MaxRuns
  /\ phase = "item" <=> itemAt # "none"
  /\ itemAt # "none" => next > 0

\* Nothing has been processed before the first item, and the loop is left early
\* for the signal only.
LoopInv ==
  /\ phase \in {"absent", "announce"} => next = 0 /\ ~cancelled
  /\ phase \in {"finish", "closed"} =>
       IF stopped THEN next < Len(items) /\ signalled ELSE next = Len(items)

\* Until the flag is set nothing has started late.
PromptInv ==
  /\ cancelled => signalled
  /\ ~cancelled => late = 0
  /\ late <= 1

\* What is told is told at the end.
ToldInv ==
  \/ told.status = "none"
  \/ /\ phase = "closed"
     /\ told.total = Len(items)
     /\ told.status = IF stopped THEN "CANCELLED" ELSE "COMPLETED"
     /\ \A c \in {"succeeded", "failed", "skipped"} : told[c] = state[c]

CampaignInv == Shape /\ Accounting /\ LoopInv /\ PromptInv /\ ToldInv

\* Lists have lengths.
LEMMA Lengths == \A list \in Lists \cup {<< >>} : Len(list) \in Nat
BY ListsAssumption

-----------------------------------------------------------------------------
(* The head of the loop.                                                   *)

\* Wherever the last item ended, the loop goes on or is left as it should.
LEMMA NextItemKeeps ==
  ASSUME CampaignInv, NextItem, phase \in {"announce", "item"}, UNCHANGED told,
         state' \in [Counter -> Nat], byName' \in [Workload -> Outcome \cup {"none"}],
         Processed' = next
  PROVE  CampaignInv'
<1>1. Len(items) \in Nat /\ next \in 0..Len(items)
  BY Lengths DEF CampaignInv, Shape
<1>2. told.status = "none"
  BY DEF CampaignInv, ToldInv
<1>3. CASE StartItem /\ next # Len(items) /\ ~cancelled
  <2>1. Shape'
    BY <1>1, <1>3 DEF CampaignInv, Shape, StartItem, NextItem, Phase, ItemAt
  <2>2. Accounting'
    BY <1>1, <1>3 DEF StartItem, Accounting
  <2>3. LoopInv'
    BY <1>3 DEF StartItem, LoopInv
  <2>4. PromptInv'
    BY <1>3 DEF CampaignInv, Shape, PromptInv, StartItem, NextItem
  <2> QED
    BY <1>2, <2>1, <2>2, <2>3, <2>4 DEF CampaignInv, ToldInv
<1>4. ASSUME NEW early \in BOOLEAN, LeaveLoop(early),
             IF early THEN next < Len(items) /\ cancelled ELSE next = Len(items)
      PROVE  CampaignInv'
  <2>1. Shape'
    BY <1>1, <1>4 DEF CampaignInv, Shape, LeaveLoop, NextItem, Phase, ItemAt
  <2>2. Accounting'
    BY <1>4 DEF LeaveLoop, Accounting
  <2>3. LoopInv'
    BY <1>4 DEF CampaignInv, LeaveLoop, LoopInv, PromptInv, NextItem
  <2>4. PromptInv'
    BY <1>4 DEF CampaignInv, Shape, PromptInv, LeaveLoop, NextItem
  <2> QED
    BY <1>2, <2>1, <2>2, <2>3, <2>4 DEF CampaignInv, ToldInv
<1>5. CASE LeaveLoop(FALSE) /\ next = Len(items)
  BY <1>4, <1>5
<1>6. CASE LeaveLoop(TRUE) /\ next # Len(items) /\ cancelled
  <2>1. next < Len(items)
    BY <1>1, <1>6
  <2> QED
    BY <1>4, <1>6, <2>1
<1> QED
  BY <1>3, <1>5, <1>6 DEF NextItem

\* An item that ends adds one to one counter.
LEMMA ItemDoneKeeps ==
  ASSUME CampaignInv, NEW outcome \in Outcome, itemAt # "none", ItemDone(outcome)
  PROVE  CampaignInv'
<1>1. CounterOf(outcome) \in Counter
  BY DEF CounterOf, Counter, Outcome
<1>2. /\ state \in [Counter -> Nat] /\ next \in Nat /\ next > 0 /\ phase = "item"
      /\ Processed = next - 1
  BY Lengths DEF CampaignInv, Shape, Accounting
<1>3. state' = [state EXCEPT ![CounterOf(outcome)] = @ + 1]
  BY DEF ItemDone
<1>4. state' \in [Counter -> Nat]
  BY <1>1, <1>2, <1>3
<1>5. Processed' = Processed + 1
  BY <1>1, <1>2, <1>3 DEF Processed, Counter
<1>6. byName' \in [Workload -> Outcome \cup {"none"}]
  BY DEF ItemDone, CampaignInv, Shape
<1> QED
  BY <1>2, <1>4, <1>5, <1>6, NextItemKeeps DEF ItemDone

\* The invariant is inductive.
LEMMA StepKeeps ==
  ASSUME CampaignInv, [Next]_vars
  PROVE  CampaignInv'
<1>1. ASSUME NEW list \in Lists, CreateCampaign(list) PROVE CampaignInv'
  <2>1. Len(list) \in Nat
    BY Lengths
  <2>2. Shape'
    <3>1. /\ signalled' \in BOOLEAN /\ cancelled' \in BOOLEAN /\ stopped' \in BOOLEAN
          /\ phase' = "announce" /\ items' = list /\ next' = 0 /\ itemAt' = "none"
          /\ late' = 0 /\ told'.status = "none" /\ runs' = runs + 1 /\ runs < MaxRuns
      BY <1>1 DEF CreateCampaign, Quiet
    <3>2. state' \in [Counter -> Nat] /\ byName' \in [Workload -> Outcome \cup {"none"}]
      BY <1>1 DEF CreateCampaign, Fresh
    <3>3. runs' \in 0..MaxRuns
      BY <3>1, MaxRunsAssumption DEF CampaignInv, Shape
    <3> QED
      BY <2>1, <3>1, <3>2, <3>3 DEF Shape, Phase, ItemAt
  <2>3. Accounting'
    BY <1>1 DEF CreateCampaign, Accounting, Processed, Fresh, Counter
  <2> QED
    BY <1>1, <2>2, <2>3 DEF CampaignInv, CreateCampaign, LoopInv, PromptInv, ToldInv, Quiet
<1>2. ASSUME CancelCampaign \/ ReceiveCancel PROVE CampaignInv'
  <2>1. /\ signalled' /\ (cancelled' => cancelled \/ signalled) /\ (cancelled => cancelled')
        /\ phase \notin {"absent", "closed"} /\ (cancelled' => cancelled \/ phase # "announce")
        /\ signalled' \in BOOLEAN /\ cancelled' \in BOOLEAN
        /\ UNCHANGED <<phase, items, next, itemAt, state, byName, stopped, late, told, runs>>
    <3>1. signalled \in BOOLEAN /\ cancelled \in BOOLEAN
      BY DEF CampaignInv, Shape
    <3>2. CASE CancelCampaign
      <4>1. /\ signalled' = TRUE /\ phase \notin {"absent", "closed"}
            /\ UNCHANGED <<phase, items, next, itemAt, state, byName, cancelled, stopped,
                           late, told, runs>>
        BY <3>2 DEF CancelCampaign
      <4> QED
        BY <3>1, <4>1
    <3>3. CASE ReceiveCancel
      <4>1. /\ signalled = TRUE /\ cancelled' = TRUE /\ phase \in {"item", "finish"}
            /\ UNCHANGED <<phase, items, next, itemAt, state, byName, signalled, stopped,
                           late, told, runs>>
        BY <3>1, <3>3 DEF ReceiveCancel
      <4> QED
        BY <3>1, <4>1
    <3> QED
      BY <1>2, <3>2, <3>3
  <2>2. Shape'
    BY <2>1 DEF CampaignInv, Shape
  <2>3. Accounting'
    BY <2>1 DEF CampaignInv, Accounting, Processed
  <2>4. LoopInv' /\ PromptInv'
    BY <2>1 DEF CampaignInv, LoopInv, PromptInv
  <2>5. ToldInv'
    BY <2>1 DEF CampaignInv, ToldInv
  <2> QED
    BY <2>2, <2>3, <2>4, <2>5 DEF CampaignInv
<1>3. ASSUME Announce PROVE CampaignInv'
  <2>1. Processed' = next
    BY <1>3 DEF CampaignInv, Shape, Accounting, Processed, LoopInv, Announce
  <2> QED
    BY <1>3, <2>1, NextItemKeeps DEF Announce, CampaignInv, Shape
<1>4. ASSUME NEW step \in {"recommend", "promote"}, itemAt # "none", ItemGoesTo(step)
      PROVE  CampaignInv'
  BY <1>4 DEF CampaignInv, Shape, Accounting, Processed, LoopInv, PromptInv, ToldInv,
              ItemGoesTo, ItemAt
<1>5. ASSUME ItemStep PROVE CampaignInv'
  <2>1. "failed" \in Outcome /\ "skipped" \in Outcome
    BY DEF Outcome
  <2> QED
    BY <1>4, <1>5, <2>1, ItemDoneKeeps
    DEF ItemStep, ResolveMapping, GetRecommendation, Promote, LoseItem
<1>6. ASSUME Finish PROVE CampaignInv'
  <2>1. told' = told \/ told'.status = IF stopped THEN "CANCELLED" ELSE "COMPLETED"
    BY <1>6 DEF Finish
  <2>2. Shape'
    BY <1>6, <2>1 DEF CampaignInv, Shape, Finish, Phase
  <2>3. ToldInv'
    BY <1>6 DEF CampaignInv, ToldInv, Finish
  <2> QED
    BY <1>6, <2>2, <2>3 DEF CampaignInv, Accounting, Processed, LoopInv, PromptInv, Finish
<1>7. ASSUME UNCHANGED vars PROVE CampaignInv'
  BY <1>7 DEF CampaignInv, Shape, Accounting, Processed, LoopInv, PromptInv, ToldInv, vars
<1> QED
  BY <1>1, <1>2, <1>3, <1>5, <1>6, <1>7 DEF Next

\* It holds always.
THEOREM Inductive == Spec => []CampaignInv
<1>1. Init => CampaignInv
  <2> SUFFICES ASSUME Init PROVE CampaignInv
    OBVIOUS
  <2>1. signalled \in BOOLEAN /\ cancelled \in BOOLEAN /\ stopped \in BOOLEAN
    BY DEF Init
  <2>2. state \in [Counter -> Nat] /\ byName \in [Workload -> Outcome \cup {"none"}]
    BY DEF Init, Fresh
  <2>3. Shape
    BY <2>1, <2>2, Lengths, MaxRunsAssumption DEF Init, Shape, Phase, ItemAt, Quiet
  <2>4. Accounting
    BY DEF Init, Accounting, Processed, Fresh, Counter
  <2> QED
    BY <2>3, <2>4 DEF Init, CampaignInv, LoopInv, PromptInv, ToldInv, Quiet
<1> QED
  BY <1>1, StepKeeps, PTL DEF Spec

\* Every variable has its type, and no counter exceeds the number of items.
THEOREM TypeCorrect == Spec => []TypeOK
<1>1. CampaignInv => TypeOK
  <2> SUFFICES ASSUME CampaignInv PROVE TypeOK
    OBVIOUS
  <2>1. /\ Len(items) \in Nat /\ next \in 0..Len(items) /\ state \in [Counter -> Nat]
        /\ Processed <= next
    BY Lengths DEF CampaignInv, Shape, Accounting
  <2>2. \A c \in Counter : state[c] \in 0..Len(items)
    BY <2>1 DEF Processed, Counter
  <2>3. state \in [Counter -> 0..Len(items)]
    BY <2>1, <2>2
  <2>4. {signalled, cancelled, stopped} \subseteq BOOLEAN
    BY DEF CampaignInv, Shape
  <2> QED
    BY <2>3, <2>4 DEF CampaignInv, Shape, TypeOK
<1> QED
  BY <1>1, Inductive, PTL

\* The counters account for every item processed (campaign.go:82-98).
THEOREM AccountsAreRight == Spec => []Accounting
BY Inductive, PTL DEF CampaignInv

\* At most one more item starts after a cancel signal (campaign.go:59-71).
THEOREM CancelsPromptly == Spec => []CancelPrompt
<1>1. CampaignInv => CancelPrompt
  BY DEF CampaignInv, PromptInv, CancelPrompt
<1> QED
  BY <1>1, Inductive, PTL

\* What a campaign announces at its end is true (campaign.go:100-115).
THEOREM AnnouncementsAreTrue == Spec => []CompletionTruth
<1>1. CampaignInv => CompletionTruth
  <2> SUFFICES ASSUME CampaignInv, told.status # "none" PROVE CompletionTruth
    BY DEF CompletionTruth
  <2>1. /\ phase = "closed" /\ itemAt = "none" /\ told.total = Len(items)
        /\ told.status = IF stopped THEN "CANCELLED" ELSE "COMPLETED"
        /\ \A c \in {"succeeded", "failed", "skipped"} : told[c] = state[c]
    BY DEF CampaignInv, ToldInv, Shape
  <2>2. IF stopped THEN next < Len(items) /\ signalled ELSE next = Len(items)
    BY <2>1 DEF CampaignInv, LoopInv
  <2>3. Processed = next
    BY <2>1 DEF CampaignInv, Accounting
  <2> QED
    BY <2>1, <2>2, <2>3 DEF CompletionTruth, Processed
<1> QED
  BY <1>1, Inductive, PTL

-----------------------------------------------------------------------------
(* Statuses by name.                                                       *)

\* The workloads that counter c counts.
Of(c) == {w \in Workload : byName[w] # "none" /\ CounterOf(byName[w]) = c}

\* The items still to be processed have no status yet.
NamesInv ==
  Distinct(items) =>
    /\ \A i \in 1..Len(items) : i > Processed => byName[items[i].name] = "none"
    /\ \A c \in Counter : state[c] = Cardinality(Of(c))

\* Items have names, and the next one is the first without a status.
LEMMA NextName ==
  ASSUME CampaignInv, itemAt # "none"
  PROVE  /\ next \in 1..Len(items) /\ Len(items) \in Nat /\ Processed = next - 1
         /\ items[next].name \in Workload
<1>1. next \in 1..Len(items) /\ Len(items) \in Nat /\ Processed = next - 1
  BY Lengths DEF CampaignInv, Shape, Accounting
<1>2. items \in Seq(Item)
  BY <1>1, ListsAssumption DEF CampaignInv, Shape
<1>3. items[next] \in Item
  BY <1>1, <1>2
<1> QED
  BY <1>1, <1>3 DEF Item

\* An item that ends gives its workload its first status.
LEMMA ItemDoneNames ==
  ASSUME CampaignInv, NamesInv, NEW outcome \in Outcome, itemAt # "none", ItemDone(outcome)
  PROVE  NamesInv'
<1> DEFINE name == items[next].name
<1>1. /\ next \in 1..Len(items) /\ Len(items) \in Nat /\ Processed = next - 1 /\ name \in Workload
  BY NextName
<1>2. /\ state \in [Counter -> Nat] /\ byName \in [Workload -> Outcome \cup {"none"}]
  BY DEF CampaignInv, Shape
<1>3. /\ state' = [state EXCEPT ![CounterOf(outcome)] = @ + 1]
      /\ byName' = [byName EXCEPT ![name] = outcome] /\ items' = items
  BY DEF ItemDone, NextItem
<1>4. CounterOf(outcome) \in Counter /\ outcome # "none"
  BY DEF CounterOf, Counter, Outcome
<1>5. Processed' = next
  <2>1. Processed' = Processed + 1
    BY <1>2, <1>3, <1>4 DEF Processed, Counter
  <2> QED
    BY <1>1, <2>1
<1> SUFFICES ASSUME Distinct(items)
             PROVE  /\ \A i \in 1..Len(items) : i > next => byName'[items[i].name] = "none"
                    /\ \A c \in Counter : state'[c] = Cardinality(Of(c)')
  BY <1>3, <1>5 DEF NamesInv, Distinct
<1>6. byName[name] = "none"
  BY <1>1 DEF NamesInv
<1>7. ASSUME NEW i \in 1..Len(items), i > next PROVE byName'[items[i].name] = "none"
  <2>1. items[i].name # name
    <3>1. DOMAIN items = 1..Len(items)
      BY ListsAssumption DEF CampaignInv, Shape
    <3> QED
      BY <1>1, <1>7, <3>1 DEF Distinct
  <2>2. byName[items[i].name] = "none"
    BY <1>1, <1>7 DEF NamesInv
  <2> HIDE DEF name
  <2> QED
    BY <1>2, <1>3, <2>1, <2>2
<1> HIDE DEF name
<1>8. ASSUME NEW c \in Counter PROVE state'[c] = Cardinality(Of(c)')
  <2>1. IsFiniteSet(Of(c))
    BY WorkloadAssumption, FS_Subset DEF Of
  <2>2. state[c] = Cardinality(Of(c)) /\ state[c] \in Nat /\ name \notin Of(c)
    BY <1>2, <1>6 DEF NamesInv, Of
  <2>3. \A w \in Workload : byName'[w] = IF w = name THEN outcome ELSE byName[w]
    BY <1>2, <1>3
  <2>4. CASE c = CounterOf(outcome)
    <3>1. Of(c)' = Of(c) \cup {name}
      BY <1>1, <1>4, <2>3, <2>4 DEF Of
    <3>2. Cardinality(Of(c) \cup {name}) = Cardinality(Of(c)) + 1
      BY <2>1, <2>2, FS_AddElement
    <3> QED
      BY <1>2, <1>3, <2>2, <2>4, <3>1, <3>2
  <2>5. CASE c # CounterOf(outcome)
    <3>1. Of(c)' = Of(c)
      BY <1>4, <1>6, <2>3, <2>5 DEF Of
    <3> QED
      BY <1>2, <1>3, <2>2, <2>5, <3>1
  <2> QED
    BY <2>4, <2>5
<1> QED
  BY <1>7, <1>8

\* With distinct names the status of every item is kept and agrees with the
\* counters (campaign.go:87-97).
THEOREM StatusesAgree == Spec => []ItemsAgree
<1>1. Init => NamesInv
  <2> SUFFICES ASSUME Init PROVE NamesInv
    OBVIOUS
  <2>1. \A c \in Counter : Of(c) = {} /\ state[c] = 0
    BY DEF Init, Of, Fresh
  <2>2. Len(items) = 0
    BY DEF Init
  <2>3. \A i \in 1..Len(items) : i > Processed => byName[items[i].name] = "none"
    BY <2>2
  <2>4. ASSUME NEW c \in Counter PROVE state[c] = Cardinality(Of(c))
    <3>1. Cardinality({}) = 0
      BY FS_EmptySet
    <3> QED
      BY <2>1, <3>1
  <2> QED
    BY <2>3, <2>4 DEF NamesInv
<1>2. CampaignInv /\ NamesInv /\ [Next]_vars => NamesInv'
  <2> SUFFICES ASSUME CampaignInv, NamesInv, [Next]_vars PROVE NamesInv'
    OBVIOUS
  <2>1. ASSUME NEW list \in Lists, CreateCampaign(list) PROVE NamesInv'
    <3>1. \A c \in Counter : Of(c)' = {} /\ state'[c] = 0
      BY <2>1 DEF CreateCampaign, Of, Fresh
    <3>2. items' = list /\ byName' = [w \in Workload |-> "none"]
      BY <2>1 DEF CreateCampaign
    <3>3. \A i \in 1..Len(list) : list[i].name \in Workload
      <4>1. list \in Seq(Item)
        BY ListsAssumption
      <4>2. \A i \in 1..Len(list) : list[i] \in Item
        BY <4>1
      <4> QED
        BY <4>2 DEF Item
    <3> QED
      BY <3>1, <3>2, <3>3, FS_EmptySet DEF NamesInv
  <2>2. ASSUME UNCHANGED <<items, state, byName>> PROVE NamesInv'
    BY <2>2 DEF NamesInv, Distinct, Of, Processed
  <2>3. ASSUME ItemStep PROVE NamesInv'
    <3>1. "failed" \in Outcome /\ "skipped" \in Outcome
      BY DEF Outcome
    <3> QED
      BY <2>2, <2>3, <3>1, ItemDoneNames
      DEF ItemStep, ResolveMapping, GetRecommendation, Promote, LoseItem, ItemGoesTo
  <2>4. ASSUME CancelCampaign \/ ReceiveCancel \/ Announce \/ Finish \/ UNCHANGED vars
        PROVE  UNCHANGED <<items, state, byName>>
    BY <2>4 DEF CancelCampaign, ReceiveCancel, Announce, NextItem, Finish, vars
  <2> QED
    BY <2>1, <2>2, <2>3, <2>4 DEF Next
<1>3. NamesInv => ItemsAgree
  BY DEF NamesInv, ItemsAgree, Of
<1> QED
  BY <1>1, <1>2, <1>3, Inductive, PTL DEF Spec

-----------------------------------------------------------------------------
(* A campaign wears itself out.                                            *)

\* What is left to do: of an item up to three steps, and one to begin it.
ItemLeft == [none |-> 0, promote |-> 1, recommend |-> 2, resolve |-> 3]

StepsLeft ==
  CASE phase = "announce" -> 4 * Len(items) + 2
    [] phase = "item"     -> 4 * (Len(items) - next) + ItemLeft[itemAt] + 1
    [] phase = "finish"   -> 1
    [] OTHER              -> 0

Running == phase \notin {"absent", "closed"}

\* What a running campaign waits for is an answer that leads on.
Bounded ==
  /\ StepsLeft \in 0..(4 * Len(items) + 2)
  /\ Running <=> StepsLeft # 0
  /\ Running => phase \in {"announce", "finish"} \/ (itemAt # "none" /\ next \in 1..Len(items))

\* Every step of a campaign leaves it less to do, and no call gives it more.
WearsOut ==
  Running => /\ StepsLeft' <= StepsLeft
             /\ Announce \/ ItemStep \/ Finish => StepsLeft' < StepsLeft

LEMMA BoundedSteps == Shape => Bounded
<1> SUFFICES ASSUME Shape PROVE Bounded
  OBVIOUS
<1>1. /\ Len(items) \in Nat /\ next \in 0..Len(items) /\ itemAt \in ItemAt /\ phase \in Phase
      /\ itemAt # "none" => next > 0
      /\ phase = "item" <=> itemAt # "none"
  BY Lengths DEF Shape
<1> QED
  BY <1>1 DEF Bounded, StepsLeft, ItemLeft, Running, ItemAt, Phase

\* Where an item ends the next begins, or the campaign is finished.
LEMMA NextItemLowers ==
  ASSUME Shape, NextItem, (phase = "announce" /\ next = 0) \/ phase = "item"
  PROVE  StepsLeft' < StepsLeft
<1>1. /\ Len(items) \in Nat /\ next \in 0..Len(items) /\ itemAt \in ItemAt
      /\ itemAt # "none" => next > 0
      /\ phase = "item" <=> itemAt # "none"
      /\ items' = items
  BY Lengths DEF Shape, NextItem
<1>2. CASE StartItem /\ next # Len(items)
  <2>1. StepsLeft' = 4 * (Len(items) - (next + 1)) + 3 + 1
    BY <1>1, <1>2 DEF StartItem, StepsLeft, ItemLeft
  <2> QED
    BY <1>1, <1>2, <2>1 DEF StepsLeft, ItemLeft, ItemAt
<1>3. ASSUME NEW early, LeaveLoop(early) PROVE StepsLeft' < StepsLeft
  <2>1. StepsLeft' = 1
    BY <1>3 DEF LeaveLoop, StepsLeft
  <2> QED
    BY <1>1, <2>1 DEF StepsLeft, ItemLeft, ItemAt
<1> QED
  BY <1>2, <1>3 DEF NextItem

\* Whatever becomes of its items, and whether it is cancelled or not, a campaign
\* of n items closes within 4 n + 2 steps of its own (campaign.go:29-118): what
\* Closes needs besides fairness.
THEOREM CampaignsWearOut == Spec => []Bounded /\ [][WearsOut]_vars
<1>1. CampaignInv => Bounded
  BY BoundedSteps DEF CampaignInv
<1>2. CampaignInv /\ [Next]_vars => [WearsOut]_vars
  <2> SUFFICES ASSUME CampaignInv, [Next]_vars, Running PROVE WearsOut
    BY DEF WearsOut
  <2>0. /\ Shape /\ (phase = "announce" => next = 0)
        /\ Len(items) \in Nat /\ next \in 0..Len(items) /\ itemAt \in ItemAt
        /\ itemAt # "none" => next > 0 /\ phase = "item"
        /\ phase \in Phase
    BY Lengths DEF CampaignInv, Shape, LoopInv
  <2>n. StepsLeft \in Nat
    BY <2>0, BoundedSteps DEF Bounded
  <2>d. ASSUME NEW outcome \in Outcome, ItemDone(outcome), itemAt # "none"
        PROVE  StepsLeft' < StepsLeft
    BY <2>0, <2>d, NextItemLowers DEF ItemDone
  <2>1. ASSUME Announce PROVE StepsLeft' < StepsLeft
    BY <2>0, <2>1, NextItemLowers DEF Announce
  <2>2. ASSUME ItemStep PROVE StepsLeft' < StepsLeft
    <3>1. ASSUME NEW q \in {"recommend", "promote"}, ItemGoesTo(q), itemAt # "none",
                 ItemLeft[q] < ItemLeft[itemAt]
          PROVE  StepsLeft' < StepsLeft
      <4>1. /\ StepsLeft' = 4 * (Len(items) - next) + ItemLeft[q] + 1
            /\ StepsLeft = 4 * (Len(items) - next) + ItemLeft[itemAt] + 1
        BY <2>0, <3>1 DEF ItemGoesTo, StepsLeft
      <4> QED
        BY <2>0, <3>1, <4>1 DEF ItemLeft, ItemAt
    <3>2. "failed" \in Outcome /\ "skipped" \in Outcome
      BY DEF Outcome
    <3>3. CASE ResolveMapping
      BY <2>d, <3>1, <3>2, <3>3 DEF ResolveMapping, ItemLeft
    <3>4. CASE GetRecommendation
      BY <2>d, <3>1, <3>2, <3>4 DEF GetRecommendation, ItemLeft
    <3>5. CASE Promote \/ LoseItem
      BY <2>d, <3>2, <3>5 DEF Promote, LoseItem
    <3> QED
      BY <2>2, <3>3, <3>4, <3>5 DEF ItemStep
  <2>3. ASSUME Finish PROVE StepsLeft' < StepsLeft
    BY <2>3 DEF Finish, StepsLeft
  <2>4. ASSUME CancelCampaign \/ ReceiveCancel \/ UNCHANGED vars PROVE StepsLeft' = StepsLeft
    BY <2>4 DEF CancelCampaign, ReceiveCancel, vars, StepsLeft
  <2>5. ~(\E list \in Lists : CreateCampaign(list))
    BY DEF CreateCampaign, Running
  <2>6. StepsLeft' < StepsLeft \/ StepsLeft' = StepsLeft
    BY <2>1, <2>2, <2>3, <2>4, <2>5 DEF Next
  <2>7. StepsLeft' \in Nat
    <3>1. CampaignInv'
      BY StepKeeps
    <3>2. CampaignInv' => Bounded'
      BY <1>1, PTL
    <3>3. Len(items)' \in Nat
      BY <3>1, Lengths DEF CampaignInv, Shape
    <3> QED
      BY <3>1, <3>2, <3>3 DEF Bounded
  <2> QED
    BY <2>1, <2>2, <2>3, <2>6, <2>7, <2>n DEF WearsOut
<1> QED
  BY Inductive, <1>1, <1>2, PTL DEF Spec
=============================================================================
