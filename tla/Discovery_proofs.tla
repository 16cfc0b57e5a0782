-------------------------- MODULE Discovery_proofs ---------------------------
(* DiscoverDriftWorkflow forgets no finding, keeps to the cap, uses it up,   *)
(* and ends: for every number of workloads, repositories and runs and every  *)
(* cap.                                                                      *)
EXTENDS Discovery, FiniteSetTheorems, TLAPS

\* Nothing of an earlier run is left when findings are listed.
Fresh ==
  at \in {"policy", "list"} =>
    /\ found = {} /\ todo = {} /\ groups = Empty /\ orphans = {}
    /\ launched = 0 /\ started = {}

\* A group holds workloads of its repository, looked up before.
Grouped == \A r \in Repo : \A w \in groups[r] : RepoOf[w] = r /\ w \notin todo \cup orphans

\* A finding looked up is in the group of its repository, or reported.
Sorted ==
  /\ orphans \cap todo = {}
  /\ \A w \in found \ (todo \cup orphans) : RepoOf[w] \in Repo /\ w \in groups[RepoOf[w]]

\* How far the run has come.
Staged ==
  /\ at = "launch" => todo = {}
  /\ at \in {"list", "resolve", "launch", "announce"} => policy.enabled
  /\ started # {} => policy.enabled /\ \E r \in Repo : started \subseteq groups[r]

DriftInv == TypeOK /\ Fresh /\ Grouped /\ Sorted /\ Staged

\* What is taken of a group fits.
LEMMA ShareFits ==
  ASSUME NEW room \in Nat, NEW items, IsFiniteSet(items), NEW s \in Share(items, room)
  PROVE  s \subseteq items /\ Cardinality(s) \in Nat /\ Cardinality(s) <= room
<1>1. Cardinality(items) \in Nat
  BY FS_CardinalityType
<1> QED
  BY <1>1 DEF Share

LEMMA DriftInit == Init => DriftInv
<1> SUFFICES ASSUME Init PROVE DriftInv
  OBVIOUS
<1>1. policy \in Policy /\ policy.cap \in Nat
  BY CapAssumption DEF Init, Policy
<1>2. TypeOK
  BY <1>1, MaxRunsAssumption DEF Init, TypeOK, Empty
<1> QED
  BY <1>2 DEF Init, DriftInv, Fresh, Grouped, Sorted, Staged, Empty

LEMMA DriftStep == DriftInv /\ [Next]_vars => DriftInv'
<1> SUFFICES ASSUME DriftInv, [Next]_vars PROVE DriftInv'
  OBVIOUS
<1>t. /\ policy \in Policy /\ policy.cap \in Nat /\ \A p \in Policy : p.cap \in Nat
      /\ groups \in [Repo -> SUBSET found] /\ found \subseteq Workload
      /\ launched \in Nat /\ launched <= policy.cap
  <2>1. \A p \in Policy : p.cap \in Nat
    BY CapAssumption DEF Policy
  <2>2. /\ policy \in Policy /\ groups \in [Repo -> SUBSET found] /\ found \subseteq Workload
        /\ launched \in 0..policy.cap
    BY DEF DriftInv, TypeOK
  <2> QED
    BY <2>1, <2>2
<1> USE DEF DriftInv
<1>1. CASE Fire
  <2>1. TypeOK'
    <3>1. runs' \in 0..MaxRuns
      BY <1>1, MaxRunsAssumption DEF Fire, TypeOK
    <3>2. launched' \in 0..policy'.cap /\ groups' \in [Repo -> SUBSET found']
      BY <1>t, <1>1 DEF Fire, Empty
    <3> QED
      BY <1>t, <1>1, <3>1, <3>2 DEF Fire, TypeOK, Step
  <2> QED
    BY <1>1, <2>1 DEF Fire, Fresh, Grouped, Sorted, Staged, Empty
<1>2. CASE GetPolicy
  <2>1. /\ at = "policy" /\ policy' \in Policy /\ at' \in {"list", "idle"}
        /\ at' = "list" => policy'.enabled
        /\ UNCHANGED <<found, todo, groups, orphans, left, launched, started, runs>>
    BY <1>2 DEF GetPolicy
  <2>2. TypeOK'
    BY <1>t, <2>1 DEF TypeOK, Fresh, Step
  <2> QED
    BY <2>1, <2>2 DEF Fresh, Grouped, Sorted, Staged
<1>3. CASE ListFindings
  <2>0. /\ at = "list" /\ found = {} /\ todo = {} /\ groups = Empty /\ orphans = {}
        /\ launched = 0 /\ started = {} /\ policy.enabled
        /\ UNCHANGED <<policy, groups, orphans, left, launched, started, runs>>
        /\ at' \in {"announce", "resolve", "idle"}
    BY <1>3 DEF ListFindings, Goes, Fresh, Staged
  <2>1. found' \subseteq Workload /\ todo' = found'
    BY <1>3, <2>0 DEF ListFindings
  <2>2. TypeOK'
    BY <1>t, <2>0, <2>1 DEF TypeOK, Empty, Step
  <2> QED
    BY <2>0, <2>1, <2>2 DEF Fresh, Grouped, Sorted, Staged, Empty
<1>4. ASSUME NEW w \in Workload, ResolveMapping(w) PROVE DriftInv'
  <2>0. /\ at = "resolve" /\ w \in todo /\ todo' = todo \ {w} /\ at' = at
        /\ UNCHANGED <<policy, found, left, launched, started, runs>>
        /\ w \in found /\ w \notin orphans /\ \A r \in Repo : w \notin groups[r]
    BY <1>4 DEF ResolveMapping, TypeOK, Grouped, Sorted
  <2>1. CASE /\ RepoOf[w] # NoRepo /\ orphans' = orphans
             /\ groups' = [groups EXCEPT ![RepoOf[w]] = groups[RepoOf[w]] \cup {w}]
    <3>1. RepoOf[w] \in Repo
      BY <2>1, RepoOfAssumption
    <3>2. /\ groups' \in [Repo -> SUBSET found]
          /\ groups'[RepoOf[w]] = groups[RepoOf[w]] \cup {w}
          /\ \A r \in Repo \ {RepoOf[w]} : groups'[r] = groups[r]
      BY <1>t, <2>0, <2>1, <3>1
    <3>3. TypeOK'
      BY <2>0, <2>1, <3>2 DEF TypeOK
    <3>4. Grouped'
      <4> SUFFICES ASSUME NEW r \in Repo, NEW v \in groups'[r]
                   PROVE  RepoOf[v] = r /\ v \notin todo' \cup orphans'
        BY DEF Grouped
      <4> QED
        BY <2>0, <2>1, <3>1, <3>2 DEF Grouped
    <3>5. Sorted'
      <4> SUFFICES ASSUME NEW v \in found \ (todo' \cup orphans)
                   PROVE  RepoOf[v] \in Repo /\ v \in groups'[RepoOf[v]]
        BY <2>0, <2>1 DEF Sorted
      <4> QED
        BY <2>0, <3>1, <3>2 DEF Sorted
    <3>6. Staged' /\ Fresh'
      BY <2>0, <3>1, <3>2 DEF Staged, Fresh
    <3> QED
      BY <3>3, <3>4, <3>5, <3>6
  <2>2. CASE orphans' = orphans \cup {w} /\ groups' = groups
    <3>1. TypeOK' /\ Staged' /\ Fresh'
      BY <2>0, <2>2 DEF TypeOK, Staged, Fresh
    <3>2. Grouped' /\ Sorted'
      BY <2>0, <2>2 DEF Grouped, Sorted
    <3> QED
      BY <3>1, <3>2
  <2> QED
    BY <1>4, <2>1, <2>2 DEF ResolveMapping
<1>5. CASE GroupsDone
  BY <1>5 DEF GroupsDone, TypeOK, Fresh, Grouped, Sorted, Staged, Step
<1>6. ASSUME NEW r \in Repo, LaunchGroup(r) PROVE DriftInv'
  <2>0. /\ at = "launch" /\ at' = at /\ left' = left \ {r}
        /\ UNCHANGED <<policy, found, todo, groups, orphans, runs>>
    BY <1>6 DEF LaunchGroup
  <2>1. PICK items \in Share(groups[r], policy.cap - launched) :
          /\ launched' = launched + Cardinality(items)
          /\ started' = IF started = {} THEN items ELSE started
    BY <1>6 DEF LaunchGroup
  <2>2. /\ items \subseteq groups[r] /\ Cardinality(items) \in Nat
        /\ Cardinality(items) <= policy.cap - launched
    <3>1. IsFiniteSet(groups[r])
      BY <1>t, WorkloadAssumption, FS_Subset
    <3>2. policy.cap - launched \in Nat
      BY <1>t
    <3> QED
      BY <2>1, <3>1, <3>2, ShareFits
  <2>3. launched' \in 0..policy.cap
    BY <1>t, <2>1, <2>2
  <2>4. started' \subseteq found /\ (started' # {} => \E s \in Repo : started' \subseteq groups[s])
    BY <1>t, <2>1, <2>2 DEF TypeOK, Staged
  <2>5. TypeOK'
    BY <2>0, <2>3, <2>4 DEF TypeOK
  <2> QED
    BY <2>0, <2>4, <2>5 DEF Fresh, Grouped, Sorted, Staged
<1>7. CASE LoopDone \/ Announce
  BY <1>7 DEF LoopDone, Announce, Goes, TypeOK, Fresh, Grouped, Sorted, Staged, Step
<1>8. CASE UNCHANGED vars
  BY <1>8 DEF vars, TypeOK, Fresh, Grouped, Sorted, Staged
<1> QED
  BY <1>1, <1>2, <1>3, <1>4, <1>5, <1>6, <1>7, <1>8 DEF Next, Work

\* The invariant of the run, for every mapping and cap.
THEOREM DriftInductive == Spec => []DriftInv
BY DriftInit, DriftStep, PTL DEF Spec

\* Types, and never more items counted than max_prs_per_day (discover.go:104-112).
THEOREM CapKept == Spec => []TypeOK
<1>1. DriftInv => TypeOK
  BY DEF DriftInv
<1> QED
  BY <1>1, DriftInductive, PTL

\* Every finding is in the one group of its repository, or reported as unmapped,
\* when the launching begins (discover.go:61-93).
THEOREM FindingsKept == Spec => []NothingForgotten
<1>1. DriftInv => NothingForgotten
  <2> SUFFICES ASSUME DriftInv, at = "launch", NEW w \in found
               PROVE  Cardinality({r \in Repo : w \in groups[r]}) =
                        IF w \in orphans THEN 0 ELSE 1
    BY DEF NothingForgotten
  <2>1. w \notin todo
    BY DEF DriftInv, Staged
  <2>2. CASE w \in orphans
    <3>1. {r \in Repo : w \in groups[r]} = {}
      BY <2>2 DEF DriftInv, Grouped
    <3> QED
      BY <2>2, <3>1, FS_EmptySet
  <2>3. CASE w \notin orphans
    <3>1. {r \in Repo : w \in groups[r]} = {RepoOf[w]}
      BY <2>1, <2>3 DEF DriftInv, Grouped, Sorted
    <3> QED
      BY <2>3, <3>1, FS_Singleton
  <2> QED
    BY <2>2, <2>3
<1> QED
  BY <1>1, DriftInductive, PTL

-----------------------------------------------------------------------------
(* What is launched.                                                       *)

\* Groups left to launch are of workloads found.
LeftInv == at = "launch" => left \subseteq {r \in Repo : groups[r] # {}}

LEMMA LeftStep == DriftInv /\ LeftInv /\ [Next]_vars => LeftInv'
BY DEF LeftInv, Next, Work, Fire, GetPolicy, ListFindings, Goes, ResolveMapping,
   GroupsDone, LaunchGroup, LoopDone, Announce, vars

\* The groups that the loop has taken, and the findings in them.
Taken    == {r \in Repo : groups[r] # {} /\ r \notin left}
AllTaken == UNION {groups[r] : r \in Taken}

Fitting(n, cap) == IF n <= cap THEN n ELSE cap

\* The loop has counted what it has taken as far as it fits; the first group it
\* took is the campaign, of all that was counted until it takes another.
Counted ==
  /\ at = "resolve" => launched = 0 /\ started = {}
  /\ at = "launch" =>
       /\ launched = Fitting(Cardinality(AllTaken), policy.cap)
       /\ Taken # {} => started # {}
       /\ Taken = {} => started = {}
       /\ (\A q, r \in Taken : q = r) => Cardinality(started) = launched

LaunchInv == DriftInv /\ LeftInv /\ Counted /\ LaunchedTruth

\* A share is as large as the room and the group allow.
LEMMA ShareSize ==
  ASSUME NEW room \in Nat, NEW items, IsFiniteSet(items), NEW s \in Share(items, room)
  PROVE  Cardinality(s) = Fitting(Cardinality(items), room)
BY FS_CardinalityType DEF Share, Fitting

\* All findings are finitely many, and so are those of a group.
LEMMA FoundFinite ==
  ASSUME DriftInv
  PROVE  /\ \A S : S \subseteq found => IsFiniteSet(S) /\ Cardinality(S) \in Nat
         /\ AllTaken \subseteq found
         /\ \A r \in Repo : groups[r] \subseteq found
         /\ policy.cap \in Nat \ {0}
<1>1. found \subseteq Workload /\ groups \in [Repo -> SUBSET found] /\ policy \in Policy
  BY DEF DriftInv, TypeOK
<1>2. ASSUME NEW S, S \subseteq found PROVE IsFiniteSet(S) /\ Cardinality(S) \in Nat
  BY <1>1, <1>2, WorkloadAssumption, FS_Subset, FS_CardinalityType
<1> QED
  BY <1>1, <1>2, CapAssumption DEF AllTaken, Taken, Policy

\* Taking one more group.
LEMMA LaunchCounts ==
  ASSUME LaunchInv, NEW r \in Repo, LaunchGroup(r)
  PROVE  Counted'
<1> DEFINE n == Cardinality(AllTaken)
           g == Cardinality(groups[r])
<1>0. /\ at = "launch" /\ at' = at /\ left' = left \ {r} /\ r \in left
      /\ launched < policy.cap /\ UNCHANGED <<policy, groups>>
      /\ groups[r] # {} /\ r \notin Taken
  BY DEF LaunchGroup, LaunchInv, LeftInv, Taken
<1>1. PICK items \in Share(groups[r], policy.cap - launched) :
        /\ launched' = launched + Cardinality(items)
        /\ started' = IF started = {} THEN items ELSE started
  BY DEF LaunchGroup
<1>2. /\ IsFiniteSet(AllTaken) /\ n \in Nat /\ policy.cap \in Nat \ {0}
      /\ IsFiniteSet(groups[r]) /\ g \in Nat /\ g # 0
  BY <1>0, FoundFinite, FS_EmptySet DEF LaunchInv
<1>3. launched = n
  BY <1>0, <1>2 DEF LaunchInv, Counted, Fitting
<1>4. Taken' = Taken \cup {r}
  BY <1>0 DEF Taken
<1>5. Cardinality(AllTaken)' = n + g
  <2>1. AllTaken' = AllTaken \cup groups[r]
    BY <1>0, <1>4 DEF AllTaken
  <2>2. AllTaken \cap groups[r] = {}
    BY <1>0 DEF AllTaken, Taken, LaunchInv, DriftInv, Grouped
  <2>3. Cardinality(AllTaken \cup groups[r]) = n + g - Cardinality(AllTaken \cap groups[r])
    BY <1>2, FS_Union
  <2>4. Cardinality(AllTaken \cap groups[r]) = 0
    BY <2>2, FS_EmptySet
  <2> HIDE DEF n, g
  <2> QED
    BY <1>2, <2>1, <2>3, <2>4
<1>6. Cardinality(items) = Fitting(g, policy.cap - n)
  BY <1>0, <1>1, <1>2, <1>3, ShareSize
<1> HIDE DEF n, g
<1>7. launched' = Fitting(n + g, policy.cap)
  BY <1>0, <1>1, <1>2, <1>3, <1>6 DEF Fitting
<1>8. items # {}
  <2>1. Cardinality(items) # 0
    BY <1>0, <1>2, <1>3, <1>6 DEF Fitting
  <2> QED
    BY <2>1, FS_EmptySet
<1>9. CASE Taken = {}
  <2>1. started = {} /\ n = 0
    BY <1>0, <1>9, FS_EmptySet DEF LaunchInv, Counted, AllTaken, n
  <2>2. started' = items /\ launched' = Cardinality(items)
    BY <1>0, <1>1, <1>2, <1>3, <1>6, <2>1 DEF Fitting
  <2> QED
    BY <1>0, <1>4, <1>5, <1>7, <1>8, <2>2 DEF Counted
<1>10. CASE Taken # {}
  <2>1. started # {} /\ started' = started
    BY <1>0, <1>1, <1>10 DEF LaunchInv, Counted
  <2>2. \E q, t \in Taken' : q # t
    BY <1>0, <1>4, <1>10
  <2> QED
    BY <1>0, <1>4, <1>5, <1>7, <2>1, <2>2 DEF Counted
<1> QED
  BY <1>9, <1>10

\* The end of the loop, with nothing left to take or no room.
LEMMA LoopDoneTrue ==
  ASSUME LaunchInv, LoopDone
  PROVE  LaunchedTruth'
<1> DEFINE mapped == found \ orphans
<1>0. /\ at = "launch" /\ at' = "announce" /\ (left = {} \/ launched >= policy.cap)
      /\ UNCHANGED <<policy, found, orphans, groups, launched, started>>
  BY DEF LoopDone, Goes
<1>1. /\ AllTaken \subseteq mapped /\ started \subseteq mapped
      /\ mapped = UNION {groups[r] : r \in Repo}
  <2>1. todo = {} /\ groups \in [Repo -> SUBSET found]
    BY <1>0 DEF LaunchInv, DriftInv, Staged, TypeOK
  <2>2. \A r \in Repo : groups[r] \subseteq mapped
    BY <2>1 DEF LaunchInv, DriftInv, Grouped
  <2>3. \A w \in mapped : RepoOf[w] \in Repo /\ w \in groups[RepoOf[w]]
    BY <2>1 DEF LaunchInv, DriftInv, Sorted
  <2>4. started \subseteq mapped
    BY <2>2 DEF LaunchInv, DriftInv, Staged
  <2> QED
    BY <2>2, <2>3, <2>4 DEF AllTaken, Taken
<1>2. /\ IsFiniteSet(mapped) /\ Cardinality(mapped) \in Nat
      /\ IsFiniteSet(AllTaken) /\ Cardinality(AllTaken) \in Nat
      /\ policy.cap \in Nat \ {0}
  BY FoundFinite DEF LaunchInv
<1>3. Cardinality(AllTaken) <= Cardinality(mapped)
  BY <1>1, <1>2, FS_Subset
<1>4. launched = Fitting(Cardinality(AllTaken), policy.cap)
  BY <1>0 DEF LaunchInv, Counted
<1>5. left = {} => AllTaken = mapped /\ \A r \in Repo : groups[r] # {} => r \in Taken
  BY <1>1 DEF AllTaken, Taken
<1> HIDE DEF mapped
<1>6. launched = Fitting(Cardinality(mapped), policy.cap)
  BY <1>0, <1>2, <1>3, <1>4, <1>5 DEF Fitting
<1>7. mapped # {} => started # {}
  <2>1. CASE left = {}
    BY <1>0, <1>1, <1>5, <2>1 DEF LaunchInv, Counted
  <2>2. CASE left # {}
    <3>1. Cardinality(AllTaken) # 0
      BY <1>0, <1>2, <1>4, <2>2 DEF Fitting
    <3>2. Taken # {}
      BY <3>1, FS_EmptySet DEF AllTaken
    <3> QED
      BY <1>0, <3>2 DEF LaunchInv, Counted
  <2> QED
    BY <2>1, <2>2
<1>8. (\A q, r \in Repo : groups[q] # {} /\ groups[r] # {} => q = r)
         => Cardinality(started) = launched
  BY <1>0 DEF LaunchInv, Counted, Taken
<1> QED
  BY <1>0, <1>1, <1>6, <1>7, <1>8 DEF LaunchedTruth, Fitting, mapped

LEMMA LaunchStep == LaunchInv /\ [Next]_vars => LaunchInv'
<1> SUFFICES ASSUME LaunchInv, [Next]_vars PROVE Counted' /\ LaunchedTruth'
  BY DriftStep, LeftStep DEF LaunchInv
<1>1. CASE Fire \/ GetPolicy
  BY <1>1 DEF Fire, GetPolicy, Counted, LaunchedTruth
<1>2. CASE ListFindings
  <2>1. /\ launched' = 0 /\ started' = {} /\ groups' = Empty /\ policy' = policy
        /\ at' \in {"announce", "resolve", "idle"} /\ (at' = "announce" => found' = {})
    BY <1>2 DEF ListFindings, Goes, LaunchInv, DriftInv, Fresh
  <2>2. policy.cap \in Nat \ {0}
    BY FoundFinite DEF LaunchInv
  <2>3. at' = "announce" => found' \ orphans' = {}
    BY <2>1
  <2> QED
    BY <2>1, <2>2, <2>3, FS_EmptySet DEF Counted, LaunchedTruth
<1>3. CASE \E w \in Workload : ResolveMapping(w)
  BY <1>3 DEF ResolveMapping, LaunchInv, Counted, LaunchedTruth
<1>4. CASE GroupsDone
  <2>1. /\ at' = "launch" /\ Taken' = {} /\ launched' = 0 /\ started' = {}
        /\ policy' = policy
    BY <1>4 DEF GroupsDone, Taken, LaunchInv, Counted
  <2>2. AllTaken' = {}
    BY <2>1 DEF AllTaken
  <2>3. policy.cap \in Nat
    BY FoundFinite DEF LaunchInv
  <2> QED
    BY <2>1, <2>2, <2>3, FS_EmptySet DEF Counted, LaunchedTruth, Fitting
<1>5. ASSUME NEW r \in Repo, LaunchGroup(r) PROVE Counted' /\ LaunchedTruth'
  <2>1. at' = "launch"
    BY <1>5 DEF LaunchGroup
  <2> QED
    BY <1>5, <2>1, LaunchCounts DEF LaunchedTruth
<1>6. CASE LoopDone
  BY <1>6, LoopDoneTrue DEF LoopDone, Goes, Counted
<1>7. CASE Announce
  BY <1>7 DEF Announce, Goes, Counted, LaunchedTruth
<1>8. CASE UNCHANGED vars
  BY <1>8 DEF vars, LaunchInv, Counted, Taken, AllTaken, LaunchedTruth
<1> QED
  BY <1>1, <1>2, <1>3, <1>4, <1>5, <1>6, <1>7, <1>8 DEF Next, Work

\* What a run announces as launched is all that is mapped, up to the cap, whichever
\* order the repositories are taken in; there is a campaign if there is anything to
\* launch, of as many items as announced when one repository has them all
\* (discover.go:95-145).
THEOREM AnnouncesWhatFits == Spec => []LaunchedTruth
<1>1. Init => LaunchInv
  BY DriftInit DEF Init, LaunchInv, LeftInv, Counted, LaunchedTruth
<1>2. LaunchInv => LaunchedTruth
  BY DEF LaunchInv
<1> QED
  BY <1>1, <1>2, LaunchStep, PTL DEF Spec

-----------------------------------------------------------------------------
(* A run wears itself out.                                                 *)

\* Workloads that are mapped lead to these repositories.
Mapped == {RepoOf[w] : w \in Workload}

\* What is left to do: findings to look up, groups to launch, and one step for
\* each stage to come; before they are known, as many as there may be.
WorkLeft ==
  CASE at = "policy"   -> Cardinality(Workload) + Cardinality(Mapped) + 5
    [] at = "list"     -> Cardinality(Workload) + Cardinality(Mapped) + 4
    [] at = "resolve"  -> Cardinality(todo) + Cardinality(Mapped) + 3
    [] at = "launch"   -> Cardinality(left) + 2
    [] at = "announce" -> 1
    [] OTHER           -> 0

\* A run has a bounded number of steps to go, and never waits for nothing: as long
\* as the loop goes on, there are items of the next group that fit.
Bounded ==
  /\ WorkLeft \in 0..(Cardinality(Workload) + Cardinality(Mapped) + 5)
  /\ WorkLeft = 0 <=> at = "idle"
  /\ at = "launch" /\ launched < policy.cap =>
       \A r \in left : Share(groups[r], policy.cap - launched) # {}

WearsOut == at # "idle" /\ Work => WorkLeft' < WorkLeft

LEMMA MappedFinite ==
  /\ IsFiniteSet(Mapped) /\ Cardinality(Mapped) \in Nat
  /\ IsFiniteSet(Workload) /\ Cardinality(Workload) \in Nat
<1> DEFINE f == [w \in Workload |-> RepoOf[w]]
<1>1. f \in Surjection(Workload, Mapped)
  BY DEF Mapped, Surjection
<1> QED
  BY <1>1, WorkloadAssumption, FS_Surjection, FS_CardinalityType

\* A finite set has subsets of every smaller size, so a group always has a share.
LEMMA ShareThere ==
  ASSUME NEW items, IsFiniteSet(items), NEW room \in Nat
  PROVE  Share(items, room) # {}
<1> DEFINE n == Cardinality(items)
<1>1. n \in Nat /\ ExistsBijection(1..n, items)
  BY FS_CardinalityType
<1>2. CASE n <= room
  BY <1>2 DEF Share
<1>3. CASE ~(n <= room)
  <2>1. PICK f \in Bijection(1..n, items) : TRUE
    BY <1>1 DEF ExistsBijection
  <2> DEFINE s == {f[i] : i \in 1..room}
             g == [i \in 1..room |-> f[i]]
  <2>2. 1..room \subseteq 1..n
    BY <1>1, <1>3
  <2>3. s \subseteq items
    BY <2>1, <2>2 DEF Bijection, Injection
  <2>4. g \in Bijection(1..room, s)
    BY <2>1, <2>2 DEF Bijection, Injection, Surjection, IsInjective
  <2>5. Cardinality(s) = room
    BY <2>4, FS_CountingElements DEF ExistsBijection
  <2> QED
    BY <1>3, <2>3, <2>5 DEF Share
<1> QED
  BY <1>2, <1>3

Sizes ==
  /\ IsFiniteSet(todo) /\ Cardinality(todo) \in 0..Cardinality(Workload)
  /\ at = "launch" => IsFiniteSet(left) /\ Cardinality(left) \in 0..Cardinality(Mapped)

LEMMA SetsFinite == DriftInv /\ LeftInv => Sizes
<1> SUFFICES ASSUME DriftInv, LeftInv PROVE Sizes
  OBVIOUS
<1>1. todo \subseteq Workload
  BY DEF DriftInv, TypeOK
<1>2. at = "launch" => left \subseteq Mapped
  <2> SUFFICES ASSUME at = "launch", NEW r \in left PROVE r \in Mapped
    OBVIOUS
  <2>1. PICK w \in groups[r] : r \in Repo
    BY DEF LeftInv
  <2>2. w \in Workload
    BY <2>1 DEF DriftInv, TypeOK
  <2> QED
    BY <2>1, <2>2 DEF DriftInv, Grouped, Mapped
<1>3. \A S, T : IsFiniteSet(T) /\ S \subseteq T =>
                  IsFiniteSet(S) /\ Cardinality(S) \in 0..Cardinality(T)
  <2> SUFFICES ASSUME NEW S, NEW T, IsFiniteSet(T), S \subseteq T
               PROVE  IsFiniteSet(S) /\ Cardinality(S) \in 0..Cardinality(T)
    OBVIOUS
  <2> QED
    BY FS_Subset, FS_CardinalityType
<1> QED
  BY <1>1, <1>2, <1>3, MappedFinite DEF Sizes

\* Every step of the run leaves it less to do.
LEMMA WorkLowers ==
  ASSUME DriftInv, LeftInv, Work, Sizes, Sizes'
  PROVE  WorkLeft' < WorkLeft
<1> DEFINE W == Cardinality(Workload)
           M == Cardinality(Mapped)
<1>1. /\ W \in Nat /\ M \in Nat
      /\ Cardinality(todo) \in 0..W /\ Cardinality(todo)' \in 0..W
      /\ at = "launch" => Cardinality(left) \in 0..M
      /\ at' = "launch" => Cardinality(left)' \in 0..M
  BY MappedFinite DEF Sizes
<1> HIDE DEF W, M
<1>e. WorkLeft = CASE at = "policy"   -> W + M + 5
                   [] at = "list"     -> W + M + 4
                   [] at = "resolve"  -> Cardinality(todo) + M + 3
                   [] at = "launch"   -> Cardinality(left) + 2
                   [] at = "announce" -> 1
                   [] OTHER           -> 0
  BY DEF WorkLeft, W, M
<1>f. WorkLeft' = CASE at' = "policy"   -> W + M + 5
                    [] at' = "list"     -> W + M + 4
                    [] at' = "resolve"  -> Cardinality(todo)' + M + 3
                    [] at' = "launch"   -> Cardinality(left)' + 2
                    [] at' = "announce" -> 1
                    [] OTHER            -> 0
  BY DEF WorkLeft, W, M
<1>2. CASE GetPolicy
  BY <1>1, <1>2, <1>e, <1>f DEF GetPolicy
<1>3. CASE ListFindings
  BY <1>1, <1>3, <1>e, <1>f DEF ListFindings, Goes
<1>4. ASSUME NEW w \in Workload, ResolveMapping(w) PROVE WorkLeft' < WorkLeft
  <2>1. Cardinality(todo)' = Cardinality(todo) - 1
    BY <1>4, FS_RemoveElement DEF ResolveMapping, Sizes
  <2> QED
    BY <1>1, <1>4, <1>e, <1>f, <2>1 DEF ResolveMapping
<1>5. CASE GroupsDone
  BY <1>1, <1>5, <1>e, <1>f DEF GroupsDone
<1>6. ASSUME NEW r \in Repo, LaunchGroup(r) PROVE WorkLeft' < WorkLeft
  <2>1. Cardinality(left)' = Cardinality(left) - 1
    BY <1>6, FS_RemoveElement DEF LaunchGroup, Sizes
  <2> QED
    BY <1>1, <1>6, <1>e, <1>f, <2>1 DEF LaunchGroup
<1>7. CASE LoopDone
  BY <1>1, <1>7, <1>e, <1>f DEF LoopDone, Goes
<1>8. CASE Announce
  BY <1>1, <1>8, <1>e, <1>f DEF Announce, Goes
<1> QED
  BY <1>2, <1>3, <1>4, <1>5, <1>6, <1>7, <1>8 DEF Work

\* A run of n workloads and m repositories ends within n + m + 5 steps (discover.go:
\* 28-130), the cap used up or not: what Ends needs besides fairness.
THEOREM RunsWearOut == Spec => []Bounded /\ [][WearsOut]_vars
<1> DEFINE Inv == DriftInv /\ LeftInv
<1>1. Spec => []Inv
  <2>1. Init => LeftInv
    BY DEF Init, LeftInv
  <2> QED
    BY <2>1, DriftInductive, LeftStep, PTL DEF Spec
<1>2. Inv => Bounded
  <2> SUFFICES ASSUME Inv PROVE Bounded
    OBVIOUS
  <2>1. Sizes
    BY SetsFinite
  <2>2. WorkLeft \in 0..(Cardinality(Workload) + Cardinality(Mapped) + 5)
        /\ (WorkLeft = 0 <=> at = "idle")
    BY <2>1, MappedFinite DEF Sizes, WorkLeft, DriftInv, TypeOK, Step
  <2>3. ASSUME at = "launch", launched < policy.cap, NEW r \in left
        PROVE  Share(groups[r], policy.cap - launched) # {}
    <3>1. IsFiniteSet(groups[r])
      BY <2>3, WorkloadAssumption, FS_Subset DEF DriftInv, TypeOK
    <3>2. policy.cap - launched \in Nat
      <4>1. policy.cap \in Nat /\ launched \in 0..policy.cap
        BY CapAssumption DEF DriftInv, TypeOK, Policy
      <4> QED
        BY <2>3, <4>1
    <3> QED
      BY <3>1, <3>2, ShareThere
  <2> QED
    BY <2>2, <2>3 DEF Bounded
<1>3. Inv /\ Inv' /\ [Next]_vars => [WearsOut]_vars
  <2>1. Inv' => Sizes'
    BY SetsFinite, PTL
  <2> QED
    BY <2>1, SetsFinite, WorkLowers DEF WearsOut
<1> HIDE DEF Inv
<1> QED
  BY <1>1, <1>2, <1>3, PTL DEF Spec
=============================================================================
