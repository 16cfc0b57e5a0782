------------------------- MODULE Onboarding_proofs --------------------------
(* For every number of tenants and callers a revoked token stays in the      *)
(* cache only by the one race, and tenants do not get each other's           *)
(* (TokenCache); with any number of discoveries, repositories and workers on *)
(* top of it the cache keeps what it promises, a discovery overlooks nothing *)
(* and registering drops no profile that was known (Onboarding).             *)
EXTENDS Onboarding, FiniteSetTheorems, TLAPS

-----------------------------------------------------------------------------
(* The cache.                                                                *)

\* A fill under way that read a token older than the one announced since is
\* one that Invalidate found.
FillsKnown ==
  \A c \in Caller :
    call[c].at = "publish" =>
      LET t == call[c].tenant
      IN  /\ call[c].got <= token[t]
          /\ call[c].got < noticed[t] => raced[t]

Types ==
  /\ token \in [Tenant -> Nat]
  /\ noticed \in [Tenant -> Nat]
  /\ cache \in [Tenant -> Nat]
  /\ call \in [Caller -> [at : CallAt, tenant : Tenant, got : Nat, known : Nat]]
  /\ raced \in [Tenant -> BOOLEAN]

CacheInv ==
  /\ Types
  /\ FillsKnown
  /\ \A t \in Tenant : noticed[t] <= token[t]
  /\ OwnToken
  /\ StaleOnlyByRace

\* The cache starts well.
LEMMA InitCache == Init => CacheInv
<1> SUFFICES ASSUME Init PROVE CacheInv
  OBVIOUS
<1>1. Types
  BY DEF Init, Types, Idle, CallAt
<1>2. FillsKnown
  BY DEF Init, FillsKnown, Idle
<1> QED
  BY <1>1, <1>2 DEF Init, CacheInv, OwnToken, StaleOnlyByRace

\* One step per action; a publish may only put back a token older than the one
\* announced when the fill was found by Invalidate.
LEMMA StepCache == CacheInv /\ [Next]_vars => CacheInv'
<1> SUFFICES ASSUME CacheInv, [Next]_vars
             PROVE  CacheInv'
  OBVIOUS
<1> USE DEF CacheInv
<1>1. ASSUME NEW c \in Caller, NEW t \in Tenant, Lookup(c, t)
      PROVE  CacheInv'
  <2>1. UNCHANGED <<token, noticed, cache, raced>>
    BY <1>1 DEF Lookup
  <2>2. \E k \in {"idle", "fetch"}, n \in Nat :
          call' = [call EXCEPT ![c] = [at |-> k, tenant |-> t, got |-> 0, known |-> n]]
    BY <1>1 DEF Lookup, Returns, Idle, Types
  <2>3. Types'
    BY <2>1, <2>2 DEF Types, CallAt
  <2>4. FillsKnown'
    BY <2>1, <2>2 DEF FillsKnown, Types
  <2> QED
    BY <2>1, <2>3, <2>4 DEF OwnToken, StaleOnlyByRace
<1>2. ASSUME NEW c \in Caller, Fetch(c)
      PROVE  CacheInv'
  <2> DEFINE t == call[c].tenant
  <2>1. UNCHANGED <<token, noticed, cache, raced>>
    BY <1>2 DEF Fetch
  <2>2. \/ call' = [call EXCEPT ![c].at = "publish", ![c].got = token[t]]
        \/ call' = [call EXCEPT ![c] = Idle(t)]
    BY <1>2 DEF Fetch, Returns
  <2>3. t \in Tenant /\ token[t] \in Nat
    BY DEF Types
  <2>4. Types'
    BY <2>1, <2>2, <2>3 DEF Types, CallAt, Idle
  <2>5. FillsKnown'
    BY <2>1, <2>2, <2>3 DEF FillsKnown, Types, Idle
  <2> QED
    BY <2>1, <2>4, <2>5 DEF OwnToken, StaleOnlyByRace
<1>3. ASSUME NEW c \in Caller, Publish(c)
      PROVE  CacheInv'
  <2> DEFINE t == call[c].tenant
  <2>1. /\ UNCHANGED <<token, noticed, raced>>
        /\ cache' = [cache EXCEPT ![t] = call[c].got]
        /\ call' = [call EXCEPT ![c] = Idle(t)]
        /\ call[c].at = "publish"
    BY <1>3 DEF Publish, Returns
  <2>2. t \in Tenant /\ call[c].got \in Nat
    BY DEF Types
  <2>3. Types'
    BY <2>1, <2>2 DEF Types, CallAt, Idle
  <2>4. FillsKnown'
    BY <2>1, <2>2 DEF FillsKnown, Types, Idle
  <2>5. OwnToken' /\ StaleOnlyByRace'
    BY <2>1, <2>2 DEF OwnToken, StaleOnlyByRace, FillsKnown, Types
  <2> QED
    BY <2>1, <2>3, <2>4, <2>5
<1>4. ASSUME NEW t \in Tenant, SaveToken(t)
      PROVE  CacheInv'
  <2>1. /\ UNCHANGED <<noticed, cache, call, raced>>
        /\ token' = [token EXCEPT ![t] = @ + 1]
    BY <1>4 DEF SaveToken
  <2>2. \A s \in Tenant : token'[s] \in Nat /\ token[s] \in Nat /\ token[s] <= token'[s]
    BY <2>1 DEF Types
  <2>3. Types'
    BY <2>1 DEF Types
  <2>4. FillsKnown'
    BY <2>1, <2>2 DEF FillsKnown, Types
  <2> QED
    BY <2>1, <2>2, <2>3, <2>4 DEF OwnToken, StaleOnlyByRace, Types
<1>5. ASSUME NEW t \in Tenant, Invalidate(t)
      PROVE  CacheInv'
  <2>1. /\ UNCHANGED <<token, call>>
        /\ noticed' = [noticed EXCEPT ![t] = token[t]]
        /\ cache' = [cache EXCEPT ![t] = 0]
        /\ raced' = [raced EXCEPT ![t] = \E c \in Caller : Behind(c, t)]
    BY <1>5 DEF Invalidate
  <2>2. Types'
    BY <2>1 DEF Types
  <2>3. FillsKnown'
    BY <2>1 DEF FillsKnown, Types, Behind
  <2> QED
    BY <2>1, <2>2, <2>3 DEF OwnToken, StaleOnlyByRace, Types
<1>6. CASE Restart
  <2>1. /\ UNCHANGED <<token, noticed>>
        /\ cache' = [t \in Tenant |-> 0]
        /\ call' = [c \in Caller |-> Idle(call[c].tenant)]
        /\ raced' = [t \in Tenant |-> FALSE]
    BY <1>6 DEF Restart
  <2>2. Types'
    BY <2>1 DEF Types, Idle, CallAt
  <2>3. FillsKnown'
    BY <2>1 DEF FillsKnown, Idle
  <2> QED
    BY <2>1, <2>2, <2>3 DEF OwnToken, StaleOnlyByRace, Types
<1>7. CASE UNCHANGED vars
  BY <1>7 DEF vars, Types, FillsKnown, OwnToken, StaleOnlyByRace
<1> QED
  BY <1>1, <1>2, <1>3, <1>4, <1>5, <1>6, <1>7 DEF Next

\* The invariant holds always.
LEMMA CacheInvariant == Spec => []CacheInv
BY InitCache, StepCache, PTL DEF Spec

\* A token older than the last one announced is cached only if a fill that had
\* read it was under way when Invalidate was called.
THEOREM OnlyTheRaceIsStale == Spec => []StaleOnlyByRace
BY CacheInvariant, PTL DEF CacheInv

\* No tenant is ever served a token it has not saved.
THEOREM TokensAreOwn == Spec => []OwnToken
BY CacheInvariant, PTL DEF CacheInv

\* A call that publishes has got a token.
CallsTyped == TypeOK /\ \A c \in Caller : call[c].at = "publish" => call[c].got # 0

\* Every variable has its type, and no provider is built from an empty token.
THEOREM TypeCorrect == Spec => []TypeOK
<1>1. Init => CallsTyped
  <2> SUFFICES ASSUME Init PROVE CallsTyped
    OBVIOUS
  <2>1. 0 \in Version
    BY MaxVersionAssumption DEF Version
  <2>2. /\ call \in [Caller -> [at : CallAt, tenant : Tenant, got : Version, known : Version]]
        /\ \A c \in Caller : call[c].at = "idle"
    BY <2>1 DEF Init, Idle, CallAt
  <2>3. answer \in [Caller -> [kind : Answer, version : Version, known : Version]]
    BY <2>1 DEF Init, NoAnswer, Answer
  <2>4. raced \in [Tenant -> BOOLEAN]
    BY DEF Init
  <2> QED
    BY <2>1, <2>2, <2>3, <2>4 DEF Init, CallsTyped, TypeOK, NoAnswer
<1>2. ASSUME CallsTyped, [Next]_vars PROVE CallsTyped'
  <2>0. 0 \in Version
    BY MaxVersionAssumption DEF Version
  <2>1. ASSUME NEW c \in Caller, NEW t \in Tenant, Lookup(c, t) PROVE CallsTyped'
    <3>1. UNCHANGED <<token, noticed, cache, raced>>
      BY <2>1 DEF Lookup
    <3>2. \E at \in {"idle", "fetch"}, known \in Version :
            call' = [call EXCEPT ![c] = [at |-> at, tenant |-> t, got |-> 0, known |-> known]]
      BY <1>2, <2>0, <2>1 DEF Lookup, Returns, Idle, CallsTyped, TypeOK
    <3>3. \/ answer' = [answer EXCEPT ![c] = NoAnswer]
          \/ /\ cache[t] # 0
             /\ answer' = [answer EXCEPT ![c] = [kind |-> "provider", version |-> cache[t],
                                                 known |-> noticed[t]]]
      BY <2>1 DEF Lookup, Returns
    <3>4. cache[t] \in Version /\ noticed[t] \in Version
      BY <1>2 DEF CallsTyped, TypeOK
    <3>5. /\ answer' \in [Caller -> [kind : Answer, version : Version, known : Version]]
          /\ \A d \in Caller : answer'[d].kind = "provider" => answer'[d].version # 0
      <4>1. PICK a \in [kind : Answer, version : Version, known : Version] :
              /\ answer' = [answer EXCEPT ![c] = a]
              /\ a.kind = "provider" => a.version # 0
        <5> DEFINE provided == [kind |-> "provider", version |-> cache[t], known |-> noticed[t]]
        <5>1. NoAnswer \in [kind : Answer, version : Version, known : Version]
              /\ NoAnswer.kind # "provider"
          BY <2>0 DEF NoAnswer, Answer
        <5>2. provided \in [kind : Answer, version : Version, known : Version]
              /\ provided.version = cache[t]
          BY <3>4 DEF Answer
        <5>3. CASE answer' = [answer EXCEPT ![c] = NoAnswer]
          BY <5>1, <5>3
        <5>4. CASE cache[t] # 0 /\ answer' = [answer EXCEPT ![c] = provided]
          <6> HIDE DEF provided
          <6> QED
            BY <5>2, <5>4
        <5> QED
          BY <3>3, <5>3, <5>4
      <4> QED
        BY <1>2, <4>1 DEF CallsTyped, TypeOK
    <3>6. /\ call' \in [Caller -> [at : CallAt, tenant : Tenant, got : Version, known : Version]]
          /\ \A d \in Caller : call'[d].at = "publish" => call'[d].got # 0
      BY <1>2, <2>0, <3>2 DEF CallsTyped, TypeOK, CallAt
    <3> QED
      BY <1>2, <3>1, <3>5, <3>6 DEF CallsTyped, TypeOK
  <2>2. ASSUME NEW c \in Caller, Fetch(c) PROVE CallsTyped'
    <3>1. UNCHANGED <<token, noticed, cache, raced>>
      BY <2>2 DEF Fetch
    <3>2. call[c].tenant \in Tenant /\ call[c].known \in Version
      BY <1>2 DEF CallsTyped, TypeOK
    <3>3. CASE /\ token[call[c].tenant] # 0 /\ UNCHANGED answer
               /\ call' = [call EXCEPT ![c].at = "publish", ![c].got = token[call[c].tenant]]
      BY <1>2, <3>1, <3>2, <3>3 DEF CallsTyped, TypeOK, CallAt
    <3>4. CASE Returns(c, call[c].tenant, "fallback", 0, call[c].known)
      BY <1>2, <2>0, <3>1, <3>2, <3>4 DEF Returns, Idle, CallsTyped, TypeOK, CallAt, Answer
    <3> QED
      BY <2>2, <3>3, <3>4 DEF Fetch
  <2>3. ASSUME NEW c \in Caller, Publish(c) PROVE CallsTyped'
    BY <1>2, <2>0, <2>3 DEF Publish, Returns, Idle, CallsTyped, TypeOK, CallAt, Answer
  <2>4. ASSUME NEW t \in Tenant, SaveToken(t) PROVE CallsTyped'
    <3>1. token[t] + 1 \in Version
      BY <1>2, <2>4, MaxVersionAssumption DEF SaveToken, CallsTyped, TypeOK, Version
    <3> QED
      BY <1>2, <2>4, <3>1 DEF SaveToken, CallsTyped, TypeOK
  <2>5. ASSUME NEW t \in Tenant, Invalidate(t) PROVE CallsTyped'
    <3>1. raced' \in [Tenant -> BOOLEAN]
      BY <1>2, <2>5 DEF Invalidate, CallsTyped, TypeOK
    <3> QED
      BY <1>2, <2>0, <2>5, <3>1 DEF Invalidate, CallsTyped, TypeOK
  <2>6. ASSUME Restart PROVE CallsTyped'
    <3>1. raced' \in [Tenant -> BOOLEAN]
      BY <2>6 DEF Restart
    <3> QED
      BY <1>2, <2>0, <2>6, <3>1 DEF Restart, Idle, NoAnswer, CallsTyped, TypeOK, CallAt, Answer
  <2>7. ASSUME UNCHANGED vars PROVE CallsTyped'
    BY <1>2, <2>7 DEF vars, CallsTyped, TypeOK
  <2> QED
    BY <1>2, <2>1, <2>2, <2>3, <2>4, <2>5, <2>6, <2>7 DEF Next
<1>3. CallsTyped => TypeOK
  BY DEF CallsTyped
<1> QED
  BY <1>1, <1>2, <1>3, PTL DEF Spec

-----------------------------------------------------------------------------
(* The cache and the discoveries that use it.                                *)

\* A step of the composition is a step of the cache, or none.
LEMMA StepOfCache == [OnboardingNext]_all => [Next]_vars
BY NewcomerAssumption
DEF OnboardingNext, Next, Provide, Configure, Discover, Expire, AskProvider, ListRepos,
    TakeRepo, FetchMain, FetchMaster, SaveProfile, ClosePool, MergeProfiles, RegisterFound,
    PostProfile, RegisterPosted, LoadAllProfiles, RegisterAtStart, RestartAll, all

\* So whatever is proved of the cache holds in the composition.
THEOREM OnboardingUsesCache == OnboardingSpec => Spec
<1>1. OnboardingInit => Init
  BY DEF OnboardingInit
<1> QED
  BY <1>1, StepOfCache, PTL DEF OnboardingSpec, Spec

-----------------------------------------------------------------------------
\* Every variable of its own has its type.
Shape ==
  /\ stage \in [Lister -> Stage]
  /\ probe \in [Caller -> [Repo -> Probe]]
  /\ expired \in [Caller -> BOOLEAN] /\ failed \in [Caller -> BOOLEAN]
  /\ list \in [Lister -> SUBSET Repo] /\ newer \in [Lister -> SUBSET Repo]
  /\ profiles \subseteq Repo /\ registered \subseteq Repo

\* The repositories that discovery c has to register.
Owed(c) ==
  IF failed[c] \/ ~(Cardinality(Visible[answer[c].version]) <= MaxRepos) THEN {}
  ELSE Visible[answer[c].version] \cap (OnMain \cup OnMaster)

\* Where a repository that is owed can be, stage by stage.
CallerInv(c) ==
  /\ stage[c] \in {"ask", "probe", "profiles", "register"} => call[c].at = "idle"
  /\ stage[c] # "probe" => In(c, {"main", "master"}) = {}
  /\ expired[c] => failed[c]
  /\ \A r \in Owed(c) :
       /\ stage[c] = "probe" => \/ probe[c][r] \in {"queued", "main", "found"}
                                \/ probe[c][r] = "master" /\ r \in OnMaster
       /\ stage[c] = "profiles" => probe[c][r] \in {"found", "saved"}
       /\ stage[c] = "register" => r \in list[c]

\* What is about to be registered leaves out the profiles it does not know only.
ListInv == \A l \in Lister : stage[l] = "register" => profiles \subseteq list[l] \cup newer[l]

OnboardingInv == Shape /\ (\A c \in Caller : CallerInv(c)) /\ ListInv

\* Discoveries and the start of the process are apart.
LEMMA CallersList == /\ Caller \subseteq Lister /\ Boot \in Lister
                     /\ \A c \in Caller : c # Boot
BY BootAssumption DEF Lister

\* What is owed is seen, and finite.
LEMMA OwedSeen ==
  ASSUME TypeOK, NEW c \in Caller
  PROVE  /\ Visible[answer[c].version] \subseteq Repo
         /\ IsFiniteSet(Visible[answer[c].version])
         /\ Owed(c) \subseteq Repo
<1>1. answer[c].version \in Version
  BY DEF TypeOK
<1>2. Visible[answer[c].version] \subseteq Repo
  BY <1>1, VisibleAssumption
<1>3. IsFiniteSet(Visible[answer[c].version])
  BY <1>2, RepoAssumption, FS_Subset
<1> QED
  BY <1>2, <1>3 DEF Owed

\* What another does leaves a discovery as it was.
LEMMA Undisturbed ==
  ASSUME NEW c \in Caller, CallerInv(c), answer'[c] = answer[c], call'[c].at = call[c].at,
         stage'[c] = stage[c], probe'[c] = probe[c], list'[c] = list[c],
         expired'[c] = expired[c], failed'[c] = failed[c]
  PROVE  CallerInv(c)'
BY DEF CallerInv, Owed, In

\* So does a step of the cache that is not the discovery's own.
LEMMA CacheUndisturbed ==
  ASSUME TypeOK, NEW c \in Caller, CallerInv(c), UNCHANGED own,
         \/ \E d \in Caller : d # c /\ (Fetch(d) \/ Publish(d) \/ \E t \in Tenant : Lookup(d, t))
         \/ \E t \in Tenant : SaveToken(t) \/ Invalidate(t)
  PROVE  CallerInv(c)'
<1>1. answer'[c] = answer[c] /\ call'[c] = call[c]
  BY DEF TypeOK, Fetch, Publish, Lookup, Returns, SaveToken, Invalidate
<1> QED
  BY <1>1, Undisturbed DEF own

-----------------------------------------------------------------------------
(* One lemma per action.                                                   *)

\* Asking for a provider, in whatever part of the cache.
LEMMA CacheKeeps ==
  ASSUME TypeOK, OnboardingInv,
         \/ \E c \in Caller : Provide(c) \/ \E t \in Tenant : Lookup(c, t) /\ Alone(c)
         \/ SaveToken(Newcomer) /\ UNCHANGED own
  PROVE  OnboardingInv'
<1>1. UNCHANGED own
  BY DEF Provide, Alone
<1>2. Shape' /\ ListInv'
  BY <1>1 DEF OnboardingInv, Shape, ListInv, own
<1>3. ASSUME NEW c \in Caller PROVE CallerInv(c)'
  <2>0. CallerInv(c)
    BY DEF OnboardingInv
  <2>1. CASE Provide(c) \/ \E t \in Tenant : Lookup(c, t) /\ Alone(c)
    <3>1. stage[c] \notin {"ask", "probe", "profiles", "register"}
      BY <2>0, <2>1 DEF CallerInv, Provide, Fetch, Publish, Alone
    <3> QED
      BY <1>1, <2>0, <3>1 DEF CallerInv, own, In
  <2>2. CASE ~(Provide(c) \/ \E t \in Tenant : Lookup(c, t) /\ Alone(c))
    <3>1. \/ \E d \in Caller : d # c /\ (Fetch(d) \/ Publish(d) \/ \E t \in Tenant : Lookup(d, t))
          \/ SaveToken(Newcomer)
      BY <2>2 DEF Provide
    <3> QED
      BY <1>1, <2>0, <3>1, CacheUndisturbed, NewcomerAssumption
  <2> QED
    BY <2>1, <2>2
<1> QED
  BY <1>2, <1>3 DEF OnboardingInv

\* The beginning of a discovery.
LEMMA ConfigureKeeps ==
  ASSUME TypeOK, OnboardingInv, NEW c \in Caller, Configure(c) \/ AskProvider(c)
  PROVE  OnboardingInv'
<1>1. /\ UNCHANGED <<probe, expired, failed, list, newer, profiles, registered>>
      /\ \E s \in {"ask", "asked"} : stage' = [stage EXCEPT ![c] = s]
      /\ Invalidate(Newcomer) \/ Lookup(c, Newcomer)
  BY DEF Configure, AskProvider, GoesTo
<1>2. Shape
  BY DEF OnboardingInv
<1>3. Shape'
  BY <1>1, <1>2 DEF Shape, Stage
<1>4. /\ stage'[c] \in {"ask", "asked"}
      /\ \A l \in Lister : l # c => stage'[l] = stage[l]
  BY <1>1, <1>2, CallersList DEF Shape
<1>5. CallerInv(c)'
  <2>1. stage[c] # "probe"
    BY DEF Configure, AskProvider
  <2>2. stage'[c] = "ask" => call'[c].at = "idle"
    <3>1. CASE Configure(c)
      BY <3>1 DEF Configure, Invalidate
    <3>2. CASE AskProvider(c)
      BY <1>2, <3>2, CallersList DEF AskProvider, GoesTo, Shape
    <3> QED
      BY <3>1, <3>2
  <2> QED
    BY <1>1, <1>4, <2>1, <2>2 DEF OnboardingInv, CallerInv, In
<1>6. ASSUME NEW d \in Caller, d # c PROVE CallerInv(d)'
  <2>1. answer'[d] = answer[d] /\ call'[d] = call[d]
    BY <1>1, <1>6 DEF TypeOK, Lookup, Returns, Invalidate
  <2>2. stage'[d] = stage[d]
    BY <1>4, <1>6, CallersList
  <2> QED
    BY <1>1, <2>1, <2>2, Undisturbed DEF OnboardingInv
<1>7. ListInv'
  BY <1>1, <1>4 DEF OnboardingInv, ListInv
<1> QED
  BY <1>3, <1>5, <1>6, <1>7 DEF OnboardingInv

\* What the others have.
Elsewhere(c) ==
  /\ \A l \in Lister : l # c => stage'[l] = stage[l] /\ list'[l] = list[l] /\ newer'[l] = newer[l]
  /\ \A d \in Caller : d # c => /\ probe'[d] = probe[d]
                                /\ expired'[d] = expired[d] /\ failed'[d] = failed[d]

\* A step of discovery c that touches neither the cache nor the profiles.
LEMMA OthersKeep ==
  ASSUME OnboardingInv, NEW c \in Caller, UNCHANGED <<vars, profiles>>,
         Shape', Elsewhere(c), CallerInv(c)',
         stage'[c] = "register" => profiles \subseteq list'[c] \cup newer'[c]
  PROVE  OnboardingInv'
<1>1. ASSUME NEW d \in Caller, d # c PROVE CallerInv(d)'
  <2>1. answer'[d] = answer[d] /\ call'[d].at = call[d].at
    BY DEF vars
  <2>2. d \in Lister
    BY CallersList
  <2> QED
    BY <1>1, <2>1, <2>2, Undisturbed DEF OnboardingInv, Elsewhere
<1>2. ListInv'
  BY DEF OnboardingInv, ListInv, Elsewhere
<1> QED
  BY <1>1, <1>2 DEF OnboardingInv

\* With no more repositories than the limit, the list of them is complete.
LEMMA ListReposKeeps ==
  ASSUME TypeOK, OnboardingInv, NEW c \in Caller, ListRepos(c)
  PROVE  OnboardingInv'
<1>1. Shape /\ CallerInv(c) /\ stage[c] = "asked" /\ call[c].at = "idle" /\ call'[c].at = "idle"
      /\ answer'[c] = answer[c]
  BY DEF OnboardingInv, ListRepos, vars
<1>2. /\ UNCHANGED <<vars, expired, list, newer, profiles, registered>>
  BY DEF ListRepos
<1>3. ASSUME NEW listed \in SUBSET Visible[answer[c].version],
             listed = Visible[answer[c].version] \/ Cardinality(listed) = MaxRepos,
             probe' = [probe EXCEPT ![c] = [r \in Repo |-> IF r \in listed THEN "queued"
                                                           ELSE "none"]],
             GoesTo(c, "probe"), UNCHANGED failed
      PROVE  OnboardingInv'
  <2> DEFINE p == [r \in Repo |-> IF r \in listed THEN "queued" ELSE "none"]
  <2>1. p \in [Repo -> Probe]
    BY DEF Probe
  <2>2. stage'[c] = "probe" /\ probe'[c] = p
    BY <1>1, <1>3, CallersList DEF Shape, GoesTo
  <2>3. Owed(c)' = Owed(c) /\ Owed(c) \subseteq Repo
    BY <1>1, <1>3, OwedSeen DEF Owed
  <2>4. Owed(c) # {} => listed = Visible[answer[c].version]
    <3>1. IsFiniteSet(Visible[answer[c].version])
      BY OwedSeen
    <3>2. /\ Cardinality(listed) \in Nat /\ Cardinality(Visible[answer[c].version]) \in Nat
          /\ Cardinality(listed) <= Cardinality(Visible[answer[c].version])
          /\ Cardinality(Visible[answer[c].version]) = Cardinality(listed)
               => Visible[answer[c].version] = listed
      BY <3>1, FS_Subset, FS_CardinalityType
    <3> QED
      BY <1>3, <3>2, LimitAssumption DEF Owed
  <2>5. \A r \in Owed(c) : p[r] = "queued"
    BY <2>3, <2>4 DEF Owed
  <2>6. CallerInv(c)'
    BY <1>1, <1>2, <1>3, <2>2, <2>3, <2>5 DEF CallerInv
  <2> HIDE DEF p
  <2>7. probe' = [probe EXCEPT ![c] = p]
    BY <1>3 DEF p
  <2>8. Shape'
    BY <1>1, <1>2, <1>3, <2>1, <2>7 DEF Shape, GoesTo, Stage
  <2>9. Elsewhere(c)
    BY <1>1, <1>2, <1>3, <2>7 DEF Shape, GoesTo, Elsewhere
  <2> QED
    BY <1>2, <2>2, <2>6, <2>8, <2>9, OthersKeep
<1>4. ASSUME Fails(c), GoesTo(c, "profiles"), UNCHANGED probe PROVE OnboardingInv'
  <2>1. stage'[c] = "profiles" /\ failed'[c] = TRUE
    BY <1>1, <1>4, CallersList DEF Shape, GoesTo, Fails
  <2>2. CallerInv(c)'
    BY <1>1, <1>4, <2>1 DEF CallerInv, Owed, In
  <2>3. Shape'
    BY <1>1, <1>2, <1>4 DEF Shape, GoesTo, Fails, Stage
  <2>4. Elsewhere(c)
    BY <1>1, <1>2, <1>4 DEF Shape, GoesTo, Fails, Elsewhere
  <2> QED
    BY <1>2, <2>1, <2>2, <2>3, <2>4, OthersKeep
<1> QED
  BY <1>3, <1>4 DEF ListRepos

\* What may become of a repository without a failure.
Harmless(c, r, q) ==
  q \in {"main", "found"} \/ (q = "master" /\ r \in OnMaster) \/ r \notin Owed(c)

\* A worker's step changes one repository of the discovery's; any failure is noted.
LEMMA ProbeKeeps ==
  ASSUME TypeOK, OnboardingInv, NEW c \in Caller, NEW r \in Repo, NEW q \in Probe,
         UNCHANGED <<vars, stage, expired, list, newer, profiles, registered>>,
         stage[c] = "probe", Becomes(c, r, q),
         Fails(c) \/ (UNCHANGED failed /\ Harmless(c, r, q))
  PROVE  OnboardingInv'
<1>1. Shape /\ CallerInv(c) /\ call'[c].at = call[c].at /\ answer'[c] = answer[c]
      /\ registered' \subseteq Repo
  BY DEF OnboardingInv, vars, Shape
<1> DEFINE p == [probe[c] EXCEPT ![r] = q]
<1>2. p \in [Repo -> Probe] /\ probe' = [probe EXCEPT ![c] = p]
  BY <1>1 DEF Shape, Becomes
<1>3. probe'[c] = p
  BY <1>1, <1>2 DEF Shape
<1>4. \A a \in Repo : p[a] = IF a = r THEN q ELSE probe[c][a]
  BY <1>1 DEF Shape
<1> HIDE DEF p
<1>5. CASE Fails(c)
  <2>1. failed' = [failed EXCEPT ![c] = TRUE] /\ failed'[c] = TRUE
    BY <1>1, <1>5 DEF Shape, Fails
  <2>2. CallerInv(c)'
    BY <1>1, <2>1 DEF CallerInv, Owed
  <2>3. Shape' /\ Elsewhere(c)
    BY <1>1, <1>2, <2>1 DEF Shape, Elsewhere
  <2> QED
    BY <1>1, <2>2, <2>3, OthersKeep
<1>6. CASE UNCHANGED failed /\ Harmless(c, r, q)
  <2>1. Owed(c)' = Owed(c) /\ Owed(c) \subseteq Repo /\ Owed(c) \subseteq OnMain \cup OnMaster
    BY <1>1, <1>6, OwedSeen DEF Owed
  <2>2. \A a \in Owed(c) : \/ p[a] \in {"queued", "main", "found"}
                           \/ p[a] = "master" /\ a \in OnMaster
    BY <1>1, <1>4, <1>6, <2>1 DEF CallerInv, Harmless
  <2>3. CallerInv(c)'
    BY <1>1, <1>3, <1>6, <2>1, <2>2 DEF CallerInv
  <2>4. Shape' /\ Elsewhere(c)
    BY <1>1, <1>2, <1>6 DEF Shape, Elsewhere
  <2> QED
    BY <1>1, <2>3, <2>4, OthersKeep
<1> QED
  BY <1>5, <1>6

\* The pool is closed when every repository has been seen to, or time is over.
LEMMA ClosePoolKeeps ==
  ASSUME TypeOK, OnboardingInv, NEW c \in Caller, ClosePool(c)
  PROVE  OnboardingInv'
<1>1. Shape /\ CallerInv(c) /\ stage[c] = "probe" /\ call'[c].at = call[c].at
      /\ answer'[c] = answer[c] /\ UNCHANGED <<vars, probe, expired, failed, list, newer, profiles,
                                               registered>>
  BY DEF OnboardingInv, ClosePool, vars
<1>2. stage' = [stage EXCEPT ![c] = "profiles"] /\ stage'[c] = "profiles" /\ "profiles" \in Stage
  BY <1>1, CallersList DEF Shape, ClosePool, GoesTo, Stage
<1>3. Owed(c)' = Owed(c) /\ Owed(c) \subseteq Repo
  BY <1>1, OwedSeen DEF Owed
<1>4. \A r \in Owed(c) : probe[c][r] = "found"
  <2>1. \A r \in Owed(c) : ~expired[c] /\ probe[c][r] \notin {"main", "master", "queued"}
    BY <1>1, <1>3 DEF CallerInv, Owed, ClosePool, In
  <2> QED
    BY <1>1, <2>1 DEF CallerInv
<1>5. CallerInv(c)'
  BY <1>1, <1>2, <1>3, <1>4 DEF CallerInv, ClosePool, In
<1>6. Shape' /\ Elsewhere(c)
  BY <1>1, <1>2 DEF Shape, Elsewhere
<1> QED
  BY <1>1, <1>2, <1>5, <1>6, OthersKeep

\* Workers overlook nothing.
LEMMA WorkersKeep ==
  ASSUME TypeOK, OnboardingInv, NEW c \in Caller, NEW r \in Repo,
         TakeRepo(c, r) \/ FetchMain(c, r) \/ FetchMaster(c, r)
  PROVE  OnboardingInv'
<1>1. UNCHANGED <<vars, stage, expired, list, newer, profiles, registered>>
  BY DEF TakeRepo, FetchMain, FetchMaster
<1>2. Shape /\ CallerInv(c)
  BY DEF OnboardingInv
<1>3. stage[c] = "probe"
  BY <1>2 DEF CallerInv, In, TakeRepo, FetchMain, FetchMaster
<1>4. r \in Owed(c) => r \in OnMain \cup OnMaster
  BY DEF Owed
<1>5. "main" \in Probe /\ "master" \in Probe /\ "found" \in Probe /\ "missed" \in Probe
  BY DEF Probe
<1>6. Harmless(c, r, "main") /\ Harmless(c, r, "found")
  BY DEF Harmless
<1>7. CASE TakeRepo(c, r)
  <2>1. Becomes(c, r, "main") /\ UNCHANGED failed
    BY <1>7 DEF TakeRepo
  <2> QED
    BY <1>1, <1>3, <1>5, <1>6, <2>1, ProbeKeeps
<1>8. CASE FetchMain(c, r)
  <2>1. r \notin OnMain => Harmless(c, r, "master")
    BY <1>4 DEF Harmless
  <2> QED
    BY <1>1, <1>3, <1>5, <1>6, <1>8, <2>1, ProbeKeeps DEF FetchMain
<1>9. CASE FetchMaster(c, r)
  <2>1. r \notin OnMaster => Harmless(c, r, "missed")
    BY <1>2, <1>3, <1>9 DEF CallerInv, FetchMaster, Harmless
  <2> QED
    BY <1>1, <1>3, <1>5, <1>6, <1>9, <2>1, ProbeKeeps DEF FetchMaster
<1> QED
  BY <1>7, <1>8, <1>9

\* A saved profile becomes known, or newer, to whoever is about to register.
LEMMA SaveKeepsList ==
  ASSUME Shape, ListInv, NEW r \in Repo, UNCHANGED <<stage, list>>,
         Save(r) \/ UNCHANGED <<profiles, newer>>
  PROVE  ListInv' /\ newer' \in [Lister -> SUBSET Repo] /\ profiles' \subseteq Repo
<1>1. CASE Save(r)
  <2>1. /\ profiles' = profiles \cup {r}
        /\ \A l \in Lister : newer'[l] = IF stage[l] = "register" THEN newer[l] \cup ({r} \ list[l])
                                         ELSE newer[l]
    BY <1>1 DEF Save
  <2>2. newer' \in [Lister -> SUBSET Repo]
    BY <1>1 DEF Save, Shape
  <2>3. ListInv'
    BY <2>1 DEF ListInv
  <2> QED
    BY <2>1, <2>2, <2>3 DEF Shape
<1>2. CASE UNCHANGED <<profiles, newer>>
  BY <1>2 DEF Shape, ListInv
<1> QED
  BY <1>1, <1>2

\* A discovery saves the profile of a repository it has found.
LEMMA SaveProfileKeeps ==
  ASSUME TypeOK, OnboardingInv, NEW c \in Caller, NEW r \in Repo, SaveProfile(c, r)
  PROVE  OnboardingInv'
<1>1. /\ Shape /\ ListInv /\ CallerInv(c) /\ stage[c] = "profiles" /\ probe[c][r] = "found"
      /\ UNCHANGED <<vars, stage, expired, list, registered>> /\ Becomes(c, r, "saved")
      /\ Fails(c) \/ UNCHANGED failed
      /\ Save(r) \/ UNCHANGED <<profiles, newer>>
  BY DEF OnboardingInv, SaveProfile
<1>2. ListInv' /\ newer' \in [Lister -> SUBSET Repo] /\ profiles' \subseteq Repo
  BY <1>1, SaveKeepsList
<1>3. failed' \in [Caller -> BOOLEAN] /\ \A d \in Caller : d # c => failed'[d] = failed[d]
  BY <1>1 DEF Shape, Fails
<1>4. failed[c] => failed'[c]
  BY <1>1 DEF Shape, Fails
<1>5. /\ probe' \in [Caller -> [Repo -> Probe]]
      /\ \A d \in Caller : d # c => probe'[d] = probe[d]
      /\ \A a \in Repo : probe'[c][a] = IF a = r THEN "saved" ELSE probe[c][a]
  BY <1>1 DEF Shape, Becomes, Probe
<1>6. Shape'
  BY <1>1, <1>2, <1>3, <1>5 DEF Shape
<1>7. answer' = answer /\ call' = call
  BY <1>1 DEF vars
<1>8. CallerInv(c)'
  <2>1. Owed(c)' \subseteq Owed(c) /\ Owed(c) \subseteq Repo
    BY <1>4, <1>7, OwedSeen DEF Owed
  <2>2. (expired[c] => failed[c])'
    BY <1>1, <1>4 DEF CallerInv
  <2>3. In(c, {"main", "master"})' = {}
    BY <1>1, <1>5 DEF In, CallerInv
  <2>4. \A a \in Owed(c) : probe'[c][a] \in {"found", "saved"}
    BY <1>1, <1>5, <2>1 DEF CallerInv
  <2> QED
    BY <1>1, <1>7, <2>1, <2>2, <2>3, <2>4 DEF CallerInv
<1>9. ASSUME NEW d \in Caller, d # c PROVE CallerInv(d)'
  BY <1>1, <1>3, <1>5, <1>7, <1>9, Undisturbed DEF OnboardingInv
<1> QED
  BY <1>2, <1>6, <1>8, <1>9 DEF OnboardingInv

\* What is listed are the repositories found and the profiles there are.
LEMMA MergeProfilesKeeps ==
  ASSUME TypeOK, OnboardingInv, NEW c \in Caller, MergeProfiles(c)
  PROVE  OnboardingInv'
<1>1. /\ Shape /\ CallerInv(c) /\ stage[c] = "profiles" /\ In(c, {"found"}) = {}
      /\ UNCHANGED <<vars, probe, expired, profiles, registered>>
      /\ answer' = answer /\ call' = call
  BY DEF OnboardingInv, MergeProfiles, vars
<1>2. PICK repos \in SUBSET Repo, unknown \in SUBSET Repo :
        /\ Lists(c, repos, unknown) /\ In(c, {"saved"}) \subseteq repos
        /\ profiles \subseteq repos \cup unknown /\ (Fails(c) \/ UNCHANGED failed)
  <2>1. In(c, {"saved"}) \subseteq Repo /\ profiles \subseteq Repo
    BY <1>1 DEF In, Shape
  <2>2. CASE Lists(c, In(c, {"saved"}) \cup profiles, {}) /\ UNCHANGED failed
    BY <2>1, <2>2
  <2>3. CASE Fails(c) /\ Lists(c, In(c, {"saved"}), Repo \ In(c, {"saved"}))
    BY <2>1, <2>3
  <2> QED
    BY <2>2, <2>3 DEF MergeProfiles
<1>3. /\ stage'[c] = "register" /\ list'[c] = repos /\ newer'[c] = unknown
  BY <1>1, <1>2, CallersList DEF Shape, Lists, GoesTo
<1>4. failed' \in [Caller -> BOOLEAN] /\ (failed[c] => failed'[c])
      /\ \A d \in Caller : d # c => failed'[d] = failed[d]
  BY <1>1, <1>2 DEF Shape, Fails
<1>5. Shape'
  BY <1>1, <1>2, <1>4 DEF Shape, Lists, GoesTo, Stage
<1>6. Elsewhere(c)
  BY <1>1, <1>2, <1>4 DEF Shape, Lists, GoesTo, Elsewhere
<1>7. CallerInv(c)'
  <2>1. Owed(c)' \subseteq Owed(c) /\ Owed(c) \subseteq Repo
    BY <1>1, <1>4, OwedSeen DEF Owed
  <2>2. (expired[c] => failed[c])'
    BY <1>1, <1>4 DEF CallerInv
  <2>3. In(c, {"main", "master"})' = {}
    BY <1>1 DEF In, CallerInv
  <2>4. Owed(c) \subseteq In(c, {"saved"})
    BY <1>1, <2>1 DEF CallerInv, In
  <2> QED
    BY <1>1, <1>2, <1>3, <2>1, <2>2, <2>3, <2>4 DEF CallerInv
<1> QED
  BY <1>1, <1>2, <1>3, <1>5, <1>6, <1>7, OthersKeep

\* The end of a discovery.
LEMMA RegisterFoundKeeps ==
  ASSUME TypeOK, OnboardingInv, NEW c \in Caller, RegisterFound(c)
  PROVE  OnboardingInv'
<1>1. Shape /\ CallerInv(c) /\ UNCHANGED <<vars, profiles>>
  BY DEF OnboardingInv, RegisterFound
<1>2. stage'[c] = "idle" /\ probe'[c] = Untouched /\ expired'[c] = FALSE
  BY <1>1, CallersList DEF RegisterFound, GoesTo, Shape
<1>3. CallerInv(c)'
  BY <1>2 DEF CallerInv, In, Untouched
<1>4. expired' \in [Caller -> BOOLEAN] /\ failed' \in [Caller -> BOOLEAN]
  BY <1>1 DEF RegisterFound, Shape
<1>5. Untouched \in [Repo -> Probe] /\ list[c] \subseteq Repo
  BY <1>1, CallersList DEF Untouched, Probe, Shape
<1>6. registered' \subseteq Repo
  BY <1>1, <1>5 DEF RegisterFound, Shape
<1>7. Shape'
  BY <1>1, <1>4, <1>5, <1>6 DEF RegisterFound, GoesTo, Shape, Stage
<1>8. Elsewhere(c)
  BY <1>1 DEF RegisterFound, GoesTo, Shape, Elsewhere
<1> QED
  BY <1>1, <1>2, <1>3, <1>7, <1>8, OthersKeep

\* Whatever a discovery has not done when its time is over counts as failed.
LEMMA ExpireKeeps ==
  ASSUME TypeOK, OnboardingInv, NEW c \in Caller, Expire(c)
  PROVE  OnboardingInv'
<1>1. /\ Shape /\ ListInv /\ CallerInv(c) /\ answer' = answer /\ call' = call
      /\ UNCHANGED <<vars, stage, probe, list, newer, profiles, registered>>
  BY DEF OnboardingInv, Expire, vars
<1>2. failed'[c] = TRUE /\ expired' \in [Caller -> BOOLEAN] /\ failed' \in [Caller -> BOOLEAN]
  BY <1>1 DEF Expire, Fails, Shape
<1>3. CallerInv(c)'
  BY <1>1, <1>2 DEF CallerInv, Owed, In
<1>4. Shape' /\ Elsewhere(c)
  BY <1>1, <1>2 DEF Expire, Fails, Shape, Elsewhere
<1>5. stage'[c] = "register" => profiles \subseteq list'[c] \cup newer'[c]
  BY <1>1, CallersList DEF ListInv
<1> QED
  BY <1>1, <1>3, <1>4, <1>5, OthersKeep

\* A posted profile.
LEMMA PostProfileKeeps ==
  ASSUME TypeOK, OnboardingInv, NEW r \in Repo, PostProfile(r) \/ RegisterPosted(r)
  PROVE  OnboardingInv'
<1>1. /\ Shape /\ ListInv
      /\ Save(r) \/ UNCHANGED <<profiles, newer>>
      /\ registered' \subseteq Repo /\ answer' = answer /\ call' = call
      /\ UNCHANGED <<vars, stage, probe, expired, failed, list>>
  BY DEF OnboardingInv, Shape, PostProfile, RegisterPosted, vars
<1>2. ListInv' /\ newer' \in [Lister -> SUBSET Repo] /\ profiles' \subseteq Repo
  BY <1>1, SaveKeepsList
<1>3. Shape'
  BY <1>1, <1>2 DEF Shape
<1>4. \A c \in Caller : CallerInv(c)'
  BY <1>1, Undisturbed DEF OnboardingInv
<1> QED
  BY <1>2, <1>3, <1>4 DEF OnboardingInv

\* The start of the process.
LEMMA BootKeeps ==
  ASSUME TypeOK, OnboardingInv, LoadAllProfiles \/ RegisterAtStart
  PROVE  OnboardingInv'
<1>1. /\ Shape /\ ListInv /\ answer' = answer /\ call' = call
      /\ UNCHANGED <<vars, probe, expired, failed, profiles>>
  BY DEF OnboardingInv, LoadAllProfiles, RegisterAtStart, vars
<1>2. PICK s \in {"register", "idle"}, repos \in SUBSET Repo, unknown \in SUBSET Repo :
        /\ stage' = [stage EXCEPT ![Boot] = s]
        /\ list' = [list EXCEPT ![Boot] = repos] /\ newer' = [newer EXCEPT ![Boot] = unknown]
        /\ s = "register" => profiles \subseteq repos
        /\ registered' \subseteq Repo
  <2>1. CASE LoadAllProfiles /\ Lists(Boot, profiles, {})
    <3>1. /\ stage' = [stage EXCEPT ![Boot] = "register"] /\ UNCHANGED registered
          /\ list' = [list EXCEPT ![Boot] = profiles] /\ newer' = [newer EXCEPT ![Boot] = {}]
      BY <2>1 DEF LoadAllProfiles, Lists, GoesTo
    <3>2. profiles \in SUBSET Repo /\ {} \in SUBSET Repo /\ registered' \subseteq Repo
      BY <1>1, <3>1 DEF Shape
    <3> QED
      BY <3>1, <3>2
  <2>2. CASE LoadAllProfiles /\ GoesTo(Boot, "idle") /\ UNCHANGED <<list, newer>>
    <3>1. /\ list = [list EXCEPT ![Boot] = list[Boot]] /\ list[Boot] \in SUBSET Repo
          /\ newer = [newer EXCEPT ![Boot] = newer[Boot]] /\ newer[Boot] \in SUBSET Repo
      BY <1>1, CallersList DEF Shape
    <3>2. stage' = [stage EXCEPT ![Boot] = "idle"] /\ registered' \subseteq Repo
      BY <1>1, <2>2 DEF Shape, LoadAllProfiles, GoesTo
    <3> QED
      BY <2>2, <3>1, <3>2
  <2>3. CASE RegisterAtStart
    <3>1. registered' \subseteq Repo
      BY <1>1, <2>3, CallersList DEF Shape, RegisterAtStart
    <3>2. /\ stage' = [stage EXCEPT ![Boot] = "idle"]
          /\ list' = [list EXCEPT ![Boot] = {}] /\ newer' = [newer EXCEPT ![Boot] = {}]
      BY <2>3 DEF RegisterAtStart, GoesTo
    <3>3. {} \in SUBSET Repo
      OBVIOUS
    <3> QED
      BY <3>1, <3>2, <3>3
  <2> QED
    BY <2>1, <2>2, <2>3 DEF LoadAllProfiles
<1>3. Shape'
  BY <1>1, <1>2 DEF Shape, Stage
<1>4. \A l \in Lister : l # Boot => /\ stage'[l] = stage[l] /\ list'[l] = list[l]
                                     /\ newer'[l] = newer[l]
  BY <1>1, <1>2 DEF Shape
<1>5. ListInv'
  BY <1>1, <1>2, <1>4, CallersList DEF Shape, ListInv
<1>6. ASSUME NEW c \in Caller PROVE CallerInv(c)'
  <2>1. stage'[c] = stage[c] /\ list'[c] = list[c]
    BY <1>4, CallersList
  <2> QED
    BY <1>1, <2>1, Undisturbed DEF OnboardingInv
<1> QED
  BY <1>3, <1>5, <1>6 DEF OnboardingInv

\* A restart forgets all but the profiles.
LEMMA RestartKeeps ==
  ASSUME Shape, RestartAll
  PROVE  OnboardingInv'
<1>1. expired' \in [Caller -> BOOLEAN] /\ failed' \in [Caller -> BOOLEAN]
  BY DEF RestartAll
<1>2. stage' \in [Lister -> Stage] /\ probe' \in [Caller -> [Repo -> Probe]]
  BY DEF RestartAll, Stage, Probe, Untouched
<1>3. Shape'
  BY <1>1, <1>2 DEF Shape, RestartAll
<1>4. \A l \in Lister : stage'[l] # "register" /\ (l # Boot => stage'[l] = "idle")
  BY DEF RestartAll
<1>5. \A c \in Caller : stage'[c] = "idle" /\ probe'[c] = Untouched /\ expired'[c] = FALSE
  BY <1>4, CallersList DEF RestartAll
<1>6. \A c \in Caller : CallerInv(c)'
  BY <1>5 DEF CallerInv, In, Untouched
<1>7. ListInv'
  BY <1>4 DEF ListInv
<1> QED
  BY <1>3, <1>6, <1>7 DEF OnboardingInv

-----------------------------------------------------------------------------
(* The theorems.                                                           *)

\* The invariant is inductive.
LEMMA StepKeeps ==
  ASSUME TypeOK, OnboardingInv, [OnboardingNext]_all
  PROVE  OnboardingInv'
<1>1. CASE UNCHANGED all
  <2>1. UNCHANGED <<vars, own>>
    BY <1>1 DEF all
  <2>2. answer' = answer /\ call' = call
    BY <2>1 DEF vars
  <2>3. Shape' /\ ListInv'
    BY <2>1 DEF own, OnboardingInv, Shape, ListInv
  <2>4. \A c \in Caller : CallerInv(c)'
    BY <2>1, <2>2, Undisturbed DEF own, OnboardingInv
  <2> QED
    BY <2>3, <2>4 DEF OnboardingInv
<1>2. ASSUME NEW c \in Caller, Discover(c) PROVE OnboardingInv'
  BY <1>2, ConfigureKeeps, ListReposKeeps, WorkersKeep, SaveProfileKeeps, ClosePoolKeeps,
     MergeProfilesKeeps, RegisterFoundKeeps DEF Discover
<1>3. CASE OnboardingNext
  BY <1>2, <1>3, CacheKeeps, ConfigureKeeps, ExpireKeeps, PostProfileKeeps, BootKeeps,
     RestartKeeps DEF OnboardingNext, OnboardingInv
<1> QED
  BY <1>1, <1>3

\* It holds always.
THEOREM Inductive == OnboardingSpec => []OnboardingInv
<1>1. OnboardingInit => OnboardingInv
  <2> SUFFICES ASSUME OnboardingInit PROVE OnboardingInv
    OBVIOUS
  <2>1. expired \in [Caller -> BOOLEAN] /\ failed \in [Caller -> BOOLEAN]
    BY DEF OnboardingInit
  <2>2. stage \in [Lister -> Stage] /\ probe \in [Caller -> [Repo -> Probe]]
    BY DEF OnboardingInit, Stage, Probe, Untouched
  <2>3. Shape
    BY <2>1, <2>2 DEF OnboardingInit, Shape
  <2>4. \A c \in Caller : stage[c] = "idle" /\ probe[c] = Untouched /\ expired[c] = FALSE
    BY CallersList DEF OnboardingInit
  <2>5. \A c \in Caller : CallerInv(c)
    BY <2>4 DEF CallerInv, In, Untouched
  <2>6. ListInv
    BY DEF OnboardingInit, ListInv
  <2> QED
    BY <2>3, <2>5, <2>6 DEF OnboardingInv
<1>2. OnboardingSpec => []TypeOK
  BY OnboardingUsesCache, TypeCorrect, PTL
<1> QED
  BY <1>1, <1>2, StepKeeps, PTL DEF OnboardingSpec

\* A discovery in which no call failed registers all that it should
\* (handlers.go:554-616).
THEOREM DiscoveryOverlooksNothing == OnboardingSpec => []NothingOverlooked
<1>1. OnboardingInv => NothingOverlooked
  BY DEF OnboardingInv, CallerInv, Owed, NothingOverlooked
<1> QED
  BY <1>1, Inductive, PTL

\* A repository with a profile drops out of the list only as stated (scanner.go:33).
THEOREM ProfilesStayRegistered == OnboardingSpec => RegisteredKept
<1> DEFINE Kept(r) == r \notin registered' =>
              \/ (\E posted \in Repo : RegisterPosted(posted)) \/ RestartAll
              \/ \E l \in Lister : stage[l] = "register" /\ stage'[l] = "idle" /\ r \in newer[l]
<1>1. ASSUME OnboardingInv, [OnboardingNext]_all, NEW r \in registered \cap profiles
      PROVE  Kept(r)
  <2>0. Shape /\ ListInv
    BY <1>1 DEF OnboardingInv
  <2>1. CASE UNCHANGED registered
    BY <1>1, <2>1
  <2>2. ASSUME NEW l \in Lister, stage[l] = "register", GoesTo(l, "idle"),
               registered' = list[l] \/ UNCHANGED registered
        PROVE  Kept(r)
    <3>1. stage'[l] = "idle"
      BY <2>0, <2>2 DEF GoesTo, Shape
    <3>2. r \in list[l] \/ r \in newer[l]
      BY <1>1, <2>0, <2>2 DEF ListInv
    <3> QED
      BY <1>1, <2>2, <3>1, <3>2
  <2>3. ASSUME NEW c \in Caller, RegisterFound(c) PROVE Kept(r)
    BY <2>2, <2>3, CallersList DEF RegisterFound
  <2>4. ASSUME RegisterAtStart PROVE Kept(r)
    BY <2>2, <2>4, CallersList DEF RegisterAtStart
  <2>5. \/ UNCHANGED registered \/ (\E posted \in Repo : RegisterPosted(posted)) \/ RestartAll
        \/ (\E c \in Caller : RegisterFound(c)) \/ RegisterAtStart
    BY <1>1 DEF OnboardingNext, all, own, Alone, Provide, Configure, Discover, Expire,
                AskProvider, ListRepos, TakeRepo, FetchMain, FetchMaster, SaveProfile,
                ClosePool, MergeProfiles, PostProfile, LoadAllProfiles
  <2> QED
    BY <2>1, <2>3, <2>4, <2>5
<1>2. OnboardingInv /\ [OnboardingNext]_all => [\A r \in registered \cap profiles : Kept(r)]_all
  BY <1>1
<1> QED
  BY <1>2, Inductive, PTL DEF OnboardingSpec, RegisteredKept

\* Under any discoveries a revoked token stays cached by the one race only, and
\* tenants do not get each other's (pertenant.go:37-66).
THEOREM CacheKeepsItsPromises == OnboardingSpec => [](StaleOnlyByRace /\ OwnToken)
BY OnboardingUsesCache, OnlyTheRaceIsStale, TokensAreOwn, PTL

-----------------------------------------------------------------------------
(* Types, and the number of workers.                                       *)

\* What the workers of c are at.
Busy(c) == In(c, {"main", "master"})

\* Only taking a repository makes a worker busy.
LEMMA StepOfWorkers ==
  ASSUME Shape, [OnboardingNext]_all, NEW c \in Caller
  PROVE  Busy(c)' \subseteq Busy(c) \/ \E r \in Repo : TakeRepo(c, r)
<1>1. ASSUME probe'[c] = probe[c] PROVE Busy(c)' \subseteq Busy(c)
  BY <1>1 DEF Busy, In
<1>2. ASSUME NEW d \in Caller, NEW r \in Repo, NEW q \in Probe, Becomes(d, r, q),
             q \in {"main", "master"} => probe[d][r] \in {"main", "master"}
      PROVE  Busy(c)' \subseteq Busy(c)
  <2>1. CASE d # c
    BY <1>1, <1>2, <2>1 DEF Becomes, Shape
  <2>2. CASE d = c
    <3>1. \A a \in Repo : probe'[c][a] = IF a = r THEN q ELSE probe[c][a]
      BY <1>2, <2>2 DEF Becomes, Shape
    <3> QED
      BY <1>2, <2>2, <3>1 DEF Busy, In
  <2> QED
    BY <2>1, <2>2
<1>3. ASSUME NEW d \in Caller, NEW r \in Repo,
             FetchMain(d, r) \/ FetchMaster(d, r) \/ SaveProfile(d, r)
      PROVE  Busy(c)' \subseteq Busy(c)
  <2>1. \E q \in {"master", "found", "missed", "saved"} :
          /\ Becomes(d, r, q)
          /\ q \in {"main", "master"} => probe[d][r] \in {"main", "master"}
    BY <1>3 DEF FetchMain, FetchMaster, SaveProfile
  <2> QED
    BY <1>2, <2>1 DEF Probe
<1>4. ASSUME NEW d \in Caller, NEW r \in Repo, TakeRepo(d, r), d # c
      PROVE  Busy(c)' \subseteq Busy(c)
  BY <1>1, <1>4 DEF TakeRepo, Becomes, Shape
<1>5. ASSUME NEW d \in Caller, ListRepos(d) \/ RegisterFound(d)
      PROVE  Busy(c)' \subseteq Busy(c)
  <2>1. CASE \E p : probe' = [probe EXCEPT ![d] = p] /\ \A r \in Repo : p[r] \in {"queued", "none"}
    BY <1>1, <2>1 DEF Busy, In, Shape
  <2>2. CASE UNCHANGED probe
    BY <1>1, <2>2
  <2>3. CASE RegisterFound(d)
    <3>1. \A r \in Repo : Untouched[r] = "none"
      BY DEF Untouched
    <3> QED
      BY <2>1, <2>3, <3>1 DEF RegisterFound
  <2>4. CASE ListRepos(d)
    <3> DEFINE p(listed) == [r \in Repo |-> IF r \in listed THEN "queued" ELSE "none"]
    <3>1. UNCHANGED probe \/ \E listed : probe' = [probe EXCEPT ![d] = p(listed)]
      BY <2>4 DEF ListRepos
    <3>2. \A listed : \A r \in Repo : p(listed)[r] \in {"queued", "none"}
      OBVIOUS
    <3> HIDE DEF p
    <3> QED
      BY <2>1, <2>2, <3>1, <3>2
  <2> QED
    BY <1>5, <2>3, <2>4
<1>6. CASE RestartAll
  BY <1>6 DEF RestartAll, Busy, In, Untouched
<1>7. \/ UNCHANGED probe \/ RestartAll
      \/ \E d \in Caller : \/ ListRepos(d) \/ RegisterFound(d)
                           \/ \E r \in Repo : \/ TakeRepo(d, r) \/ FetchMain(d, r)
                                              \/ FetchMaster(d, r) \/ SaveProfile(d, r)
  BY DEF OnboardingNext, all, own, Alone, Provide, Configure, Discover, Expire, AskProvider,
         ClosePool, MergeProfiles, PostProfile, RegisterPosted, LoadAllProfiles, RegisterAtStart
<1> QED
  BY <1>1, <1>3, <1>4, <1>5, <1>6, <1>7

\* Every variable has its type, and no more workers are busy than there are
\* (handlers.go:570-600).
THEOREM NoMoreWorkers == OnboardingSpec => []OnboardingTypeOK
<1> DEFINE Bound == \A c \in Caller : Cardinality(Busy(c)) <= Workers
<1>1. OnboardingInit => Bound
  <2> SUFFICES ASSUME OnboardingInit, NEW c \in Caller PROVE Cardinality(Busy(c)) <= Workers
    OBVIOUS
  <2>1. Busy(c) = {}
    BY DEF OnboardingInit, Busy, In, Untouched
  <2> QED
    BY <2>1, FS_EmptySet, LimitAssumption
<1>2. ASSUME Shape, Bound, [OnboardingNext]_all PROVE Bound'
  <2> SUFFICES ASSUME NEW c \in Caller PROVE Cardinality(Busy(c)') <= Workers
    OBVIOUS
  <2>1. IsFiniteSet(Busy(c)) /\ Cardinality(Busy(c)) \in Nat
    BY RepoAssumption, FS_Subset, FS_CardinalityType DEF Busy, In
  <2>2. CASE Busy(c)' \subseteq Busy(c)
    <3>1. Cardinality(Busy(c)') \in Nat /\ Cardinality(Busy(c)') <= Cardinality(Busy(c))
      BY <2>1, <2>2, FS_Subset, FS_CardinalityType
    <3> QED
      BY <1>2, <2>1, <3>1, LimitAssumption
  <2>3. ASSUME NEW r \in Repo, TakeRepo(c, r) PROVE Cardinality(Busy(c)') <= Workers
    <3>1. Busy(c)' = Busy(c) \cup {r}
      BY <1>2, <2>3 DEF Busy, In, TakeRepo, Becomes, Shape
    <3>2. Cardinality(Busy(c)') <= Cardinality(Busy(c)) + 1
      <4>1. Cardinality(Busy(c) \cup {r}) =
              IF r \in Busy(c) THEN Cardinality(Busy(c)) ELSE Cardinality(Busy(c)) + 1
        BY <2>1, FS_AddElement
      <4> QED
        BY <2>1, <3>1, <4>1
    <3>3. Cardinality(Busy(c)') \in Nat
      BY <2>1, <3>1, FS_AddElement, FS_CardinalityType
    <3>4. Cardinality(Busy(c)) < Workers
      BY <2>3 DEF TakeRepo, Busy
    <3> QED
      BY <2>1, <3>2, <3>3, <3>4, LimitAssumption
  <2> QED
    BY <1>2, <2>2, <2>3, StepOfWorkers
<1>3. OnboardingInv => Shape
  BY DEF OnboardingInv
<1>4. Shape /\ Bound => OnboardingTypeOK
  BY DEF Shape, OnboardingTypeOK, Busy, In
<1> HIDE DEF Bound
<1> QED
  BY <1>1, <1>2, <1>3, <1>4, Inductive, PTL DEF OnboardingSpec

-----------------------------------------------------------------------------
(* A discovery wears itself out and is never stuck.                          *)

\* In the worker pool and in what follows: the steps each repository may still take.
ReposLeft(c) ==
  Cardinality(In(c, {"queued"})) + Cardinality(In(c, {"queued", "main"}))
    + Cardinality(In(c, {"queued", "main", "master"}))
    + Cardinality(In(c, {"queued", "main", "master", "found"}))

CallLeft(c) == CASE call[c].at = "fetch" -> 2 [] call[c].at = "publish" -> 1 [] OTHER -> 0

\* Steps to go of discovery c: its provider, the list of repositories, each
\* repository four times, the end of the pool, the profiles, the registration.
DiscoveryLeft(c) ==
  CASE stage[c] = "ask"      -> 4 * Cardinality(Repo) + 7
    [] stage[c] = "asked"    -> 4 * Cardinality(Repo) + 4 + CallLeft(c)
    [] stage[c] = "probe"    -> ReposLeft(c) + 3
    [] stage[c] = "profiles" -> ReposLeft(c) + 2
    [] stage[c] = "register" -> 1
    [] OTHER                 -> 0

\* The guards of a discovery's steps: one of them holds.
CanGoOn(c) ==
  \/ call[c].at \in {"fetch", "publish"}
  \/ stage[c] \in {"ask", "asked"} /\ call[c].at = "idle"
  \/ stage[c] = "probe"
       /\ \/ Busy(c) # {}
          \/ In(c, {"queued"}) # {} /\ ~expired[c] /\ Cardinality(Busy(c)) < Workers
          \/ Busy(c) = {} /\ (In(c, {"queued"}) = {} \/ expired[c])
  \/ stage[c] \in {"profiles", "register"}

\* No discovery has more than four steps for each repository and seven to go, none
\* exactly when it has ended, and none that has not ended waits for nothing.
DiscoveriesBounded ==
  \A c \in Caller :
    /\ DiscoveryLeft(c) \in 0..(4 * Cardinality(Repo) + 7)
    /\ DiscoveryLeft(c) = 0 <=> stage[c] = "idle"
    /\ stage[c] # "idle" => CanGoOn(c)

\* Whatever a discovery does leaves it less to do; nothing the others do gives it
\* more.
DiscoveriesWearOut ==
  \A c \in Caller :
    stage[c] # "idle" =>
      /\ DiscoveryLeft(c)' <= DiscoveryLeft(c)
      /\ Provide(c) \/ Discover(c) => DiscoveryLeft(c)' < DiscoveryLeft(c)

\* The repositories in some states are finitely many, at most all.
LEMMA SomeRepos ==
  ASSUME NEW c \in Caller, NEW S
  PROVE  /\ IsFiniteSet(In(c, S))
         /\ Cardinality(In(c, S)) \in 0..Cardinality(Repo)
         /\ Cardinality(Repo) \in Nat
<1>1. In(c, S) \subseteq Repo
  BY DEF In
<1>2. IsFiniteSet(In(c, S)) /\ Cardinality(In(c, S)) <= Cardinality(Repo)
  BY <1>1, RepoAssumption, FS_Subset
<1> QED
  BY <1>2, RepoAssumption, FS_CardinalityType

LEMMA SomeReposNext ==
  ASSUME NEW c \in Caller, NEW S
  PROVE  /\ IsFiniteSet(In(c, S)')
         /\ Cardinality(In(c, S)') \in 0..Cardinality(Repo)
<1>1. In(c, S)' \subseteq Repo
  BY DEF In
<1>2. IsFiniteSet(In(c, S)') /\ Cardinality(In(c, S)') <= Cardinality(Repo)
  BY <1>1, RepoAssumption, FS_Subset
<1> QED
  BY <1>2, RepoAssumption, FS_CardinalityType

LEMMA LeftTypes ==
  ASSUME NEW c \in Caller
  PROVE  /\ ReposLeft(c) \in 0..(4 * Cardinality(Repo))
         /\ ReposLeft(c)' \in 0..(4 * Cardinality(Repo))
         /\ CallLeft(c) \in 0..2 /\ CallLeft(c)' \in 0..2
         /\ Cardinality(Repo) \in Nat
<1>0. Cardinality(Repo) \in Nat
  BY SomeRepos
<1>1. ReposLeft(c) \in 0..(4 * Cardinality(Repo))
  <2>1. /\ Cardinality(In(c, {"queued"})) \in 0..Cardinality(Repo)
        /\ Cardinality(In(c, {"queued", "main"})) \in 0..Cardinality(Repo)
        /\ Cardinality(In(c, {"queued", "main", "master"})) \in 0..Cardinality(Repo)
        /\ Cardinality(In(c, {"queued", "main", "master", "found"})) \in 0..Cardinality(Repo)
    BY SomeRepos
  <2> QED
    BY <1>0, <2>1 DEF ReposLeft
<1>2. ReposLeft(c)' \in 0..(4 * Cardinality(Repo))
  <2>1. /\ Cardinality(In(c, {"queued"})') \in 0..Cardinality(Repo)
        /\ Cardinality(In(c, {"queued", "main"})') \in 0..Cardinality(Repo)
        /\ Cardinality(In(c, {"queued", "main", "master"})') \in 0..Cardinality(Repo)
        /\ Cardinality(In(c, {"queued", "main", "master", "found"})') \in 0..Cardinality(Repo)
    BY SomeReposNext
  <2> QED
    BY <1>0, <2>1 DEF ReposLeft
<1>3. CallLeft(c) \in {0, 1, 2} /\ CallLeft(c)' \in {0, 1, 2}
  BY DEF CallLeft
<1> QED
  BY <1>0, <1>1, <1>2, <1>3

\* A repository that leaves some states and comes to none of them.
LEMMA FewerIn ==
  ASSUME Shape, NEW c \in Caller, NEW r \in Repo, NEW p, NEW S, Becomes(c, r, p),
         p \in S => probe[c][r] \in S
  PROVE  /\ Cardinality(In(c, S)') <= Cardinality(In(c, S))
         /\ probe[c][r] \in S /\ p \notin S => Cardinality(In(c, S)') < Cardinality(In(c, S))
<1>1. \A a \in Repo : probe'[c][a] = IF a = r THEN p ELSE probe[c][a]
  BY DEF Becomes, Shape
<1>2. CASE probe[c][r] \in S /\ p \notin S
  <2>1. In(c, S)' = In(c, S) \ {r} /\ r \in In(c, S)
    BY <1>1, <1>2 DEF In
  <2>2. Cardinality(In(c, S)') = Cardinality(In(c, S)) - 1
    BY <2>1, SomeRepos, FS_RemoveElement
  <2> QED
    BY <2>2, SomeRepos
<1>3. CASE ~(probe[c][r] \in S /\ p \notin S)
  <2>1. In(c, S)' = In(c, S)
    BY <1>1, <1>3 DEF In
  <2> QED
    BY <1>3, <2>1, SomeRepos
<1> QED
  BY <1>2, <1>3

\* The way of a repository through the pool and the profiles.
Onward(p, q) ==
  \/ p = "queued" /\ q = "main"
  \/ p = "main" /\ q \in {"master", "found", "missed"}
  \/ p = "master" /\ q \in {"found", "missed"}
  \/ p = "found" /\ q = "saved"

LEMMA OnwardLowers ==
  ASSUME Shape, NEW c \in Caller, NEW r \in Repo, NEW p, Becomes(c, r, p),
         Onward(probe[c][r], p)
  PROVE  ReposLeft(c)' < ReposLeft(c)
<1> DEFINE S1 == {"queued"}
           S2 == {"queued", "main"}
           S3 == {"queued", "main", "master"}
           S4 == {"queued", "main", "master", "found"}
           Lower(S) == probe[c][r] \in S /\ p \notin S
<1>1. /\ \A S \in {S1, S2, S3, S4} : p \in S => probe[c][r] \in S
      /\ Lower(S1) \/ Lower(S2) \/ Lower(S3) \/ Lower(S4)
  BY DEF Onward
<1>2. \A S \in {S1, S2, S3, S4} :
        /\ Cardinality(In(c, S)) \in Nat /\ Cardinality(In(c, S)') \in Nat
        /\ Cardinality(In(c, S)') <= Cardinality(In(c, S))
        /\ Lower(S) => Cardinality(In(c, S)') < Cardinality(In(c, S))
  <2> SUFFICES ASSUME NEW S \in {S1, S2, S3, S4}
               PROVE  /\ Cardinality(In(c, S)) \in Nat /\ Cardinality(In(c, S)') \in Nat
                      /\ Cardinality(In(c, S)') <= Cardinality(In(c, S))
                      /\ Lower(S) => Cardinality(In(c, S)') < Cardinality(In(c, S))
    OBVIOUS
  <2>1. Cardinality(In(c, S)) \in Nat /\ Cardinality(In(c, S)') \in Nat
    BY SomeRepos, SomeReposNext
  <2> QED
    BY <1>1, <2>1, FewerIn
<1> HIDE DEF Lower
<1> QED
  BY <1>1, <1>2 DEF ReposLeft

LEMMA DiscoveryBounded == TypeOK /\ OnboardingInv => DiscoveriesBounded
<1> SUFFICES ASSUME TypeOK, OnboardingInv, NEW c \in Caller
             PROVE  /\ DiscoveryLeft(c) \in 0..(4 * Cardinality(Repo) + 7)
                    /\ DiscoveryLeft(c) = 0 <=> stage[c] = "idle"
                    /\ stage[c] # "idle" => CanGoOn(c)
  BY DEF DiscoveriesBounded
<1>1. stage[c] \in Stage /\ CallerInv(c) /\ call[c].at \in CallAt
  BY CallersList DEF OnboardingInv, Shape, TypeOK
<1>2. /\ DiscoveryLeft(c) \in 0..(4 * Cardinality(Repo) + 7)
      /\ DiscoveryLeft(c) = 0 <=> stage[c] = "idle"
  BY <1>1, LeftTypes DEF DiscoveryLeft, Stage
<1>3. ASSUME stage[c] # "idle" PROVE CanGoOn(c)
  <2>1. CASE stage[c] = "probe"
    <3>1. CASE Busy(c) = {}
      <4>1. Cardinality(Busy(c)) < Workers
        BY <3>1, FS_EmptySet, LimitAssumption
      <4>2. expired[c] \in BOOLEAN
        BY DEF OnboardingInv, Shape
      <4> QED
        BY <2>1, <3>1, <4>1, <4>2 DEF CanGoOn
    <3> QED
      BY <2>1, <3>1 DEF CanGoOn
  <2>2. CASE stage[c] \in {"ask", "asked"}
    BY <1>1, <2>2 DEF CanGoOn, CallAt
  <2> QED
    BY <1>1, <1>3, <2>1, <2>2 DEF CanGoOn, Stage
<1> QED
  BY <1>2, <1>3

\* The provider of a discovery, and the list of repositories.
LEMMA AskingLowers ==
  ASSUME TypeOK, OnboardingInv, NEW c \in Caller, stage[c] # "idle",
         Provide(c) \/ AskProvider(c) \/ ListRepos(c)
  PROVE  DiscoveryLeft(c)' < DiscoveryLeft(c)
<1>0. /\ c \in Lister /\ stage \in [Lister -> Stage] /\ CallerInv(c)
      /\ call \in [Caller -> [at : CallAt, tenant : Tenant, got : Version, known : Version]]
  BY CallersList DEF OnboardingInv, Shape, TypeOK
<1>1. CASE Provide(c)
  <2>1. stage[c] = "asked" /\ stage'[c] = "asked"
    BY <1>0, <1>1 DEF Provide, Fetch, Publish, own, CallerInv, Stage
  <2>2. \/ call[c].at = "fetch" /\ call'[c].at \in {"publish", "idle"}
        \/ call[c].at = "publish" /\ call'[c].at = "idle"
    BY <1>0, <1>1 DEF Provide, Fetch, Publish, Returns, Idle
  <2>3. CallLeft(c)' < CallLeft(c)
    BY <2>2 DEF CallLeft
  <2> QED
    BY <2>1, <2>3, LeftTypes DEF DiscoveryLeft
<1>2. CASE AskProvider(c)
  <2>1. stage[c] = "ask" /\ stage'[c] = "asked"
    BY <1>0, <1>2 DEF AskProvider, GoesTo
  <2> QED
    BY <2>1, LeftTypes DEF DiscoveryLeft
<1>3. CASE ListRepos(c)
  <2>1. stage[c] = "asked" /\ stage'[c] \in {"probe", "profiles"} /\ call[c].at = "idle"
    BY <1>0, <1>3 DEF ListRepos, GoesTo
  <2> QED
    BY <2>1, LeftTypes DEF DiscoveryLeft
<1> QED
  BY <1>1, <1>2, <1>3

\* What becomes of one repository.
LEMMA RepoLowers ==
  ASSUME OnboardingInv, NEW c \in Caller, stage[c] # "idle", NEW r \in Repo,
         TakeRepo(c, r) \/ FetchMain(c, r) \/ FetchMaster(c, r) \/ SaveProfile(c, r)
  PROVE  DiscoveryLeft(c)' < DiscoveryLeft(c)
<1>0. Shape /\ CallerInv(c)
  BY DEF OnboardingInv
<1>1. UNCHANGED stage
  BY DEF TakeRepo, FetchMain, FetchMaster, SaveProfile
<1>2. stage[c] \in {"probe", "profiles"}
  BY <1>0 DEF CallerInv, In, TakeRepo, FetchMain, FetchMaster, SaveProfile
<1>3. PICK q \in Probe : Becomes(c, r, q) /\ Onward(probe[c][r], q)
  BY DEF TakeRepo, FetchMain, FetchMaster, SaveProfile, Onward, Probe
<1>4. ReposLeft(c)' < ReposLeft(c)
  BY <1>0, <1>3, OnwardLowers
<1> QED
  BY <1>1, <1>2, <1>4, LeftTypes DEF DiscoveryLeft

\* The ends of the pool, of the profiles and of the discovery.
LEMMA EndingLowers ==
  ASSUME OnboardingInv, NEW c \in Caller,
         ClosePool(c) \/ MergeProfiles(c) \/ RegisterFound(c)
  PROVE  DiscoveryLeft(c)' < DiscoveryLeft(c)
<1>0. c \in Lister /\ stage \in [Lister -> Stage]
  BY CallersList DEF OnboardingInv, Shape
<1>1. CASE ClosePool(c)
  <2>1. stage[c] = "probe" /\ stage'[c] = "profiles" /\ UNCHANGED probe
    BY <1>0, <1>1 DEF ClosePool, GoesTo
  <2>2. ReposLeft(c)' = ReposLeft(c)
    BY <2>1 DEF ReposLeft, In
  <2> QED
    BY <2>1, <2>2, LeftTypes DEF DiscoveryLeft
<1>2. CASE MergeProfiles(c)
  <2>1. stage[c] = "profiles" /\ stage'[c] = "register"
    BY <1>0, <1>2 DEF MergeProfiles, Lists, GoesTo
  <2> QED
    BY <2>1, LeftTypes DEF DiscoveryLeft
<1>3. CASE RegisterFound(c)
  <2>1. stage[c] = "register" /\ stage'[c] = "idle"
    BY <1>0, <1>3 DEF RegisterFound, GoesTo
  <2> QED
    BY <2>1 DEF DiscoveryLeft
<1> QED
  BY <1>1, <1>2, <1>3

\* The others: only a restart touches a discovery that is not theirs, and ends it.
LEMMA OthersLeaveIt ==
  ASSUME TypeOK, OnboardingInv, [OnboardingNext]_all, NEW c \in Caller, stage[c] # "idle",
         ~(Provide(c) \/ Discover(c))
  PROVE  DiscoveryLeft(c)' <= DiscoveryLeft(c)
<1>0. /\ Shape /\ c \in Lister /\ c # Boot /\ Caller \subseteq Lister
      /\ call \in [Caller -> [at : CallAt, tenant : Tenant, got : Version, known : Version]]
  BY CallersList DEF OnboardingInv, TypeOK
<1>1. ASSUME stage'[c] = stage[c], probe'[c] = probe[c], call'[c] = call[c]
      PROVE  DiscoveryLeft(c)' <= DiscoveryLeft(c)
  <2>1. ReposLeft(c)' = ReposLeft(c) /\ CallLeft(c)' = CallLeft(c)
    BY <1>1 DEF ReposLeft, In, CallLeft
  <2> QED
    BY <1>1, <2>1, LeftTypes DEF DiscoveryLeft
<1>2. CASE RestartAll
  <2>1. DiscoveryLeft(c)' = 0
    BY <1>0, <1>2 DEF RestartAll, DiscoveryLeft
  <2> QED
    BY <2>1, DiscoveryBounded DEF DiscoveriesBounded
<1>3. ASSUME NEW d \in Caller, d # c, Provide(d) \/ Discover(d)
      PROVE  DiscoveryLeft(c)' <= DiscoveryLeft(c)
  <2>1. CASE Provide(d)
    BY <1>0, <1>1, <1>3, <2>1 DEF Provide, Fetch, Publish, Returns, own
  <2>2. CASE AskProvider(d)
    BY <1>0, <1>1, <1>3, <2>2 DEF AskProvider, Lookup, Returns, GoesTo, Shape
  <2>3. CASE ListRepos(d)
    BY <1>0, <1>1, <1>3, <2>3 DEF ListRepos, GoesTo, Shape, vars
  <2>4. ASSUME NEW r \in Repo,
               TakeRepo(d, r) \/ FetchMain(d, r) \/ FetchMaster(d, r) \/ SaveProfile(d, r)
        PROVE  DiscoveryLeft(c)' <= DiscoveryLeft(c)
    <3>1. UNCHANGED <<vars, stage>> /\ \E q : Becomes(d, r, q)
      BY <2>4 DEF TakeRepo, FetchMain, FetchMaster, SaveProfile
    <3> QED
      BY <1>0, <1>1, <1>3, <3>1 DEF Becomes, Shape, vars
  <2>5. CASE ClosePool(d) \/ MergeProfiles(d) \/ RegisterFound(d)
    BY <1>0, <1>1, <1>3, <2>5
    DEF ClosePool, MergeProfiles, RegisterFound, Lists, GoesTo, Shape, vars
  <2> QED
    BY <1>3, <2>1, <2>2, <2>3, <2>4, <2>5 DEF Discover
<1>4. ASSUME NEW d \in Caller, NEW t \in Tenant, Lookup(d, t), Alone(d)
      PROVE  DiscoveryLeft(c)' <= DiscoveryLeft(c)
  BY <1>0, <1>1, <1>4 DEF Lookup, Returns, Alone, own
<1>5. ASSUME NEW d \in Caller, Configure(d)
      PROVE  DiscoveryLeft(c)' <= DiscoveryLeft(c)
  BY <1>0, <1>1, <1>5 DEF Configure, Invalidate, GoesTo, Shape
<1>6. CASE \/ \E d \in Caller : Expire(d)
           \/ \E r \in Repo : PostProfile(r) \/ RegisterPosted(r)
           \/ SaveToken(Newcomer) /\ UNCHANGED own
           \/ UNCHANGED all
  BY <1>1, <1>6 DEF Expire, PostProfile, RegisterPosted, SaveToken, own, all, vars
<1>7. CASE LoadAllProfiles \/ RegisterAtStart
  BY <1>0, <1>1, <1>7 DEF LoadAllProfiles, RegisterAtStart, Lists, GoesTo, Shape, vars
<1> QED
  BY <1>2, <1>3, <1>4, <1>5, <1>6, <1>7 DEF OnboardingNext

\* A discovery ends within four steps for each repository and seven more, whichever
\* calls fail, whenever its time is over and whatever the others do, and the
\* workers, the goroutine that waits for them and the reader of their results never
\* wait for each other (handlers.go:570-616): NeverStuck, said of the guards.
THEOREM DiscoveriesEnd ==
  OnboardingSpec => []DiscoveriesBounded /\ [][DiscoveriesWearOut]_all
<1>1. TypeOK /\ OnboardingInv => DiscoveriesBounded
  BY DiscoveryBounded
<1>2. TypeOK /\ OnboardingInv /\ [OnboardingNext]_all => DiscoveriesWearOut
  <2> SUFFICES ASSUME TypeOK, OnboardingInv, [OnboardingNext]_all,
                      NEW c \in Caller, stage[c] # "idle"
               PROVE  /\ DiscoveryLeft(c)' <= DiscoveryLeft(c)
                      /\ Provide(c) \/ Discover(c) => DiscoveryLeft(c)' < DiscoveryLeft(c)
    BY DEF DiscoveriesWearOut
  <2>1. ASSUME Provide(c) \/ Discover(c) PROVE DiscoveryLeft(c)' < DiscoveryLeft(c)
    BY <2>1, AskingLowers, RepoLowers, EndingLowers DEF Discover
  <2>2. DiscoveryLeft(c) \in Nat /\ DiscoveryLeft(c)' \in Nat
    BY LeftTypes DEF DiscoveryLeft
  <2> QED
    BY <2>1, <2>2, OthersLeaveIt
<1> QED
  BY Inductive, OnboardingUsesCache, TypeCorrect, <1>1, <1>2, PTL DEF OnboardingSpec

=============================================================================
