----------------------------- MODULE Onboarding -----------------------------
(***************************************************************************)
(* What follows when a tenant saves a GitHub token (OnGitHubConfigured and *)
(* runDiscovery, internal/http/handlers.go): the cached provider is        *)
(* evicted, and a goroutine of five minutes lists the repositories the     *)
(* token sees, asks each for a service definition, saves a profile for     *)
(* those that have one and registers them with the scanner, together with  *)
(* the profiles there were.  Several such goroutines, posted profiles and  *)
(* the start of the process write the same list.  The other tenants share  *)
(* the cache and have saved no token.  The policies that                   *)
(* runDiscovery saves at its end are in Policies, the scan it starts is in *)
(* Scanner.                                                                *)
(***************************************************************************)
EXTENDS TokenCache, FiniteSets

CONSTANTS
  Newcomer,     \* the tenant whose discoveries are followed
  Repo,
  Visible,      \* Visible[v]: the repositories that token v sees
  OnMain,       \* the repositories with a service definition on main ...
  OnMaster,     \* ... and on master
  MaxRepos,     \* maxRepos of ListAccessibleRepos
  Workers,      \* discoveryWorkers
  Boot          \* the goroutine that registers profiles at the start

ASSUME NewcomerAssumption == Newcomer \in Tenant
ASSUME VisibleAssumption  == Visible \in [Version -> SUBSET Repo] /\ Visible[0] = {}
ASSUME RepoAssumption     == IsFiniteSet(Repo)
ASSUME BranchAssumption   == OnMain \subseteq Repo /\ OnMaster \subseteq Repo
ASSUME LimitAssumption    == MaxRepos \in Nat /\ Workers \in Nat \ {0}
ASSUME BootAssumption     == Boot \notin Caller

VARIABLES
  stage,        \* stage[l]: where the discovery, or the start, is
  probe,        \* probe[c][r]: what the worker pool of c has done about r
  expired,      \* expired[c]: the five minutes of c are over
  failed,       \* failed[c]: a call of c has failed
  list,         \* list[l]: what l is about to register
  newer,        \* newer[l]: profiles not in list[l] that l did not read, as they were
                \*   saved since, or as it could read none
  profiles,     \* the GitOpsProfiles in the database
  registered    \* Scanner.repos of the tenant

own  == <<stage, probe, expired, failed, list, newer, profiles, registered>>
all  == <<vars, own>>

Lister == Caller \cup {Boot}
Stage  == {"idle", "ask", "asked", "probe", "profiles", "register"}
Probe  == {"none", "queued", "main", "master", "found", "missed", "saved"}

\* Every variable has its type, and no more workers are busy than there are.
OnboardingTypeOK ==
  /\ stage \in [Lister -> Stage]
  /\ probe \in [Caller -> [Repo -> Probe]]
  /\ expired \in [Caller -> BOOLEAN] /\ failed \in [Caller -> BOOLEAN]
  /\ list \in [Lister -> SUBSET Repo] /\ newer \in [Lister -> SUBSET Repo]
  /\ profiles \subseteq Repo /\ registered \subseteq Repo
  /\ \A c \in Caller : Cardinality({r \in Repo : probe[c][r] \in {"main", "master"}}) <= Workers

Untouched == [r \in Repo |-> "none"]

OnboardingInit ==
  /\ Init
  /\ stage = [l \in Lister |-> IF l = Boot THEN "profiles" ELSE "idle"]
  /\ probe = [c \in Caller |-> Untouched]
  /\ expired = [c \in Caller |-> FALSE] /\ failed = [c \in Caller |-> FALSE]
  /\ list = [l \in Lister |-> {}] /\ newer = [l \in Lister |-> {}]
  /\ profiles = {} /\ registered = {}

GoesTo(l, s) == stage' = [stage EXCEPT ![l] = s]

\* Callers that discover nothing are scans and activities.
Alone(c) == stage[c] = "idle" /\ UNCHANGED own

-----------------------------------------------------------------------------
(* OnGitHubConfigured, and the provider of its discovery.                  *)

\* Mutant: the discovery is started before the old provider is evicted.
ConfigureUnevicted(c) ==
  /\ stage[c] = "idle" /\ call[c].at = "idle"
  /\ InvalidateNothing(Newcomer)
  /\ GoesTo(c, "ask")
  /\ UNCHANGED <<probe, expired, failed, list, newer, profiles, registered>>

Configure(c) ==
  /\ stage[c] = "idle" /\ call[c].at = "idle"
  /\ Invalidate(Newcomer)
  /\ GoesTo(c, "ask")
  /\ UNCHANGED <<probe, expired, failed, list, newer, profiles, registered>>

AskProvider(c) ==
  /\ stage[c] = "ask"
  /\ Lookup(c, Newcomer)
  /\ GoesTo(c, "asked")
  /\ UNCHANGED <<probe, expired, failed, list, newer, profiles, registered>>

Fails(c) == failed' = [failed EXCEPT ![c] = TRUE]

\* Repositories are read page by page until there are MaxRepos of them; after an
\* error none are taken.  Without a provider of the tenant there are none either.
ListRepos(c) ==
  /\ stage[c] = "asked" /\ call[c].at = "idle"
  /\ \/ /\ ~expired[c] /\ answer[c].kind = "provider"
        /\ \E listed \in SUBSET Visible[answer[c].version] :
             /\ \/ listed = Visible[answer[c].version]
                \/ Cardinality(listed) = MaxRepos
             /\ probe' = [probe EXCEPT ![c] = [r \in Repo |-> IF r \in listed THEN "queued"
                                                              ELSE "none"]]
        /\ GoesTo(c, "probe")
        /\ UNCHANGED failed
     \/ Fails(c) /\ GoesTo(c, "profiles") /\ UNCHANGED probe
  /\ UNCHANGED <<vars, expired, list, newer, profiles, registered>>

-----------------------------------------------------------------------------
(* filterReposWithTitlisConfig: workers, a closed channel of work, a       *)
(* channel of results that holds them all.                                 *)

Becomes(c, r, p) == probe' = [probe EXCEPT ![c][r] = p]

In(c, states) == {r \in Repo : probe[c][r] \in states}

\* A worker takes a repository, unless the time is over: then it returns.
TakeRepo(c, r) ==
  /\ stage[c] = "probe"
  /\ ~expired[c]
  /\ probe[c][r] = "queued"
  /\ Cardinality(In(c, {"main", "master"})) < Workers
  /\ Becomes(c, r, "main")
  /\ UNCHANGED <<vars, stage, expired, failed, list, newer, profiles, registered>>

\* Mutant: a repository without a definition on main is not asked for master.
FetchMainOnly(c, r) ==
  /\ probe[c][r] = "main"
  /\ \/ ~expired[c] /\ r \in OnMain /\ Becomes(c, r, "found") /\ UNCHANGED failed
     \/ ~expired[c] /\ r \notin OnMain /\ Becomes(c, r, "missed") /\ UNCHANGED failed
     \/ Becomes(c, r, "master") /\ Fails(c)
  /\ UNCHANGED <<vars, stage, expired, list, newer, profiles, registered>>

\* Any error on main leads to master.
FetchMain(c, r) ==
  /\ probe[c][r] = "main"
  /\ \/ ~expired[c] /\ r \in OnMain /\ Becomes(c, r, "found") /\ UNCHANGED failed
     \/ ~expired[c] /\ r \notin OnMain /\ Becomes(c, r, "master") /\ UNCHANGED failed
     \/ Becomes(c, r, "master") /\ Fails(c)
  /\ UNCHANGED <<vars, stage, expired, list, newer, profiles, registered>>

FetchMaster(c, r) ==
  /\ probe[c][r] = "master"
  /\ \/ ~expired[c] /\ r \in OnMaster /\ Becomes(c, r, "found") /\ UNCHANGED failed
     \/ ~expired[c] /\ r \notin OnMaster /\ Becomes(c, r, "missed") /\ UNCHANGED failed
     \/ Becomes(c, r, "missed") /\ Fails(c)
  /\ UNCHANGED <<vars, stage, expired, list, newer, profiles, registered>>

\* Mutants: the workers drain the work when the time is over; the results are
\* closed once all work is taken, not once it is done.
ClosePoolDrained(c) ==
  /\ stage[c] = "probe"
  /\ In(c, {"main", "master", "queued"}) = {}
  /\ GoesTo(c, "profiles")
  /\ UNCHANGED <<vars, probe, expired, failed, list, newer, profiles, registered>>

ClosePoolEarly(c) ==
  /\ stage[c] = "probe"
  /\ In(c, {"queued"}) = {} \/ expired[c]
  /\ GoesTo(c, "profiles")
  /\ UNCHANGED <<vars, probe, expired, failed, list, newer, profiles, registered>>

\* Every worker has returned, and the results that are there have been read.
ClosePool(c) ==
  /\ stage[c] = "probe"
  /\ In(c, {"main", "master"}) = {}
  /\ In(c, {"queued"}) = {} \/ expired[c]
  /\ GoesTo(c, "profiles")
  /\ UNCHANGED <<vars, probe, expired, failed, list, newer, profiles, registered>>

-----------------------------------------------------------------------------
(* Profiles, and what is registered.                                       *)

\* Whoever has read the profiles by now does not know of this one.
Save(r) ==
  /\ profiles' = profiles \cup {r}
  /\ newer' = [l \in Lister |-> IF stage[l] = "register" THEN newer[l] \cup ({r} \ list[l])
                             ELSE newer[l]]

SaveProfile(c, r) ==
  /\ stage[c] = "profiles"
  /\ probe[c][r] = "found"
  /\ Becomes(c, r, "saved")
  /\ \/ ~expired[c] /\ Save(r) /\ UNCHANGED failed
     \/ Fails(c) /\ UNCHANGED <<profiles, newer>>
  /\ UNCHANGED <<vars, stage, expired, list, registered>>

Lists(l, repos, unknown) ==
  /\ list' = [list EXCEPT ![l] = repos]
  /\ newer' = [newer EXCEPT ![l] = unknown]
  /\ GoesTo(l, "register")

\* Mutant: the profiles there are are not merged.
MergeProfilesNever(c) ==
  /\ stage[c] = "profiles" /\ In(c, {"found"}) = {}
  /\ \/ ~expired[c] /\ Lists(c, In(c, {"saved"}), {}) /\ UNCHANGED failed
     \/ Fails(c) /\ Lists(c, In(c, {"saved"}), Repo \ In(c, {"saved"}))
  /\ UNCHANGED <<vars, probe, expired, profiles, registered>>

MergeProfiles(c) ==
  /\ stage[c] = "profiles" /\ In(c, {"found"}) = {}
  /\ \/ ~expired[c] /\ Lists(c, In(c, {"saved"}) \cup profiles, {}) /\ UNCHANGED failed
     \/ Fails(c) /\ Lists(c, In(c, {"saved"}), Repo \ In(c, {"saved"}))
  /\ UNCHANGED <<vars, probe, expired, profiles, registered>>

\* The rest of the discovery touches nothing here.
RegisterFound(c) ==
  /\ stage[c] = "register"
  /\ registered' = IF list[c] = {} THEN registered ELSE list[c]
  /\ GoesTo(c, "idle")
  /\ probe' = [probe EXCEPT ![c] = Untouched]
  /\ expired' = [expired EXCEPT ![c] = FALSE] /\ failed' = [failed EXCEPT ![c] = FALSE]
  /\ list' = [list EXCEPT ![c] = {}] /\ newer' = [newer EXCEPT ![c] = {}]
  /\ UNCHANGED <<vars, profiles>>

Expire(c) ==
  /\ stage[c] # "idle" /\ ~expired[c]
  /\ expired' = [expired EXCEPT ![c] = TRUE]
  /\ Fails(c)
  /\ UNCHANGED <<vars, stage, probe, list, newer, profiles, registered>>

\* UpsertGitOpsProfile, its two calls.  A request may end between them; and as one
\* may post a profile that is there already, which changes nothing, there may at
\* any time be a request that is about to register a profile that is there.
PostProfile(r) ==
  /\ Save(r)
  /\ UNCHANGED <<vars, stage, probe, expired, failed, list, registered>>

RegisterPosted(r) ==
  /\ r \in profiles
  /\ registered' = {r}
  /\ UNCHANGED <<vars, stage, probe, expired, failed, list, newer, profiles>>

-----------------------------------------------------------------------------
(* The start of the process.                                               *)

\* A tenant that has no policy, or profiles that cannot be read, are left out.
LoadAllProfiles ==
  /\ stage[Boot] = "profiles"
  /\ \/ profiles # {} /\ Lists(Boot, profiles, {})
     \/ GoesTo(Boot, "idle") /\ UNCHANGED <<list, newer>>
  /\ UNCHANGED <<vars, probe, expired, failed, profiles, registered>>

RegisterAtStart ==
  /\ stage[Boot] = "register"
  /\ registered' = list[Boot]
  /\ GoesTo(Boot, "idle")
  /\ list' = [list EXCEPT ![Boot] = {}] /\ newer' = [newer EXCEPT ![Boot] = {}]
  /\ UNCHANGED <<vars, probe, expired, failed, profiles>>

RestartAll ==
  /\ Restart
  /\ stage' = [l \in Lister |-> IF l = Boot THEN "profiles" ELSE "idle"]
  /\ probe' = [c \in Caller |-> Untouched]
  /\ expired' = [c \in Caller |-> FALSE] /\ failed' = [c \in Caller |-> FALSE]
  /\ list' = [l \in Lister |-> {}] /\ newer' = [l \in Lister |-> {}]
  /\ registered' = {}
  /\ UNCHANGED profiles

-----------------------------------------------------------------------------
Provide(c) == (Fetch(c) \/ Publish(c)) /\ UNCHANGED own

Discover(c) ==
  \/ AskProvider(c) \/ ListRepos(c)
  \/ \E r \in Repo : TakeRepo(c, r) \/ FetchMain(c, r) \/ FetchMaster(c, r) \/ SaveProfile(c, r)
  \/ ClosePool(c) \/ MergeProfiles(c) \/ RegisterFound(c)

OnboardingNext ==
  \/ \E c \in Caller :
       \/ \E t \in Tenant : Lookup(c, t) /\ Alone(c)
       \/ Provide(c) \/ Configure(c) \/ Discover(c) \/ Expire(c)
  \/ SaveToken(Newcomer) /\ UNCHANGED own
  \/ \E r \in Repo : PostProfile(r) \/ RegisterPosted(r)
  \/ LoadAllProfiles \/ RegisterAtStart
  \/ RestartAll

OnboardingSpec == OnboardingInit /\ [][OnboardingNext]_all

-----------------------------------------------------------------------------
(* Properties.                                                             *)

\* A discovery in which no call failed registers every repository with a service
\* definition that the tenant's token sees, on whichever branch, whatever the
\* order in which workers finish (handlers.go:554-616): no result is lost.
NothingOverlooked ==
  \A c \in Caller :
    stage[c] = "register" /\ ~failed[c] /\ Cardinality(Visible[answer[c].version]) <= MaxRepos
      => Visible[answer[c].version] \cap (OnMain \cup OnMaster) \subseteq list[c]

\* Registering replaces the list (scanner.go:33): a repository with a profile drops
\* out of it when another is posted, at a restart, or by a list made without
\* looking, or before the profile was saved; never otherwise.
RegisteredKept ==
  [][\A r \in registered \cap profiles :
       r \notin registered' =>
         \/ (\E posted \in Repo : RegisterPosted(posted)) \/ RestartAll
         \/ \E l \in Lister : stage[l] = "register" /\ stage'[l] = "idle" /\ r \in newer[l]]_all

\* A discovery that has not ended can go on, whichever repositories failed and
\* whenever its time was over: the workers, the goroutine that waits for them
\* and the reader of their results never wait for each other (570-616).
NeverStuck == \A c \in Caller : stage[c] # "idle" => ENABLED (Provide(c) \/ Discover(c))
=============================================================================
