# titlis-prbot in TLA+

titlis-prbot brings resource recommendations and compliance fixes to the
manifests of workloads, as pull requests: it finds what is to be fixed, patches
the manifest of each environment, opens a pull request and, where the policy
allows, merges it. Temporal runs its workflows, so that workflow code survives
crashes; what can go wrong is the activities, the other services, the people
who work on the same repositories, and the state the service keeps in memory.

This directory holds TLA+ models of its components, the TLC runs that check
them on small instances and the theorems TLAPS proves about them. Source paths
below are relative to `internal/`.

## The system

| component | state | operations | hard parts |
|---|---|---|---|
| environment deployment, `workflow/env_deploy.go`, `activity/` | branch, pull requests, local variables of a run | find, fetch, patch, validate, branch, commit, open, notify, wait, merge | lost answers, retries, reruns, people |
| promotion, `workflow/promotion.go` | results per environment, final status | start children in parallel, collect, aggregate | order of children, refused children, prd |
| campaign and items, `workflow/campaign.go`, `item.go` | counters, statuses by name | process items in turn, cancel, report | cancel in another coroutine, partial failure |
| drift discovery, `workflow/discover.go` | groups by repository, items counted | resolve, group, start campaigns within a cap | child ids, map order, cap |
| comprehensive remediation, `workflow/discover_comprehensive.go`, `comprehensive_item.go` | items launched, events | announce, launch abandoned children, each item by itself | lost events, early errors |
| patch and validation, `patch/` | none | apply a recommendation, validate the result | several HPAs, malformed documents |
| provider cache, `gitprovider/pertenant.go` | a provider per tenant | ForTenant, Invalidate | fetch outside of the lock |
| hosting service client, `gitprovider/github/` | none of its own | branches, commits, pull requests, checks | the service moves by itself |
| onboarding, `http/handlers.go`, `cmd/prbot/main.go` | profiles, the list registered, a worker pool | configure, list, probe, save profiles, register | several discoveries and a deadline, lists that replace each other, channels |
| scanner, `scanner/` | repositories registered per tenant, mappings | register, scan, parse | overlapping scans, definitions of several ages |
| policies and schedules, `repo/`, `temporal/schedule.go`, `http/handlers.go` | policies in the database, schedules in Temporal | save, default, synchronise | check and act, database and Temporal, two implementations of the repository |
| HTTP API, starters, worker, clients, configuration, logging | little | hand over to the above | – |

A schedule fires a discovery; a discovery starts campaigns or items; an item
resolves the mapping that the scanner has stored and starts a promotion; a
promotion starts one deployment per environment; a deployment works on the
repository through the provider of the tenant, which the cache keeps. Saving a
GitHub token invalidates the cached provider, discovers repositories, registers
them with the scanner, saves a default policy and creates schedules. People use
the HTTP API, and review, edit, push and delete on the hosting service.

What makes each component correct:

- deployment: what it reports and tells is true in spite of lost answers; it
  never reduces an HPA; it merges only what it was asked to, after an answer that
  its checks had passed; it ends.
- promotion: prd is left to people unless a person triggered it; the cascade
  bounds the environments; the final status is the worst outcome.
- campaign: every item is counted once; cancelling is prompt; it closes.
- discovery: no finding is lost, the cap holds and is used up, what is announced
  is launched.
- comprehensive run: what is announced is launched; a disabled policy never
  merges; silence about an item means an error before its promotion or a lost
  event.
- patching: only HPAs change, nothing is reduced, a repetition is harmless.
- cache: no tenant gets another's token, a revoked token does not stay.
- onboarding: every repository with a definition is registered, once it is
  registered it stays, and no discovery gets stuck.
- scanner: scans leave mappings to what there is now, which do not go back;
  deployments go to the branch
  that the definition means.
- policies: schedules follow policies; people's policies are not overruled; the
  database answers as the map of local development does.

`PROJECT.json` lists the hazards at their lines with the properties for each.

## The modules

`GitHub` is the hosting service as the provider client sees it: base branches,
one head branch per deployment, its pull requests and check runs. It is
external; its actions are the client's calls when the service accepts them,
plus people and CI. Merging is a three-way merge of one value. The check runs of
a commit are kept as far as `WaitChecks` tells them apart: none registered yet or
ever, some on the first page not completed, all on it completed and one of them
failed, all on it good, and `beyond`: all on it good while one on a later page is
pending or has failed, which the client takes for a success. A commit may be run
again at any time, and is registered anew.

`EnvDeploy` extends it with `EnvDeployWorkflow`. One action per activity; an
attempt takes effect and is answered, takes effect and its answer is lost, or
fails. `Retry` counts attempts up to `MaxAttempts`, and `Fails` ends the run at
the last one, the way the workflow treats that activity's error. `OpenPR` and
`AdoptPR`, and `WaitChecks` and `PollChecks`, are two steps of one attempt,
because the service may move between the two requests. A manifest is the level
of its HPA. That this is enough of it rests on `Patching`: where a manifest has
one HPA, validation accepts only what does not lower it.

`PRContract` is what a deployment promises: a pull request is opened only when
none is open, `merged` is said only of merged ones and only if a merge was asked
for. `EnvDeploy!KeepsContract` states that `EnvDeploy` implements it, with
`latest`, `running`, `auto` and `verdict` as functions of its state.

`Promotion` extends `PRContract`: its children are three such deployments. A
child is `waiting`, `running`, `sent` (its result is on the channel) or
`received`.

`Campaign` is `CampaignWorkflow` with the `ItemWorkflow` it runs at the time.
Each action is one workflow task; `NextItem` is the loop head, which sees the
value of the flag from before the task, while the coroutine that waits for the
signal sets it at the end of the task.

`Discovery` is `DiscoverDriftWorkflow`, with the rule that a second child under
the same id is refused. `LaunchedTruth` relates what it counts, what it cuts off
groups and the one campaign that runs to the findings that are mapped.

`Comprehensive` is `DiscoverComprehensiveWorkflow` and its items, which run
concurrently with it and with each other. `reason` remembers at which step the
result of an item was decided, so that `HeardOrFailed` can tell a failure before
the promotion, of which nobody is told, from a promotion that failed.

`Patching` is `patch/apply.go` and `patch/validate.go` over sequences of YAML
documents, each with kind, shape of its spec, replica bounds and CPU metric, and
the use `EnvDeployWorkflow` makes of the two.

`TokenCache` is `PerTenantFactory`: `Lookup`, `Fetch` and `Publish` are the
parts of `ForTenant` between which the lock is free. `known` and `noticed`
remember what had been announced when a call began, `raced` whether an
`Invalidate` met a fill under way.

`Onboarding` extends it with what follows when a tenant saves a token
(`OnGitHubConfigured`, `runDiscovery` up to the registration,
`filterReposWithTitlisConfig`), with posted profiles and with the start of the
process. A discovery asks the cache for a provider, lists what its token sees,
and lets a pool of workers ask each repository for a definition, on `main` and
then on `master`; `probe[c]` is at once the channel of work, the workers and the
channel of results, which has room for all and is closed when every worker has
returned (`ClosePool`). `Expire` may come at any step: what is asked of another
service afterwards fails, what is only in memory goes on. `newer[l]` remembers
the profiles that whoever is about to register a list has not seen.

`ServiceDefinition` is the way of a definition from YAML to the branches that
are deployed to: the two forms of a path, what the parser refuses and fills in,
and which paths a campaign item goes by. It has no state; `Means` is its
reference, the branch written closest to an environment.

`Scanner` extends it with the list of registered repositories and two scans,
each between its fetch and its save. Any list may be registered at any time,
which covers whatever `Onboarding` registers. A version of a definition declares
its workload by name, as the code reads it from each version anew
(`scanner/scanner.go:85-87`): the next version may rename it, two repositories may
declare the same, and nothing removes a mapping. `clean[s]` remembers the
repositories a scan began with as long as nothing disturbs it. Mappings of
version 0 are rows saved before paths had branches (`model/types.go:137-138`).

`PolicyMap` is `MemoryPolicies`, a map from rule and environment to a mode, the
plainest account of what a repository of policies promises. `PolicyTable` is
`PGPolicies`: rows with NULL for "all environments", the order and the conflict
target of the SQL. `Entries` reads the table as a map, and `SavesAsMap` states
that the one implements the other; `AnswersAsMap` that reads agree too.

`Policies` extends `PolicyTable` with the schedules of the tenant: requests, the
end of `runDiscovery` and `syncStartupSchedules`, each in the steps between
database and Temporal.

The `MC*` modules give the constants their values. Definitions whose comment
starts with "Mutant" are plausible mistakes in the code: substituted for the
definition they vary, each makes a property of a run fail, which shows that the
run can see such a mistake.

## The runs

Every run disables the check for deadlock, because the instances really stop:
their bounds on executions, saves or commits are used up, or the workflow has
closed.

| run | instance | shows |
|---|---|---|
| `deploy` | one deployment, levels 0..2, 2 attempts, 2 runs, one act of meddling; fair | reports and events true, no reduction, merges of what was validated and answered for, refinement of the contract, runs end |
| `promotion` | three environments, two promotions of 12 kinds; fair | prd, cascade, final status, concluding |
| `campaign` | lists of 1 to 3 items, one with a name twice; 2 executions; fair | accounting, cancelling, closing |
| `patch` | manifests of up to 3 of 9 documents, 16 recommendations | single HPA, only HPAs, idempotence |
| `tokens` | 2 callers, 2 tokens of one tenant (the second sees a repository more, defined on `master`), another tenant without a token, 2 repositories, one worker per pool | staleness only by race, own tokens, nothing overlooked, no discovery stuck, registered repositories kept |
| `discovery` | 4 workloads, 2 repositories, caps 1 to 3, 2 runs; fair | cap on items, announced as launched, grouping, ending |
| `comprehensive` | 2 workloads, caps 1 and 3; fair | announcements, events, disabled mode, ending |
| `policies` | 2 requests at a time, 3 saves, one environment and all | schedules kept, window of the default, table as a map |
| `scanner` | 2 repositories, 2 scans, 2 workloads, 3 versions, one of which renames, one breaks, one old mapping; fair | mappings current, branches as meant, going back only by overlap, ending |

Two attempts are enough to have one that is lost and retried and one that is
the last. Two runs are enough for a rerun on what a run has left. Three levels
are no HPA, a lower and a higher one, which is what validation tells apart. Two
promotions show a scheduled one after one by hand, which might have left
something. Caps lie on both sides of the number of findings. Two scans and two
callers are the smallest overlap; the third of each adds only overlaps of pairs.

One worker and two repositories are enough for a queue with something left in
it when the time is over, and two discoveries for lists that overtake each other;
more workers add only orders that the pool's results, a set, do not show. One
environment besides "all of them" is enough for each of the four places where a
policy is looked for.

`tokens` uses symmetry of callers, `policies` of requests, which is sound as no
liveness is checked there. In `tokens`, what a caller was answered is left out of
the view unless it is in a discovery, as nothing reads it then.

A module's `TypeOK` that no run checks is there for the proofs to start from:
of the others the runs check it in `deploy` and `discovery`.

### Where the code does not do what it says

Three runs each check one sentence of a comment, and TLC finds it violated:

| run | sentence | what happens |
|---|---|---|
| `patch_reduced` | `patch/validate.go:16-17`, never reduces replicas or target CPU | the CPU target is compared with a floor only; of several HPAs all are patched and the first is compared |
| `tokens_fresh` | `gitprovider/pertenant.go:60-61`, fresh token on the next call | a fill that fetched before `Invalidate` publishes after it |
| `discovery_groups` | `workflow/discover.go:24-26`, a campaign per group | all groups get one workflow id, the second start is refused unseen |

Other things met while modelling, which no run checks:

- Two deployments of one manifest: the second may have been validated before
  the first was merged, make its branch after it, and undo it. `NeverReduced` is
  stated for manifests of one deployment for that reason.
- `workflow/discover.go:110` counts items against `max_prs_per_day`; an item
  opens a pull request in every environment of its cascade.
- `SyncPolicies` (`temporal/schedule.go:84-104`) has no caller: schedules are
  neither deleted when a policy is disabled nor expanded from the global one.
- `RegisterTenantRepos` replaces the tenant's list, so that a posted profile
  (`http/handlers.go:397`) may be gone before the next scan, and hides the rest
  of the list; `RegisteredKept` names the cases.
- A discovery whose five minutes are over registers the repositories it found so
  far as the whole list, without the profiles there were
  (`http/handlers.go:482-498`).
- `MatchesWorkload` is called and its answer not used (`activity/activities.go:60`):
  a mapping is found by the very name the definition declares, so that
  `name_pattern` and `namespaces` have no effect.
- Paths given as plain strings, and mappings from before branches, reach a
  deployment without a base branch; the client then reads the default branch of
  the repository and cannot create one (`gitprovider/github/client.go:176-205`).
- A definition on `master` only makes a repository one to scan, and the scan looks
  at `main` only (`scanner/scanner.go:74`).
- Only the first page of check runs is read (`gitprovider/github/client.go:321`), a
  commit without any passes (325), and the merge sends no sha (296): the bot merges
  commits whose checks are pending, have failed or were never looked at.
  `MergesAsAnswered` therefore says what it does merge: what this run validated,
  unless somebody pushed on top, after an answer that a commit of the branch had
  passed.
- A list that names a deployment twice collapses its statuses and child ids into
  one (`workflow/campaign.go:81-87`); the counters still count both, and
  `ItemsAgree` is stated for distinct names.
- A workload that is renamed, or whose definition is deleted or broken, keeps its
  last mapping (`scanner/scanner.go:74-97`); `MappingsCurrent` is about what is
  declared now. Of two repositories that declare one name the last one scanned has it.
- A policy whose save took effect and was answered with an error gets no schedule,
  until it is saved again or the process starts (`http/handlers.go:284-290`).
- The fields `max_delta_pct` and `require_pr_checks_green` are stored and handed
  down and never read, and the modes `discovery_only` and `disabled` that reach
  a deployment open a pull request like `open_pr` (`workflow/env_deploy.go:167`).

## Fairness

- `EnvDeploy`, `Discovery`, `Comprehensive`, `Campaign`: weak fairness of a
  workflow's steps. Temporal hands a pending activity to a worker until an
  attempt ends, each attempt has a StartToCloseTimeout, and attempts are
  bounded (`workflow/env_deploy.go:45-66`). Success is never assumed: an attempt
  may fail for ever.
- `Promotion`: weak fairness of each coroutine and of receiving, as the SDK runs
  every runnable coroutine in a workflow task; and of a child's report, which is
  what `Terminates` shows of children.
- `Campaign`: in addition of the coroutine that receives the signal.
- `Scanner`: weak fairness of a scan's steps: every call has a context with a
  deadline and returns.

People, CI and restarts are never assumed to act.

## What is proved

For all values of the constants, with the assumptions the modules name
(`FileOf` is a function into `File`, bounds are natural numbers, `MaxAttempts`
and `MaxVersion` are positive, repositories and workloads are finite sets, and
the like):

| theorem | statement |
|---|---|
| `TypeCorrect` of every `*_proofs` module but `Discovery_proofs`, which has `CapKept` | `Spec => []TypeOK` |
| `EnvDeploy_proofs!ReportsAreTrue` | `Spec => []ReportTruth` |
| `EnvDeploy_proofs!EventsAreTrue` | `Spec => []ToldTruth` |
| `EnvDeploy_proofs!ContractKept` | `Spec => KeepsContract`, the refinement of `PRContract` |
| `EnvDeploy_proofs!MergesWhatWasAsked` | `Spec => MergesAsAnswered` |
| `EnvDeploy_proofs!NothingReduced` | `Spec => NeverReduced` |
| `Promotion_proofs!PrdByHandOnly` | `Spec => []PrdNeverAutoMerged` |
| `Promotion_proofs!FinalStatusTrue` | `Spec => []FinalTruth` |
| `Promotion_proofs!CascadeKept` | `Spec => []CascadeRespected` |
| `Promotion_proofs!UsesContract` | `Spec => ContractSpec`, the specification of `PRContract` |
| `Files_proofs!NeverReducedSingle` | `PatchSpec => []SingleNeverReduced` |
| `Files_proofs!OthersUntouched` | `PatchSpec => []OnlyHPAsTouched` |
| `Files_proofs!Settles` | `PatchSpec => []PatchSettles` |
| `Campaign_proofs!AccountsAreRight` | `Spec => []Accounting` |
| `Campaign_proofs!StatusesAgree` | `Spec => []ItemsAgree` |
| `Campaign_proofs!CancelsPromptly` | `Spec => []CancelPrompt` |
| `Campaign_proofs!AnnouncementsAreTrue` | `Spec => []CompletionTruth` |
| `Discovery_proofs!CapKept` | `Spec => []TypeOK`, which has the cap |
| `Discovery_proofs!AnnouncesWhatFits` | `Spec => []LaunchedTruth` |
| `Discovery_proofs!FindingsKept` | `Spec => []NothingForgotten` |
| `Comprehensive_proofs!AnnouncementKept` | `Spec => []AnnouncedTruth` |
| `Comprehensive_proofs!DisabledKept` | `Spec => []DisabledRespected` |
| `Comprehensive_proofs!ItemsHeard` | `Spec => []HeardOrFailed` |
| `Files_proofs!ScansBringUpToDate` | `Spec => []MappingsCurrent` |
| `Files_proofs!OnlyOverlapGoesBack` | `Spec => BackOnlyByOverlap` |
| `Files_proofs!DeploysAsMeant` | `Spec => []DeployedAsMeant` |
| `Policies_proofs!TableIsMap` | `Spec => SavesAsMap`, the refinement of `PolicyMap` |
| `Policies_proofs!AnswersAlike` | `Spec => []AnswersAsMap` |
| `Policies_proofs!ScheduleKept` | `Spec => []EnabledScheduled` |
| `Policies_proofs!DefaultYields` | `Spec => OverruledOnlyInWindow` |
| `Onboarding_proofs!OnlyTheRaceIsStale` | `Spec => []StaleOnlyByRace`, of the cache alone |
| `Onboarding_proofs!TokensAreOwn` | `Spec => []OwnToken`, of the cache alone |
| `Onboarding_proofs!OnboardingUsesCache` | `OnboardingSpec => Spec`, the specification of `TokenCache` |
| `Onboarding_proofs!CacheKeepsItsPromises` | `OnboardingSpec => [](StaleOnlyByRace /\ OwnToken)` |
| `Onboarding_proofs!DiscoveryOverlooksNothing` | `OnboardingSpec => []NothingOverlooked` |
| `Onboarding_proofs!ProfilesStayRegistered` | `OnboardingSpec => RegisteredKept` |
| `Onboarding_proofs!NoMoreWorkers` | `OnboardingSpec => []OnboardingTypeOK` |
| `EnvDeploy_proofs!RunsWearOut` | `Spec => []Bounded /\ [][WearsOut]_vars`: a run ends within `24 * MaxAttempts` steps of its own |
| `Promotion_proofs!PromotionsWearOut` | `Spec => []Bounded /\ [][WearsOut]_vars`: thirteen steps, and somebody can go on |
| `Campaign_proofs!CampaignsWearOut` | `Spec => []Bounded /\ [][WearsOut]_vars`: 4n + 2 steps for n items |
| `Discovery_proofs!RunsWearOut` | `Spec => []Bounded /\ [][WearsOut]_vars`: n + m + 5 steps for n workloads of m repositories |
| `Comprehensive_proofs!ItemsWearOut` | `Spec => [][WearsOut]_vars`: five steps an item, six the parent, no item launched twice |
| `Files_proofs!ScansEndAtLast` | `Spec => []ScansBounded /\ [][ScansWearOut]_vars`: 2n steps for n repositories |
| `Onboarding_proofs!DiscoveriesEnd` | `OnboardingSpec => []DiscoveriesBounded /\ [][DiscoveriesWearOut]_all`: 4n + 7 steps for n repositories, and the guards of one of them hold |

*Deployments: what they report.* `ReportTruth` says nothing of a run in progress,
so it is not inductive. `ReportInv` adds, for each deployment: only the latest pull
request can be open; from the step that opens or adopts one to the end of the run
the one held is the latest; a run that notifies completion has it merged; nothing
is reported while a run is under way, and `completed` is told only at its end. The
key is that no action opens a pull request for a branch but `OpenPR` of its own
deployment, and that merged and closed are final. Steps of other deployments,
people and CI keep `Sound(d)` by `KeepsSettled`; the deployment's own steps are
taken one by one. Any number of deployments may share files: reports do not
depend on contents.

*Deployments: the contract.* `ContractKept` takes each action in turn. A step of
a deployment moves the latest pull request of its own branch at most
(`LatestEffects`), so that it starts a run, opens, merges or reports as the
contract has it, or is not seen in it (`BotStepAllowed`); people and CI either
settle a pull request or are not seen (`PeopleAllowed`). `ReportInv` gives that
what is reported is true, `AutoInv` that a run only comes to merging when it was
asked to.

*Deployments: merges.* `Answered(d)`: from the commit on there is a commit whose
check runs are remembered, and if it is the only one, the bot's, the branch holds
the manifest that the run validated; the one a run asks about stays among them;
and a run that goes on to merge was told that they passed. That the branch holds
it rests on `CommitFile`, which writes the file whatever the branch of an earlier
run or of a lost answer holds. People who push add a commit and take none away.

*Deployments: nothing reduced.* `Raises(d)`, of a file that `d` works on alone
and nobody has meddled with: its branch holds no less than it forked from, nor is
the base below that; a run validates against the fork or better if the branch is
there, and against the base itself if not; what it is to commit is no less than
what it validated against. The merge of one value then takes the base or the
branch, and either is at least the base (`MergeRaises`).

*Promotions.* The three invariants need that a child that runs was started by the
promotion under way, as the variables of a run (`auto`, `verdict`) outlive it.
`ChildInv(e)` says so: a child runs between its start and its result only, merges
only if its mode is to merge, and its result is true (`Arrived`) whether it is on
its way, in the channel or received. `ConcludedInv`: a promotion concludes from
all of its results. `UsesContract` closes the composition: what a promotion does
with its children is behaviour of `PRContract`, and `ContractKept` is that a
deployment is no other.

*Patching.* The second section of `Files_proofs`. The invariant `Validated` says
that what is committed has passed `ValidateNeverReduce` against the manifest
fetched; `ReadsTheHPA` that in a manifest of one HPA this is the document
`extractHPA` reads. `Applied` says that, without given content, what is
committed is the recommendation applied to the manifest fetched. From there the
rest is about the operators: `PatchedFields`, what a patch writes, and
`PatchedTwice`, that it is idempotent on every document.

*Campaigns.* None of the invariants is inductive alone, so `CampaignInv` carries
them together with where the workflow is: `LoopInv` says that the loop is left
early for the signal only, `PromptInv` that nothing has started late while the
flag is not set, `ToldInv` that what is told is told at the end. All four ways
an item ends pass through `ItemDone`, and it through `NextItem`, so that two
lemmas serve all of them. `NamesInv` is for the statuses by name: the items still
to come have none, and a counter is the number of workloads whose status it
counts, which one item changes by one.

*Drift discovery.* `DriftInv`: nothing of an earlier run is left when findings are
listed (`Fresh`), a group holds workloads of its repository (`Grouped`), whoever has
been looked up is in a group or reported (`Sorted`), and a campaign has been begun
from one group only (`Staged`). For `LaunchedTruth`, `Counted` says at each turn of
the loop that what is counted is the smaller of the cap and the findings of the
groups taken (`AllTaken`), which is all of them when the loop ends for want of
groups, and the cap when it ends for want of room. `ShareFits`: what is taken of a
group fits what is left of the cap, which keeps `launched` in its type.

*Comprehensive runs.* `RunInv`: what is announced is the number that the loop
launches (`Counted`), as both apply the cap to the same list (`TotalFits`); a
disabled policy is passed by a run by hand only, whose items do not merge
(`Permitted`); and `ItemInv(w)`, what has become of an item against what titlis-api
was told of it.

*Scanner.* The first section of `Files_proofs`. `FindInv`: what a scan holds or
has saved declares the name it is saved under and is of a version that was on
the branch, or of before there were branches. `OvertakenInv`: a scan that holds
an older version than is saved has been overtaken, which only a save between its
fetch and its own save does. `CleanOf(s)`: of a scan that nothing has disturbed,
what it holds is what main has, and every repository it has visited is brought up
to date (`Brought`): the mapping of the workload it declares leads to what main
has of it, or of another that declares the same, or will once the scan has saved.
`ReadInv`: what is held or saved parses, unless it
is of before. Of a definition that parses, `ParseMeans` says that the branch
filled in for an environment is the one written closest to it, and
`ParsesDeploysAll` that no environment is left out.

*Policies.* The first section of `Policies_proofs` is about the table alone,
whatever saves into it. `RowsInv`: rows are rows, and no two have the same rule and
environment; the table is empty at first and an upsert removes what conflicts.
From it a key reads the mode of its one row (`EntryOfRow`) or "none"
(`EntryOfNone`), so that an upsert changes that key of the map and no other
(`UpsertMaps`). The four places where the map looks are the keys of the candidate
rows, in the order of `Place` (`BestIsFirst`), so that both answer alike
(`GetAgrees`). The second section shows that a step saves one policy or none
(`StepSaves`), which gives the refinement. `EnabledScheduled` is inductive by
itself: a save leaves its rule pending, or in `missed` if its answer is lost, and a
restart puts what was pending there. For the default, `DefaultInv`: while one is on its way nothing is there
to replace, or `crossed` is set; a save under any other key leaves the candidates of
the global policy alone (`OtherKeysApart`).

*Cache.* The first section of `Onboarding_proofs` is about the cache alone.
`CacheInv` adds to types that a fill, a cached and a fetched token are never newer
than the token saved, that no announcement is either, and that a fill older than the
announcement of its tenant has been noticed as a race.

*Onboarding.* Every step of the composition is a step of the cache or leaves it
alone, so the cache's theorems hold in it. For the discoveries, `Owed` are
the repositories that have to be registered unless a call fails, and `CallerInv`
says where each of them can be, stage by stage: queued or with a worker, then
found, saved, and in the list. As the list of repositories is cut at `MaxRepos`,
nothing is owed of a longer one. `ListInv`: when a list is about to be
registered, the profiles it lacks are ones saved since it was made.

*What ends.* That something ends needs fairness, which is out of the prover's
reach; that it cannot go on for ever does not. The theorems named `...WearOut`,
`ScansEndAtLast` and `DiscoveriesEnd` give each liveness property its measure: a
natural number that bounds the steps to go, is zero when nothing is left to do,
falls with every step of its own, and that no other actor ever raises:
not people who push, CI, other deployments or scans, a lost answer, a signal or a
restart. With it, weak fairness of the steps is all that is missing, and the
runs check what follows.

| checked by TLC | measure, proved | counts |
|---|---|---|
| `Terminates` | `WorkLeft(d)` | activities to come times attempts, attempts left, the second half of an attempt in two steps |
| `Concludes` | `WorkLeft` | of each coroutine: its child, the child's end, the result on the channel and off it |
| `Closes` | `StepsLeft` | items to come, the step the item is at |
| `Ends` | `WorkLeft` | findings to look up, groups to launch, stages to come |
| `ItemsEnd` | `ItemLeft`, `ParentLeft` | steps to come |
| `ScansEnd` | `ScanLeft(s)` | repositories to scan, the one in hand |
| `NeverStuck` | `DiscoveryLeft(c)` | stages, the call for the provider, for each repository its way through the pool |

A bound on steps does not exclude being stuck. In `Promotion` and `Onboarding`
parts wait for each other, so there `Bounded` and `DiscoveriesBounded` also say that the guards of some step hold
(`CanGoOn`): of a coroutine, its child, the end of the child (which may always
report a failure) or the workflow; of a worker, the goroutine that waits for the
workers or the discovery. The latter is `NeverStuck` with the guards
written out where it says ENABLED. In `Discovery`, `ShareThere` shows that a
group left to launch always has a share that fits, so that the loop does not
wait for a choice that is not there.

Only model-checked: `NeverStuck` as it stands, because it says ENABLED, and the
liveness properties above as they stand, both out of the prover's reach; and the
three sentences of comments that TLC refutes. Every other property of the runs is
stated by a theorem above.

## Abstractions and what is left out

- A manifest is one number in `GitHub` and `EnvDeploy`. Contents that differ in
  something else than their HPA are not told apart.
- A deployment runs once at a time: its workflow id is made of its campaign,
  workload and environment. Two deployments of one file stand for two campaigns.
- Every answer of titlis-api, insights and titlis-ai is any answer.
- `Discovery` and `Comprehensive` start runs of fixed findings; two days'
  runs on common workloads are not combined with the pull requests they left.
- `Onboarding` follows the discoveries of one tenant; the other tenants share its
  cache. The profiles' columns are left out: a discovery overwrites layout, base
  branch and paths of a posted profile (`http/handlers.go:466`), and nothing
  reads them but the API.
- `Policies` and `PolicyTable` keep a policy's mode; its other columns go the same
  way. `SyncPolicies`, `DeleteSchedule` and `TriggerNow` have no caller.
- Not modelled: webhook parsing, authentication, the wire format of events,
  YAML text, the rest of SQL, configuration, logging, the in-memory starter of
  local development, the Kubernetes manifests.

## Plan

In order; the modules above are the first seven steps.

1. Deployment and its contract (`GitHub`, `EnvDeploy`, `PRContract`), then
   patching, as they carry the promise not to reduce anything. Done, all safety
   properties proved.
2. Promotion over the contract. Done and proved.
3. Campaigns. Done and proved.
4. The cache, and the onboarding that uses it. Done and proved; `NeverStuck` with its guards in
   the place of ENABLED.
5. Discovery, comprehensive runs, policies, scanner. Done and proved.
6. The proof that `EnvDeploy` implements `PRContract`, and of `NeverReduced`. Done.
7. Measures for all that has to end. Done and proved.
8. Left: compositions, that is, campaigns of several tenants under one idempotency key
   (`http/handlers.go:147`); daily runs and the pull requests earlier days have
   left (`workflow/discover_comprehensive.go:87`); promotions of two campaigns
   over shared files.
