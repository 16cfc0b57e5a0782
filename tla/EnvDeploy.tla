----------------------------- MODULE EnvDeploy -----------------------------
(***************************************************************************)
(* EnvDeployWorkflow (internal/workflow/env_deploy.go) with the activities *)
(* it runs (internal/activity/activities.go): bring one recommendation to  *)
(* one manifest of one environment, as a pull request.                     *)
(*                                                                         *)
(* Temporal makes the workflow code survive crashes; what can go wrong is  *)
(* each activity.  An attempt of an activity                               *)
(*   - takes effect and its answer arrives, or                             *)
(*   - takes effect and its answer is lost (worker crash, the 2 minutes of *)
(*     StartToCloseTimeout), or                                            *)
(*   - fails without effect,                                               *)
(* and the last two are retried, up to MaxAttempts attempts in all.        *)
(*                                                                         *)
(* One deployment runs at a time under one workflow id, up to MaxRuns      *)
(* times (a campaign posted again, a promotion run again): a rerun finds   *)
(* the branch and the pull requests that earlier runs left.                *)
(***************************************************************************)
EXTENDS GitHub

CONSTANTS
  MaxAttempts,   \* RetryPolicy.MaximumAttempts (5 in the code)
  MaxRuns        \* bound on the executions of one deployment

ASSUME MaxAttemptsAssumption == MaxAttempts \in Nat \ {0}
ASSUME MaxRunsAssumption     == MaxRuns \in Nat

VARIABLES
  pc,        \* the activity the workflow of d is at, "idle" between runs
  attempt,   \* the attempt of that activity
  auto,      \* PolicyMode of the run: is it auto_merge?
  loc,       \* its local variables: the manifest fetched, the manifest to
             \*   commit, the pull request, the commit whose checks it asked
             \*   for, and what they were when it was told they had passed
  out,       \* EnvDeployResult of the last run
  told,      \* lifecycle events this run has sent to titlis-api
  runs       \* executions started

botVars == <<pc, attempt, auto, loc, out, told, runs>>
vars    == <<githubVars, botVars>>

Step == {"find", "fetch", "patch", "validate", "branch", "commit", "open",
         "adopt", "started", "wait", "poll", "merge", "completed"}

CheckNote == CIState \cup {""}
Locals    == [current : Content, patched : Content, pr : Nat, asked : Nat,
              checks : CheckNote]
Status    == {"none", "failed", "pr_open", "awaiting_human", "merged"}
Result    == [status : Status, pr : Nat]
Event     == {"started", "completed"}

NoLocals == [current |-> 0, patched |-> 0, pr |-> 0, asked |-> 0, checks |-> ""]
NoResult == [status |-> "none", pr |-> 0]

BotTypeOK ==
  /\ pc \in [Deploy -> Step \cup {"idle"}]
  /\ attempt \in [Deploy -> 1..MaxAttempts]
  /\ auto \in [Deploy -> BOOLEAN]
  /\ loc \in [Deploy -> Locals]
  /\ out \in [Deploy -> Result]
  /\ told \in [Deploy -> SUBSET Event]
  /\ runs \in [Deploy -> 0..MaxRuns]

\* Every variable has its type; no activity is attempted more than MaxAttempts
\* times (env_deploy.go:52).
TypeOK == GitHubTypeOK /\ BotTypeOK

Init ==
  /\ GitHubInit
  /\ pc = [d \in Deploy |-> "idle"]
  /\ attempt = [d \in Deploy |-> 1]
  /\ auto = [d \in Deploy |-> FALSE]
  /\ loc = [d \in Deploy |-> NoLocals]
  /\ out = [d \in Deploy |-> NoResult]
  /\ told = [d \in Deploy |-> {}]
  /\ runs = [d \in Deploy |-> 0]

-----------------------------------------------------------------------------
(* How an activity ends.                                                   *)

Goto(d, next) ==
  /\ pc' = [pc EXCEPT ![d] = next]
  /\ attempt' = [attempt EXCEPT ![d] = 1]
  /\ UNCHANGED <<auto, out, runs>>

Return(d, status, pr) ==
  /\ pc' = [pc EXCEPT ![d] = "idle"]
  /\ attempt' = [attempt EXCEPT ![d] = 1]
  /\ auto' = [auto EXCEPT ![d] = FALSE]
  /\ loc' = [loc EXCEPT ![d] = NoLocals]
  /\ out' = [out EXCEPT ![d] = [status |-> status, pr |-> pr]]
  /\ UNCHANGED runs

\* Mutants of Retry: without limit; without counting.
RetryWithoutLimit(d, again) ==
  /\ attempt' = [attempt EXCEPT ![d] = @ + 1]
  /\ pc' = [pc EXCEPT ![d] = again]
  /\ UNCHANGED <<auto, loc, out, runs>>

RetryUncounted(d, again) ==
  /\ pc' = [pc EXCEPT ![d] = again]
  /\ UNCHANGED <<attempt, auto, loc, out, runs>>

\* Another attempt, from the step that begins the activity.
Retry(d, again) ==
  /\ attempt[d] < MaxAttempts
  /\ attempt' = [attempt EXCEPT ![d] = @ + 1]
  /\ pc' = [pc EXCEPT ![d] = again]
  /\ UNCHANGED <<auto, loc, out, runs>>

LastAttempt(d) == attempt[d] = MaxAttempts

\* The attempt fails; an error of the last one ends the workflow.
Fails(d, again, status) ==
  \/ Retry(d, again)
  \/ LastAttempt(d) /\ Return(d, status, loc[d].pr)

-----------------------------------------------------------------------------
(* The workflow, activity by activity.                                     *)

Start(d) ==
  /\ pc[d] = "idle"
  /\ runs[d] < MaxRuns
  /\ runs' = [runs EXCEPT ![d] = @ + 1]
  /\ \E merging \in BOOLEAN : auto' = [auto EXCEPT ![d] = merging]
  /\ pc' = [pc EXCEPT ![d] = "find"]
  /\ out' = [out EXCEPT ![d] = NoResult]
  /\ told' = [told EXCEPT ![d] = {}]
  /\ UNCHANGED <<githubVars, attempt, loc>>

\* No open pull request is an error as well (ErrNotFound): it is retried, and
\* then any error counts as "none found".
FindOpenPR(d) ==
  /\ pc[d] = "find"
  /\ \/ \E n \in OpenPRs(d) : Return(d, "pr_open", n)
     \/ Retry(d, "find")
     \/ LastAttempt(d) /\ Goto(d, "fetch") /\ UNCHANGED loc
  /\ UNCHANGED <<githubVars, told>>

FetchManifest(d) ==
  /\ pc[d] = "fetch"
  /\ \/ /\ Goto(d, "patch")
        /\ loc' = [loc EXCEPT ![d].current = FetchFile(d)]
     \/ Fails(d, "fetch", "failed")
  /\ UNCHANGED <<githubVars, told>>

\* The content that the run was given (PrePatchedContent) is taken as it is, with
\* no activity; a recommendation is applied by ApplyHpaRecommendation, which
\* refuses an empty one and a manifest without HPA.
Patch(d) ==
  /\ pc[d] = "patch"
  /\ \E given \in BOOLEAN, level \in Content :
       \/ /\ given \/ (loc[d].current > 0 /\ level > 0)
          /\ Goto(d, "validate")
          /\ loc' = [loc EXCEPT ![d].patched = level]
       \/ ~given /\ Fails(d, "patch", "failed")
  /\ UNCHANGED <<githubVars, told>>

\* Mutant: the comparison with the current manifest dropped.
ValidateFloorOnly(current, new) == current > 0 /\ new > 0

ValidateNeverReduce(current, new) == current > 0 /\ new > 0 /\ new >= current

ValidatePatch(d) ==
  /\ pc[d] = "validate"
  /\ \/ /\ ValidateNeverReduce(loc[d].current, loc[d].patched)
        /\ Goto(d, "branch")
        /\ UNCHANGED loc
     \/ Fails(d, "validate", "failed")
  /\ UNCHANGED <<githubVars, told>>

\* A branch that exists already (ErrConflict) is as good as a new one.
CreateBranch(d) ==
  /\ pc[d] = "branch"
  /\ \/ CreateRef(d) \/ UNCHANGED githubVars
  /\ \/ branch'[d].exists /\ Goto(d, "commit") /\ UNCHANGED loc
     \/ Fails(d, "branch", "failed")
  /\ UNCHANGED told

\* Mutant: a manifest that the branch has a commit of already is left as it is.
CommitFileOnce(d) ==
  /\ pc[d] = "commit"
  /\ \/ /\ IF branch[d].content # branch[d].fork
             THEN UNCHANGED githubVars
             ELSE PutFile(d, loc[d].patched, << >>) /\ UNCHANGED meddled
        /\ \/ Goto(d, "open") /\ UNCHANGED loc
           \/ Fails(d, "commit", "failed")
     \/ UNCHANGED githubVars /\ Fails(d, "commit", "failed")
  /\ UNCHANGED told

CommitFile(d) ==
  /\ pc[d] = "commit"
  /\ \/ /\ PutFile(d, loc[d].patched, << >>)
        /\ UNCHANGED meddled
        /\ \/ Goto(d, "open") /\ UNCHANGED loc
           \/ Fails(d, "commit", "failed")
     \/ UNCHANGED githubVars /\ Fails(d, "commit", "failed")
  /\ UNCHANGED told

\* Where a run holds a pull request.
Holding == {"started", "wait", "poll", "merge", "completed"}

Holds(d, n) == Goto(d, "started") /\ loc' = [loc EXCEPT ![d].pr = n]

\* GitHub refuses a second open pull request for a branch (ErrConflict): the
\* activity goes on to look for the one there is, in the same attempt.
OpenPR(d) ==
  /\ pc[d] = "open"
  /\ \/ CreatePR(d) /\ (Holds(d, Len(prs[d]) + 1) \/ Fails(d, "open", "failed"))
     \/ /\ OpenPRs(d) # {} \/ ~branch[d].exists
        /\ pc' = [pc EXCEPT ![d] = "adopt"]
        /\ UNCHANGED <<githubVars, attempt, auto, loc, out, runs>>
     \/ UNCHANGED githubVars /\ Fails(d, "open", "failed")
  /\ UNCHANGED told

AdoptPR(d) ==
  /\ pc[d] = "adopt"
  /\ \/ \E n \in OpenPRs(d) : Holds(d, n)
     \/ Fails(d, "open", "failed")
  /\ UNCHANGED <<githubVars, told>>

Tell(d, event) == told' = [told EXCEPT ![d] = @ \cup {event}]

\* An event may be sent and its attempt fail all the same; an event that no
\* attempt could send is given up without a trace.
Notify(d, event, here, Then) ==
  /\ pc[d] = here
  /\ \/ Tell(d, event) /\ Then
     \/ (Tell(d, event) \/ UNCHANGED told) /\ Retry(d, here)
     \/ UNCHANGED told /\ LastAttempt(d) /\ Then
  /\ UNCHANGED githubVars

\* Mutants: a run that is not to merge goes on; the wrong event is sent.
NotifyStartedBold(d) ==
  Notify(d, "started", "started", Goto(d, "wait") /\ UNCHANGED loc)

NotifyStartedWrongly(d) ==
  Notify(d, "completed", "started",
         IF auto[d] THEN Goto(d, "wait") /\ UNCHANGED loc
                    ELSE Return(d, "pr_open", loc[d].pr))

NotifyStarted(d) ==
  Notify(d, "started", "started",
         IF auto[d] THEN Goto(d, "wait") /\ UNCHANGED loc
                    ELSE Return(d, "pr_open", loc[d].pr))

\* An attempt of WaitChecks reads the head of the pull request once ...
WaitChecks(d) ==
  /\ pc[d] = "wait"
  /\ \/ /\ pc' = [pc EXCEPT ![d] = "poll"]
        /\ loc' = [loc EXCEPT ![d].asked = HeadSHA(d)]
        /\ UNCHANGED <<attempt, auto, out, runs>>
     \/ Fails(d, "wait", "awaiting_human")
  /\ UNCHANGED <<githubVars, told>>

\* What is reported as a success: a commit that has no check runs, and one that
\* has nothing pending or failed on the first page of them.
Passes(state) == state \in {"none", "success", "beyond"}

\* ... and then polls the check runs of that commit until they are completed.
PollChecks(d) ==
  LET state == ci[d][loc[d].asked]
  IN  /\ pc[d] = "poll"
      /\ \/ /\ Passes(state)
            /\ Goto(d, "merge")
            /\ loc' = [loc EXCEPT ![d].checks = state]
         \/ state = "failure" /\ Return(d, "awaiting_human", loc[d].pr)
         \/ Fails(d, "wait", "awaiting_human")
      /\ UNCHANGED <<githubVars, told>>

\* Mutant: an error is reported as a merge.
MergePRReportingMerged(d) ==
  /\ pc[d] = "merge"
  /\ Merge(d, loc[d].pr) \/ UNCHANGED githubVars
  /\ \/ Goto(d, "completed") /\ UNCHANGED loc
     \/ Fails(d, "merge", "merged")
  /\ UNCHANGED told

\* After a merge whose answer was lost the next attempt is refused.
MergePR(d) ==
  /\ pc[d] = "merge"
  /\ \/ /\ Merge(d, loc[d].pr)
        /\ \/ Goto(d, "completed") /\ UNCHANGED loc
           \/ Fails(d, "merge", "awaiting_human")
     \/ UNCHANGED githubVars /\ Fails(d, "merge", "awaiting_human")
  /\ UNCHANGED told

NotifyCompleted(d) ==
  Notify(d, "completed", "completed", Return(d, "merged", loc[d].pr))

BotStep(d) ==
  \/ FindOpenPR(d)    \/ FetchManifest(d) \/ Patch(d)
  \/ ValidatePatch(d) \/ CreateBranch(d)  \/ CommitFile(d)
  \/ OpenPR(d)        \/ AdoptPR(d)       \/ NotifyStarted(d)
  \/ WaitChecks(d)    \/ PollChecks(d)    \/ MergePR(d)
  \/ NotifyCompleted(d)

\* CI works on every commit, at any time.  A run reads check runs in these two steps
\* alone, by when they may be anything, and elsewhere they are left as they are.
CI == \E d \in Deploy : \E s \in {HeadSHA(d), loc[d].asked} \cap DOMAIN ci[d] :
        /\ pc[d] \in {"wait", "poll"}
        /\ CIRegister(d, s) \/ CIFinish(d, s)

Next ==
  \/ \E d \in Deploy : Start(d) \/ BotStep(d)
  \/ (People \/ CI) /\ UNCHANGED botVars

Spec == Init /\ [][Next]_vars

\* Temporal hands every pending activity to a worker again and again, and each
\* attempt ends within its StartToCloseTimeout.
FairSpec == Spec /\ \A d \in Deploy : WF_vars(BotStep(d))

-----------------------------------------------------------------------------
(* Properties.                                                             *)

Latest(d) == IF prs[d] = << >> THEN "absent" ELSE prs[d][Len(prs[d])]

\* What a run reports is true and stays true until the next run: a merged
\* deployment has its latest pull request merged, any status that names a pull
\* request names the latest one, and a failure names none (EnvDeployResult, the
\* returns of env_deploy.go:78-202).  Hazards: lost answers, retried OpenPR,
\* pull requests of earlier runs, people closing them meanwhile.
ReportTruth ==
  \A d \in Deploy :
    LET r == out[d]
    IN  /\ r.status = "merged" => Latest(d) = "merged"
        /\ r.status \in {"pr_open", "awaiting_human", "merged"} =>
             Latest(d) # "absent" /\ r.pr = Len(prs[d])
        /\ r.status \in {"none", "failed"} => r.pr = 0

\* titlis-api hears of a completed remediation only when the pull request it
\* was told about is merged (env_deploy.go:184-200), whatever answers are lost.
ToldTruth ==
  \A d \in Deploy :
    /\ "completed" \in told[d] => "merged" = Latest(d)
    /\ "started" \in told[d] => Latest(d) # "absent"

BotMerges(d) == pc[d] = "merge" /\ prs'[d] # prs[d]
                  /\ <<pc, attempt>>' # <<pc, attempt>>

\* The bot merges only for a run that is to merge, only after an answer that the
\* checks had passed of a commit that was the head during this run, and, unless
\* somebody pushed on top of the bot's commit, exactly the manifest that this run
\* validated (env_deploy.go:104-192, client.go:302-351): whatever was retried, and
\* whatever branch an earlier run or a lost answer left.  It is no promise that
\* the checks of what is merged pass: the client answers from one page of check
\* runs, takes none for a success, asks about the head of some time before, and
\* sends no sha with the merge.
MergesAsAnswered ==
  [][\A d \in Deploy : BotMerges(d) =>
        /\ auto[d]
        /\ loc[d].asked \in DOMAIN ci[d]
        /\ loc[d].checks \in {"none", "success", "beyond"}
        /\ HeadSHA(d) = 1 => branch[d].content = loc[d].patched]_vars

\* Nothing lowers the HPA of a manifest that one deployment works on
\* (patch/validate.go:16), over any number of runs, retries and reviews, as long
\* as nobody meddles.  The validation is against the manifest read at the
\* beginning of a run (env_deploy.go:87-110), so another deployment of the same
\* manifest, or an edit between that and the branch, may be undone.
OneDeployment(f) == \A d, e \in Deploy : FileOf[d] = f /\ FileOf[e] = f => d = e

NeverReduced ==
  [][meddled' = 0 => \A f \in File : OneDeployment(f) => base'[f] >= base[f]]_base

\* Every run comes to an end, whatever fails (env_deploy.go:45-55).
Terminates == \A d \in Deploy : pc[d] # "idle" ~> pc[d] = "idle"

-----------------------------------------------------------------------------
(* Why reports are true: the pull request a run holds is the latest of its  *)
(* branch from the step that opens or adopts it to the end of the run,      *)
(* because nobody else opens one; only the latest can be open; and nothing  *)
(* is reported or told before the fact.                                     *)

Held(d) ==
  /\ OpenPRs(d) \subseteq {Len(prs[d])}
  /\ IF pc[d] \in Holding THEN Latest(d) # "absent" /\ loc[d].pr = Len(prs[d])
                          ELSE loc[d].pr = 0
  /\ pc[d] = "completed" => Latest(d) = "merged"

Reported(d) ==
  LET r == out[d]
  IN  /\ r.status = "merged" => Latest(d) = "merged"
      /\ r.status \in {"pr_open", "awaiting_human", "merged"} =>
           Latest(d) # "absent" /\ r.pr = Len(prs[d])
      /\ r.status \in {"none", "failed"} => r.pr = 0
      /\ pc[d] # "idle" => r = NoResult

Told(d) ==
  /\ "started" \in told[d] => Latest(d) # "absent"
  /\ "completed" \in told[d] =>
       Latest(d) = "merged" /\ pc[d] \in {"completed", "idle"}

Sound(d) == Held(d) /\ Reported(d) /\ Told(d)

ReportInv == TypeOK /\ \A d \in Deploy : Sound(d)

-----------------------------------------------------------------------------
(* The contract a run keeps with its callers.                              *)

Contract == INSTANCE PRContract WITH
  latest  <- [d \in Deploy |-> Latest(d)],
  running <- [d \in Deploy |-> pc[d] # "idle"],
  auto    <- auto,
  verdict <- [d \in Deploy |-> out[d].status]

\* Every step of a run, of people and of CI is a step the contract allows.
KeepsContract == Contract!ContractSpec
=============================================================================
