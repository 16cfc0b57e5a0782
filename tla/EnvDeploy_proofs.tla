-------------------------- MODULE EnvDeploy_proofs --------------------------
(***************************************************************************)
(* Proofs about EnvDeploy, for any number of deployments, files, levels,   *)
(* attempts, runs and amount of meddling.                                  *)
(***************************************************************************)
EXTENDS EnvDeploy, TLAPS

-----------------------------------------------------------------------------
(* Type correctness.                                                       *)

LEMMA EmptyTypes == NoLocals \in Locals /\ NoResult \in Result
  BY MaxLevelAssumption
     DEF NoLocals, Locals, NoResult, Result, Content,
         CheckNote, Status

\* The ways an activity can end keep the bot's variables in their types.
LEMMA GotoType ==
  ASSUME TypeOK, NEW d \in Deploy, NEW next \in Step, Goto(d, next)
  PROVE  /\ pc' \in [Deploy -> Step \cup {"idle"}]
         /\ attempt' \in [Deploy -> 1..MaxAttempts]
         /\ auto' \in [Deploy -> BOOLEAN]
         /\ out' \in [Deploy -> Result]
         /\ runs' \in [Deploy -> 0..MaxRuns]
  BY MaxAttemptsAssumption DEF TypeOK, BotTypeOK, Goto

LEMMA ReturnType ==
  ASSUME TypeOK, NEW d \in Deploy, NEW status \in Status, NEW pr \in Nat,
         Return(d, status, pr)
  PROVE  /\ pc' \in [Deploy -> Step \cup {"idle"}]
         /\ attempt' \in [Deploy -> 1..MaxAttempts]
         /\ auto' \in [Deploy -> BOOLEAN]
         /\ loc' \in [Deploy -> Locals]
         /\ out' \in [Deploy -> Result]
         /\ runs' \in [Deploy -> 0..MaxRuns]
  <1>1. pc' \in [Deploy -> Step \cup {"idle"}] /\ runs' \in [Deploy -> 0..MaxRuns]
    BY DEF TypeOK, BotTypeOK, Return
  <1>2. attempt' \in [Deploy -> 1..MaxAttempts]
    BY MaxAttemptsAssumption DEF TypeOK, BotTypeOK, Return
  <1>3. auto' \in [Deploy -> BOOLEAN] /\ loc' \in [Deploy -> Locals]
    BY EmptyTypes DEF TypeOK, BotTypeOK, Return
  <1>4. out' \in [Deploy -> Result]
    <2>1. [status |-> status, pr |-> pr] \in Result
      BY DEF Result
    <2> QED
      BY <2>1 DEF TypeOK, BotTypeOK, Return
  <1> QED
    BY <1>1, <1>2, <1>3, <1>4

LEMMA RetryType ==
  ASSUME TypeOK, NEW d \in Deploy, NEW again \in Step, Retry(d, again)
  PROVE  /\ pc' \in [Deploy -> Step \cup {"idle"}]
         /\ attempt' \in [Deploy -> 1..MaxAttempts]
         /\ auto' \in [Deploy -> BOOLEAN]
         /\ loc' \in [Deploy -> Locals]
         /\ out' \in [Deploy -> Result]
         /\ runs' \in [Deploy -> 0..MaxRuns]
  BY MaxAttemptsAssumption DEF TypeOK, BotTypeOK, Retry

LEMMA FailsType ==
  ASSUME TypeOK, NEW d \in Deploy, NEW again \in Step, NEW status \in Status,
         Fails(d, again, status)
  PROVE  /\ pc' \in [Deploy -> Step \cup {"idle"}]
         /\ attempt' \in [Deploy -> 1..MaxAttempts]
         /\ auto' \in [Deploy -> BOOLEAN]
         /\ loc' \in [Deploy -> Locals]
         /\ out' \in [Deploy -> Result]
         /\ runs' \in [Deploy -> 0..MaxRuns]
  <1>1. loc[d].pr \in Nat
    BY DEF TypeOK, BotTypeOK, Locals
  <1>2. CASE Retry(d, again)
    BY <1>2, RetryType
  <1>3. CASE Return(d, status, loc[d].pr)
    BY <1>1, <1>3, ReturnType
  <1> QED
    BY <1>2, <1>3 DEF Fails

\* The calls of the provider, and people and CI, keep the service's variables
\* in their types.
LEMMA MergeType ==
  ASSUME GitHubTypeOK, NEW d \in Deploy, NEW n, Merge(d, n)
  PROVE  GitHubTypeOK'
  <1>1. FileOf[d] \in File /\ MergedContent(d) \in Content
    BY FileOfAssumption DEF GitHubTypeOK, MergedContent, Branch
  <1>2. base' \in [File -> Content]
    BY <1>1 DEF GitHubTypeOK, Merge
  <1>3. prs' \in [Deploy -> Seq(PRState)]
    BY DEF GitHubTypeOK, Merge, OpenPRs, PRState
  <1> QED
    BY <1>2, <1>3 DEF GitHubTypeOK, Merge

LEMMA CreateRefType ==
  ASSUME GitHubTypeOK, NEW d \in Deploy, CreateRef(d)
  PROVE  GitHubTypeOK'
  BY FileOfAssumption DEF GitHubTypeOK, CreateRef, FetchFile, Branch

LEMMA PutFileType ==
  ASSUME GitHubTypeOK, NEW d \in Deploy, NEW c \in Content,
         NEW below \in Seq(CIState), PutFile(d, c, below),
         meddled' \in 0..MaxMeddling
  PROVE  GitHubTypeOK'
  <1>1. branch' \in [Deploy -> Branch]
    BY DEF GitHubTypeOK, PutFile, Branch
  <1>2. Append(below, "none") \in Seq(CIState)
    BY DEF CIState
  <1>3. ci' \in [Deploy -> Seq(CIState)]
    BY <1>2 DEF GitHubTypeOK, PutFile
  <1> QED
    BY <1>1, <1>3 DEF GitHubTypeOK, PutFile

LEMMA CreatePRType ==
  ASSUME GitHubTypeOK, NEW d \in Deploy, CreatePR(d)
  PROVE  GitHubTypeOK'
  BY DEF GitHubTypeOK, CreatePR, PRState

LEMMA PeopleType ==
  ASSUME GitHubTypeOK, People
  PROVE  GitHubTypeOK'
  <1>0. Meddle => meddled' \in 0..MaxMeddling
    BY MaxMeddlingAssumption DEF GitHubTypeOK, Meddle
  <1>1. ASSUME NEW d \in Deploy, MergeByHand(d) PROVE GitHubTypeOK'
    BY <1>1, MergeType DEF MergeByHand
  <1>2. ASSUME NEW d \in Deploy, CloseByHand(d) PROVE GitHubTypeOK'
    BY <1>2 DEF GitHubTypeOK, CloseByHand, OpenPRs, PRState
  <1>3. ASSUME NEW f \in File, EditBase(f) PROVE GitHubTypeOK'
    BY <1>0, <1>3 DEF GitHubTypeOK, EditBase
  <1>4. ASSUME NEW d \in Deploy, PushBranch(d) PROVE GitHubTypeOK'
    <2>1. PICK c \in Content : PutFile(d, c, ci[d])
      BY <1>4 DEF PushBranch
    <2>2. meddled' \in 0..MaxMeddling /\ ci[d] \in Seq(CIState)
      BY <1>0, <1>4 DEF PushBranch, GitHubTypeOK
    <2> QED
      BY <2>1, <2>2, PutFileType
  <1>5. ASSUME NEW d \in Deploy, DeleteBranch(d) PROVE GitHubTypeOK'
    <2>1. branch' \in [Deploy -> Branch]
      BY <1>5, MaxLevelAssumption DEF GitHubTypeOK, DeleteBranch, Branch, Content
    <2>2. prs' \in [Deploy -> Seq(PRState)]
      <3> DEFINE q == [n \in DOMAIN prs[d] |->
                         IF prs[d][n] = "open" THEN "closed" ELSE prs[d][n]]
      <3>1. prs[d] \in Seq(PRState)
        BY DEF GitHubTypeOK
      <3>2. q \in Seq(PRState)
        BY <3>1 DEF PRState
      <3>3. prs' = [prs EXCEPT ![d] = q]
        BY <1>5 DEF DeleteBranch
      <3> HIDE DEF q
      <3> QED
        BY <3>2, <3>3 DEF GitHubTypeOK
    <2> QED
      BY <1>0, <1>5, <2>1, <2>2 DEF GitHubTypeOK, DeleteBranch
  <1> QED
    BY <1>1, <1>2, <1>3, <1>4, <1>5 DEF People

LEMMA CIType ==
  ASSUME GitHubTypeOK, CI
  PROVE  GitHubTypeOK'
  <1>1. PICK d \in Deploy :
          \E s \in DOMAIN ci[d] : \E from, to \in SUBSET CIState : CIMoves(d, s, from, to)
    BY DEF CI, CIRegister, CIFinish, CIState
  <1> QED
    BY <1>1 DEF GitHubTypeOK, CIMoves

LEMMA InitType == Init => TypeOK
  <1>1. Init => GitHubTypeOK
    BY MaxLevelAssumption, MaxMeddlingAssumption
       DEF Init, GitHubInit, GitHubTypeOK, Branch, Content
  <1>2. Init => BotTypeOK
    BY EmptyTypes, MaxAttemptsAssumption, MaxRunsAssumption DEF Init, BotTypeOK
  <1> QED
    BY <1>1, <1>2 DEF TypeOK

LEMMA BotStepType ==
  ASSUME TypeOK, NEW d \in Deploy, Start(d) \/ BotStep(d)
  PROVE  TypeOK'
  <1> USE DEF TypeOK
  <1>0. UNCHANGED githubVars => GitHubTypeOK'
    BY DEF githubVars, GitHubTypeOK
  <1>l. loc[d] \in Locals /\ prs[d] \in Seq(PRState)
    BY DEF BotTypeOK, GitHubTypeOK
  <1>t. UNCHANGED told => told' \in [Deploy -> SUBSET Event]
    BY DEF BotTypeOK
  <1>u. UNCHANGED loc => loc' \in [Deploy -> Locals]
    BY DEF BotTypeOK
  <1>n. OpenPRs(d) \subseteq Nat
    BY <1>l DEF OpenPRs
  <1>h. ASSUME NEW n \in Nat, Holds(d, n)
        PROVE  /\ pc' \in [Deploy -> Step \cup {"idle"}]
               /\ attempt' \in [Deploy -> 1..MaxAttempts]
               /\ auto' \in [Deploy -> BOOLEAN]
               /\ loc' \in [Deploy -> Locals]
               /\ out' \in [Deploy -> Result]
               /\ runs' \in [Deploy -> 0..MaxRuns]
    <2>1. Goto(d, "started") /\ "started" \in Step
      BY <1>h DEF Holds, Step
    <2>2. loc' \in [Deploy -> Locals]
      BY <1>h DEF Holds, BotTypeOK, Locals
    <2> QED
      BY <2>1, <2>2, GotoType
  <1>1. CASE Start(d)
    <2>1. pc' \in [Deploy -> Step \cup {"idle"}] /\ runs' \in [Deploy -> 0..MaxRuns]
      BY <1>1, MaxRunsAssumption DEF Start, BotTypeOK, Step
    <2>2. /\ auto' \in [Deploy -> BOOLEAN]
          /\ out' \in [Deploy -> Result]
          /\ told' \in [Deploy -> SUBSET Event]
      BY <1>1, EmptyTypes DEF Start, BotTypeOK
    <2> QED
      BY <1>0, <1>1, <2>1, <2>2 DEF Start, BotTypeOK
  <1>2. CASE FindOpenPR(d)
    <2>1. CASE \E n \in OpenPRs(d) : Return(d, "pr_open", n)
      BY <1>0, <1>2, <1>n, <1>t, <2>1, ReturnType DEF FindOpenPR, BotTypeOK, Status
    <2>2. CASE Retry(d, "find")
      BY <1>0, <1>2, <1>t, <2>2, RetryType DEF FindOpenPR, BotTypeOK, Step
    <2>3. CASE Goto(d, "fetch") /\ UNCHANGED loc
      BY <1>0, <1>2, <1>t, <1>u, <2>3, GotoType DEF FindOpenPR, BotTypeOK, Step
    <2> QED
      BY <1>2, <2>1, <2>2, <2>3 DEF FindOpenPR
  <1>3. CASE FetchManifest(d)
    <2>1. CASE Goto(d, "patch") /\ loc' = [loc EXCEPT ![d].current = FetchFile(d)]
      <3>1. FetchFile(d) \in Content
        BY FileOfAssumption DEF FetchFile, GitHubTypeOK
      <3>2. loc' \in [Deploy -> Locals]
        BY <2>1, <3>1 DEF BotTypeOK, Locals
      <3> QED
        BY <1>0, <1>3, <1>t, <2>1, <3>2, GotoType DEF FetchManifest, BotTypeOK, Step
    <2>2. CASE Fails(d, "fetch", "failed")
      BY <1>0, <1>3, <1>t, <2>2, FailsType DEF FetchManifest, BotTypeOK, Step, Status
    <2> QED
      BY <1>3, <2>1, <2>2 DEF FetchManifest
  <1>4. CASE Patch(d)
    <2>1. CASE \E level \in Content : /\ Goto(d, "validate")
                                     /\ loc' = [loc EXCEPT ![d].patched = level]
      <3>1. loc' \in [Deploy -> Locals]
        <4>1. PICK level \in Content : loc' = [loc EXCEPT ![d].patched = level]
          BY <2>1
        <4> QED
          BY <1>l, <4>1 DEF BotTypeOK, Locals
      <3> QED
        BY <1>0, <1>4, <1>t, <2>1, <3>1, GotoType DEF Patch, BotTypeOK, Step
    <2>2. CASE Fails(d, "patch", "failed")
      BY <1>0, <1>4, <1>t, <2>2, FailsType DEF Patch, BotTypeOK, Step, Status
    <2> QED
      BY <1>4, <2>1, <2>2 DEF Patch
  <1>5. CASE ValidatePatch(d)
    <2>1. CASE Goto(d, "branch") /\ UNCHANGED loc
      BY <1>0, <1>5, <1>t, <1>u, <2>1, GotoType DEF ValidatePatch, BotTypeOK, Step
    <2>2. CASE Fails(d, "validate", "failed")
      BY <1>0, <1>5, <1>t, <2>2, FailsType DEF ValidatePatch, BotTypeOK, Step, Status
    <2> QED
      BY <1>5, <2>1, <2>2 DEF ValidatePatch
  <1>6. CASE CreateBranch(d)
    <2>0. GitHubTypeOK'
      BY <1>0, <1>6, CreateRefType DEF CreateBranch
    <2>1. CASE Goto(d, "commit") /\ UNCHANGED loc
      BY <1>6, <1>t, <1>u, <2>0, <2>1, GotoType DEF CreateBranch, BotTypeOK, Step
    <2>2. CASE Fails(d, "branch", "failed")
      BY <1>6, <1>t, <2>0, <2>2, FailsType DEF CreateBranch, BotTypeOK, Step, Status
    <2> QED
      BY <1>6, <2>1, <2>2 DEF CreateBranch
  <1>7. CASE CommitFile(d)
    <2>0. GitHubTypeOK'
      <3>1. CASE PutFile(d, loc[d].patched, << >>) /\ UNCHANGED meddled
        <4>1. loc[d].patched \in Content /\ << >> \in Seq(CIState)
          BY <1>l DEF Locals
        <4>2. meddled' \in 0..MaxMeddling
          BY <3>1 DEF GitHubTypeOK
        <4> QED
          BY <3>1, <4>1, <4>2, PutFileType
      <3> QED
        BY <1>0, <1>7, <3>1 DEF CommitFile
    <2>1. CASE Goto(d, "open") /\ UNCHANGED loc
      BY <1>7, <1>t, <1>u, <2>0, <2>1, GotoType DEF CommitFile, BotTypeOK, Step
    <2>2. CASE Fails(d, "commit", "failed")
      BY <1>7, <1>t, <2>0, <2>2, FailsType DEF CommitFile, BotTypeOK, Step, Status
    <2> QED
      BY <1>7, <2>1, <2>2 DEF CommitFile
  <1>8. CASE OpenPR(d)
    <2>0. GitHubTypeOK'
      BY <1>0, <1>8, CreatePRType DEF OpenPR
    <2>1. CASE Holds(d, Len(prs[d]) + 1)
      BY <1>8, <1>h, <1>l, <1>t, <2>0, <2>1 DEF OpenPR, BotTypeOK
    <2>2. CASE Fails(d, "open", "failed")
      BY <1>8, <1>t, <2>0, <2>2, FailsType DEF OpenPR, BotTypeOK, Step, Status
    <2>3. CASE /\ pc' = [pc EXCEPT ![d] = "adopt"]
               /\ UNCHANGED <<attempt, auto, loc, out, runs>>
      BY <1>8, <1>t, <2>0, <2>3 DEF OpenPR, BotTypeOK, Step
    <2> QED
      BY <1>8, <2>1, <2>2, <2>3 DEF OpenPR
  <1>9. CASE AdoptPR(d)
    <2>1. CASE \E n \in OpenPRs(d) : Holds(d, n)
      BY <1>0, <1>9, <1>h, <1>n, <1>t, <2>1 DEF AdoptPR, BotTypeOK
    <2>2. CASE Fails(d, "open", "failed")
      BY <1>0, <1>9, <1>t, <2>2, FailsType DEF AdoptPR, BotTypeOK, Step, Status
    <2> QED
      BY <1>9, <2>1, <2>2 DEF AdoptPR
  <1>10. CASE NotifyStarted(d)
    <2>0. GitHubTypeOK' /\ told' \in [Deploy -> SUBSET Event]
      BY <1>0, <1>10 DEF NotifyStarted, Notify, Tell, BotTypeOK, Event
    <2>1. CASE Retry(d, "started")
      BY <2>0, <2>1, RetryType DEF BotTypeOK, Step
    <2>2. CASE Goto(d, "wait") /\ UNCHANGED loc
      BY <1>u, <2>0, <2>2, GotoType DEF BotTypeOK, Step
    <2>3. CASE Return(d, "pr_open", loc[d].pr)
      BY <1>l, <2>0, <2>3, ReturnType DEF BotTypeOK, Status, Locals
    <2> QED
      BY <1>10, <2>1, <2>2, <2>3 DEF NotifyStarted, Notify
  <1>11. CASE WaitChecks(d)
    <2>1. CASE /\ pc' = [pc EXCEPT ![d] = "poll"]
               /\ loc' = [loc EXCEPT ![d].asked = HeadSHA(d)]
               /\ UNCHANGED <<attempt, auto, out, runs>>
      <3>1. HeadSHA(d) \in Nat
        BY DEF HeadSHA, GitHubTypeOK
      <3>2. loc' \in [Deploy -> Locals]
        BY <2>1, <3>1 DEF BotTypeOK, Locals
      <3> QED
        BY <1>0, <1>11, <1>t, <2>1, <3>2 DEF WaitChecks, BotTypeOK, Step
    <2>2. CASE Fails(d, "wait", "awaiting_human")
      BY <1>0, <1>11, <1>t, <2>2, FailsType DEF WaitChecks, BotTypeOK, Step, Status
    <2> QED
      BY <1>11, <2>1, <2>2 DEF WaitChecks
  <1>12. CASE PollChecks(d)
    <2> DEFINE state == ci[d][loc[d].asked]
    <2>1. CASE /\ Passes(state)
               /\ Goto(d, "merge")
               /\ loc' = [loc EXCEPT ![d].checks = state]
      <3>1. state \in CheckNote
        BY <2>1 DEF Passes, CIState, CheckNote
      <3>2. loc' \in [Deploy -> Locals]
        BY <2>1, <3>1 DEF BotTypeOK, Locals
      <3> QED
        BY <1>0, <1>12, <1>t, <2>1, <3>2, GotoType DEF PollChecks, BotTypeOK, Step
    <2>2. CASE Return(d, "awaiting_human", loc[d].pr)
      BY <1>0, <1>12, <1>l, <1>t, <2>2, ReturnType DEF PollChecks, BotTypeOK, Status, Locals
    <2>3. CASE Fails(d, "wait", "awaiting_human")
      BY <1>0, <1>12, <1>t, <2>3, FailsType DEF PollChecks, BotTypeOK, Step, Status
    <2> QED
      BY <1>12, <2>1, <2>2, <2>3 DEF PollChecks
  <1>13. CASE MergePR(d)
    <2>0. GitHubTypeOK'
      BY <1>0, <1>13, MergeType DEF MergePR
    <2>1. CASE Goto(d, "completed") /\ UNCHANGED loc
      BY <1>13, <1>t, <1>u, <2>0, <2>1, GotoType DEF MergePR, BotTypeOK, Step
    <2>2. CASE Fails(d, "merge", "awaiting_human")
      BY <1>13, <1>t, <2>0, <2>2, FailsType DEF MergePR, BotTypeOK, Step, Status
    <2> QED
      BY <1>13, <2>1, <2>2 DEF MergePR
  <1>14. CASE NotifyCompleted(d)
    <2>0. GitHubTypeOK' /\ told' \in [Deploy -> SUBSET Event]
      BY <1>0, <1>14 DEF NotifyCompleted, Notify, Tell, BotTypeOK, Event
    <2>1. CASE Retry(d, "completed")
      BY <2>0, <2>1, RetryType DEF BotTypeOK, Step
    <2>2. CASE Return(d, "merged", loc[d].pr)
      BY <1>l, <2>0, <2>2, ReturnType DEF BotTypeOK, Status, Locals
    <2> QED
      BY <1>14, <2>1, <2>2 DEF NotifyCompleted, Notify
  <1> QED
    BY <1>1, <1>2, <1>3, <1>4, <1>5, <1>6, <1>7, <1>8, <1>9, <1>10, <1>11,
       <1>12, <1>13, <1>14 DEF BotStep

LEMMA NextType == TypeOK /\ [Next]_vars => TypeOK'
  <1> SUFFICES ASSUME TypeOK, [Next]_vars PROVE TypeOK'
    OBVIOUS
  <1>1. CASE \E d \in Deploy : Start(d) \/ BotStep(d)
    BY <1>1, BotStepType
  <1>2. CASE (People \/ CI) /\ UNCHANGED botVars
    BY <1>2, PeopleType, CIType DEF TypeOK, BotTypeOK, botVars
  <1>3. CASE UNCHANGED vars
    BY <1>3 DEF vars, githubVars, botVars, TypeOK, GitHubTypeOK, BotTypeOK
  <1> QED
    BY <1>1, <1>2, <1>3 DEF Next

\* Every variable keeps its type and no activity is attempted more than
\* MaxAttempts times, in every behaviour (env_deploy.go:45-55).
THEOREM TypeCorrect == Spec => []TypeOK
  BY InitType, NextType, PTL DEF Spec

-----------------------------------------------------------------------------
(* What a run reports and tells is true.                                   *)

\* A step that opens no pull request of d: the latest one stays the latest, and
\* stays merged once it is.
KeepsPR(d) ==
  /\ Len(prs'[d]) = Len(prs[d])
  /\ Latest(d) # "absent" => Latest(d)' # "absent"
  /\ Latest(d) = "merged" => Latest(d)' = "merged"
  /\ OpenPRs(d)' \subseteq OpenPRs(d)

LEMMA KeepsUnchanged ==
  ASSUME NEW e \in Deploy, prs'[e] = prs[e]
  PROVE  KeepsPR(e)
  BY DEF KeepsPR, Latest, OpenPRs

LEMMA KeepsSettled ==
  ASSUME TypeOK, NEW d \in Deploy, Held(d), NEW n \in OpenPRs(d),
         NEW state \in {"merged", "closed"}, prs' = [prs EXCEPT ![d][n] = state]
  PROVE  /\ \A e \in Deploy : KeepsPR(e)
         /\ Latest(d)' = state
  <1>1. prs[d] \in Seq(PRState) /\ n = Len(prs[d]) /\ n \in DOMAIN prs[d]
    BY DEF TypeOK, GitHubTypeOK, Held, OpenPRs
  <1>2. prs'[d] = [prs[d] EXCEPT ![n] = state]
    BY DEF TypeOK, GitHubTypeOK
  <1>3. /\ Len(prs'[d]) = Len(prs[d])
        /\ DOMAIN prs'[d] = DOMAIN prs[d]
        /\ prs'[d][n] = state
        /\ \A m \in DOMAIN prs[d] \ {n} : prs'[d][m] = prs[d][m]
        /\ prs'[d] # << >>
    BY <1>1, <1>2
  <1>4. Latest(d)' = state
    BY <1>1, <1>3 DEF Latest
  <1>5. KeepsPR(d)
    <2>1. OpenPRs(d)' \subseteq OpenPRs(d)
      BY <1>3 DEF OpenPRs
    <2>2. Latest(d) = "open"
      BY <1>1 DEF Latest, OpenPRs
    <2> QED
      BY <1>3, <1>4, <2>1, <2>2 DEF KeepsPR
  <1>6. ASSUME NEW e \in Deploy \ {d} PROVE KeepsPR(e)
    <2>1. prs'[e] = prs[e]
      BY DEF TypeOK, GitHubTypeOK
    <2> QED
      BY <2>1, KeepsUnchanged
  <1> QED
    BY <1>4, <1>5, <1>6

LEMMA MergeKeeps ==
  ASSUME TypeOK, NEW d \in Deploy, Held(d), NEW n, Merge(d, n)
  PROVE  /\ \A e \in Deploy : KeepsPR(e)
         /\ Latest(d)' = "merged"
  BY KeepsSettled DEF Merge

LEMMA PeopleKeep ==
  ASSUME TypeOK, \A d \in Deploy : Held(d), People \/ CI
  PROVE  \A e \in Deploy : KeepsPR(e)
  <1>1. CASE prs' = prs
    BY <1>1, KeepsUnchanged
  <1>2. ASSUME NEW d \in Deploy, MergeByHand(d) PROVE \A e \in Deploy : KeepsPR(e)
    BY <1>2, MergeKeeps DEF MergeByHand
  <1>3. ASSUME NEW d \in Deploy, CloseByHand(d) PROVE \A e \in Deploy : KeepsPR(e)
    BY <1>3, KeepsSettled DEF CloseByHand
  <1>4. ASSUME NEW d \in Deploy, DeleteBranch(d) PROVE \A e \in Deploy : KeepsPR(e)
    <2>1. prs[d] \in Seq(PRState)
      BY DEF TypeOK, GitHubTypeOK
    <2>2. prs'[d] = [n \in DOMAIN prs[d] |->
                       IF prs[d][n] = "open" THEN "closed" ELSE prs[d][n]]
      BY <1>4 DEF DeleteBranch, TypeOK, GitHubTypeOK
    <2>3. /\ Len(prs'[d]) = Len(prs[d])
          /\ DOMAIN prs'[d] = DOMAIN prs[d]
          /\ \A n \in DOMAIN prs[d] :
                prs'[d][n] = IF prs[d][n] = "open" THEN "closed" ELSE prs[d][n]
      BY <2>1, <2>2
    <2>4. prs'[d] = << >> <=> prs[d] = << >>
      BY <2>1, <2>2, <2>3
    <2>5. prs[d] # << >> => Len(prs[d]) \in DOMAIN prs[d]
      BY <2>1
    <2>5a. ASSUME NEW n \in DOMAIN prs[d] PROVE prs[d][n] \in PRState
      BY <2>1
    <2>6. OpenPRs(d)' \subseteq OpenPRs(d)
      BY <2>3 DEF OpenPRs
    <2>7. KeepsPR(d)
      BY <2>3, <2>4, <2>5, <2>5a, <2>6 DEF KeepsPR, Latest, PRState
    <2>8. ASSUME NEW e \in Deploy \ {d} PROVE KeepsPR(e)
      <3>1. prs'[e] = prs[e]
        BY <1>4 DEF DeleteBranch, TypeOK, GitHubTypeOK
      <3> QED
        BY <3>1, KeepsUnchanged
    <2> QED
      BY <2>7, <2>8
  <1> QED
    BY <1>1, <1>2, <1>3, <1>4
       DEF People, CI, EditBase, PushBranch, PutFile, CIRegister, CIFinish, CIMoves

LEMMA CreatePREffect ==
  ASSUME TypeOK, NEW d \in Deploy, CreatePR(d)
  PROVE  /\ Latest(d)' = "open"
         /\ Len(prs'[d]) = Len(prs[d]) + 1
         /\ OpenPRs(d)' \subseteq {Len(prs'[d])}
         /\ \A e \in Deploy \ {d} : KeepsPR(e)
  <1>1. prs[d] \in Seq(PRState) /\ prs'[d] = Append(prs[d], "open")
    BY DEF CreatePR, TypeOK, GitHubTypeOK
  <1>2. /\ Len(prs'[d]) = Len(prs[d]) + 1
        /\ prs'[d][Len(prs[d]) + 1] = "open"
        /\ DOMAIN prs'[d] = 1..(Len(prs[d]) + 1)
        /\ \A n \in 1..Len(prs[d]) : prs'[d][n] = prs[d][n]
        /\ prs'[d] # << >>
    BY <1>1
  <1>3. \A n \in 1..Len(prs[d]) : prs[d][n] # "open"
    BY <1>1 DEF CreatePR, OpenPRs
  <1>4. OpenPRs(d)' \subseteq {Len(prs'[d])}
    BY <1>1, <1>2, <1>3 DEF OpenPRs
  <1>5. ASSUME NEW e \in Deploy \ {d} PROVE KeepsPR(e)
    <2>1. prs'[e] = prs[e]
      BY DEF CreatePR, TypeOK, GitHubTypeOK
    <2> QED
      BY <2>1, KeepsUnchanged
  <1> QED
    BY <1>2, <1>4, <1>5 DEF Latest

\* A deployment that takes no step stays sound.
LEMMA OthersSound ==
  ASSUME NEW e \in Deploy, Sound(e), KeepsPR(e),
         UNCHANGED <<pc[e], loc[e], out[e], told[e]>>
  PROVE  Sound(e)'
  BY DEF Sound, Held, Reported, Told, KeepsPR, NoResult

\* A step after which the run of d goes on, at activity q.
LEMMA InRunSound ==
  ASSUME NEW d \in Deploy, NEW q \in Step, q # "idle", pc'[d] = q,
         out'[d] = NoResult, OpenPRs(d)' \subseteq {Len(prs'[d])},
         IF q \in Holding THEN Latest(d)' # "absent" /\ loc'[d].pr = Len(prs'[d])
                          ELSE loc'[d].pr = 0,
         q = "completed" => Latest(d)' = "merged",
         "started" \in told'[d] => Latest(d)' # "absent",
         "completed" \in told'[d] => Latest(d)' = "merged" /\ q = "completed"
  PROVE  Sound(d)'
  BY DEF Sound, Held, Reported, Told, NoResult

\* A step that ends the run of d with a report that is true.
LEMMA ReturnSound ==
  ASSUME TypeOK, NEW d \in Deploy, NEW status, NEW n, Return(d, status, n),
         OpenPRs(d)' \subseteq {Len(prs'[d])},
         \/ status = "failed" /\ n = 0
         \/ /\ status \in {"pr_open", "awaiting_human", "merged"}
            /\ n = Len(prs'[d]) /\ Latest(d)' # "absent"
            /\ status = "merged" => Latest(d)' = "merged",
         "started" \in told'[d] => Latest(d)' # "absent",
         "completed" \in told'[d] => Latest(d)' = "merged"
  PROVE  Sound(d)'
  <1>1. /\ pc'[d] = "idle" /\ loc'[d] = NoLocals
        /\ out'[d] = [status |-> status, pr |-> n]
    BY DEF Return, TypeOK, BotTypeOK
  <1>2. Held(d)'
    <2>1. NoLocals.pr = 0
      BY DEF NoLocals
    <2>2. pc'[d] \notin Holding /\ loc'[d].pr = 0 /\ pc'[d] # "completed"
      BY <1>1, <2>1 DEF Holding
    <2> QED
      BY <2>2 DEF Held
  <1>3. Told(d)'
    BY <1>1 DEF Told
  <1>4. out'[d].status = status /\ out'[d].pr = n
    BY <1>1
  <1>5. Reported(d)'
    BY <1>1, <1>4 DEF Reported
  <1> QED
    BY <1>2, <1>3, <1>5 DEF Sound

\* An attempt that fails, whether or not its effect has taken place.
LEMMA FailsSound ==
  ASSUME TypeOK, NEW d \in Deploy, Sound(d), NEW again \in Step, NEW status,
         Fails(d, again, status), UNCHANGED told,
         pc[d] \notin {"idle", "completed"}, again \notin {"idle", "completed"},
         pc[d] \in Holding <=> again \in Holding,
         status = IF pc[d] \in Holding THEN "awaiting_human" ELSE "failed",
         OpenPRs(d)' \subseteq {Len(prs'[d])},
         pc[d] \in Holding => Len(prs'[d]) = Len(prs[d]),
         Latest(d) # "absent" => Latest(d)' # "absent"
  PROVE  Sound(d)'
  <1>1. /\ "started" \in told'[d] => Latest(d)' # "absent"
        /\ "completed" \notin told'[d]
    BY DEF Sound, Told
  <1>2. CASE Retry(d, again)
    <2>1. pc'[d] = again /\ loc'[d] = loc[d] /\ out'[d] = out[d]
      BY <1>2 DEF Retry, TypeOK, BotTypeOK
    <2>2. out'[d] = NoResult
      BY <2>1 DEF Sound, Reported
    <2>3. IF again \in Holding THEN Latest(d)' # "absent" /\ loc'[d].pr = Len(prs'[d])
                              ELSE loc'[d].pr = 0
      <3>1. CASE pc[d] \in Holding
        <4>1. Latest(d) # "absent" /\ loc[d].pr = Len(prs[d])
          BY <3>1 DEF Sound, Held
        <4> QED
          BY <2>1, <3>1, <4>1
      <3>2. CASE pc[d] \notin Holding
        <4>1. loc[d].pr = 0
          BY <3>2 DEF Sound, Held
        <4> QED
          BY <2>1, <3>2, <4>1
      <3> QED
        BY <3>1, <3>2
    <2> QED
      BY <1>1, <2>1, <2>2, <2>3, InRunSound
  <1>3. CASE Return(d, status, loc[d].pr)
    BY <1>1, <1>3, ReturnSound DEF Sound, Held
  <1> QED
    BY <1>2, <1>3 DEF Fails

\* A step of one deployment leaves the variables of the others alone.
LEMMA OwnStep ==
  ASSUME TypeOK, NEW d \in Deploy, Start(d) \/ BotStep(d),
         NEW e \in Deploy \ {d}
  PROVE  UNCHANGED <<pc[e], loc[e], out[e], told[e]>>
  <1> USE DEF TypeOK, BotTypeOK
  <1>1. ASSUME NEW q, Goto(d, q) PROVE UNCHANGED <<pc[e], out[e]>>
    BY <1>1 DEF Goto
  <1>2. ASSUME NEW st, NEW n, Return(d, st, n)
        PROVE  UNCHANGED <<pc[e], loc[e], out[e]>>
    BY <1>2 DEF Return
  <1>3. ASSUME NEW q, Retry(d, q) PROVE UNCHANGED <<pc[e], loc[e], out[e]>>
    BY <1>3 DEF Retry
  <1>4. ASSUME NEW q, NEW st, Fails(d, q, st)
        PROVE  UNCHANGED <<pc[e], loc[e], out[e]>>
    BY <1>2, <1>3, <1>4 DEF Fails
  <1>5. ASSUME NEW n, Holds(d, n) PROVE UNCHANGED <<pc[e], loc[e], out[e]>>
    BY <1>1, <1>5 DEF Holds
  <1>6. CASE Start(d)
    BY <1>6 DEF Start
  <1>7. CASE FindOpenPR(d)
    BY <1>1, <1>2, <1>3, <1>7 DEF FindOpenPR
  <1>8. CASE FetchManifest(d)
    BY <1>1, <1>4, <1>8 DEF FetchManifest
  <1>9. CASE Patch(d)
    BY <1>1, <1>4, <1>9 DEF Patch
  <1>10. CASE ValidatePatch(d)
    BY <1>1, <1>4, <1>10 DEF ValidatePatch
  <1>11. CASE CreateBranch(d)
    BY <1>1, <1>4, <1>11 DEF CreateBranch
  <1>12. CASE CommitFile(d)
    BY <1>1, <1>4, <1>12 DEF CommitFile
  <1>13. CASE OpenPR(d)
    BY <1>4, <1>5, <1>13 DEF OpenPR
  <1>14. CASE AdoptPR(d)
    BY <1>4, <1>5, <1>14 DEF AdoptPR
  <1>15. CASE NotifyStarted(d)
    BY <1>1, <1>2, <1>3, <1>15 DEF NotifyStarted, Notify, Tell
  <1>16. CASE WaitChecks(d)
    BY <1>4, <1>16 DEF WaitChecks
  <1>17. CASE PollChecks(d)
    BY <1>1, <1>2, <1>4, <1>17 DEF PollChecks
  <1>18. CASE MergePR(d)
    BY <1>1, <1>4, <1>18 DEF MergePR
  <1>19. CASE NotifyCompleted(d)
    BY <1>2, <1>3, <1>19 DEF NotifyCompleted, Notify, Tell
  <1> QED
    BY <1>6, <1>7, <1>8, <1>9, <1>10, <1>11, <1>12, <1>13, <1>14, <1>15,
       <1>16, <1>17, <1>18, <1>19 DEF BotStep

LEMMA BotStepSound ==
  ASSUME TypeOK, NEW d \in Deploy, Sound(d), Start(d) \/ BotStep(d)
  PROVE  Sound(d)' /\ \A e \in Deploy \ {d} : KeepsPR(e)
  <1>a. Held(d) /\ Reported(d) /\ Told(d)
    BY DEF Sound
  <1>k. ASSUME UNCHANGED githubVars
        PROVE  /\ \A e \in Deploy : KeepsPR(e)
               /\ OpenPRs(d)' \subseteq {Len(prs'[d])}
               /\ Latest(d)' = Latest(d) /\ prs' = prs
    BY <1>a, <1>k, KeepsUnchanged DEF githubVars, Held, OpenPRs, Latest
  <1>t. pc[d] \notin {"idle", "completed"} => "completed" \notin told[d]
    BY <1>a DEF Told
  <1>o. pc[d] # "idle" => out[d] = NoResult
    BY <1>a DEF Reported
  <1>p. ASSUME NEW n \in OpenPRs(d) PROVE n = Len(prs[d]) /\ Latest(d) = "open"
    <2>1. prs[d] \in Seq(PRState) /\ n = Len(prs[d]) /\ n \in DOMAIN prs[d]
      BY <1>a DEF Held, OpenPRs, TypeOK, GitHubTypeOK
    <2> QED
      BY <2>1 DEF OpenPRs, Latest
  <1>g. ASSUME NEW q, Goto(d, q) PROVE pc'[d] = q /\ out'[d] = out[d]
    BY <1>g DEF Goto, TypeOK, BotTypeOK
  <1>r. ASSUME NEW q, Retry(d, q)
        PROVE  pc'[d] = q /\ out'[d] = out[d] /\ loc'[d] = loc[d]
    BY <1>r DEF Retry, TypeOK, BotTypeOK
  <1>h. ASSUME NEW n, Holds(d, n)
        PROVE  pc'[d] = "started" /\ out'[d] = out[d] /\ loc'[d].pr = n
    BY <1>h, <1>g DEF Holds, TypeOK, BotTypeOK, Locals
  <1>l. UNCHANGED loc => loc'[d] = loc[d]
    OBVIOUS
  <1>1. CASE Start(d)
    <2>1. /\ pc[d] = "idle" /\ pc'[d] = "find" /\ out'[d] = NoResult
          /\ told'[d] = {} /\ loc'[d] = loc[d]
      BY <1>1 DEF Start, TypeOK, BotTypeOK
    <2>2. UNCHANGED githubVars
      BY <1>1 DEF Start
    <2> QED
      BY <1>a, <1>k, <2>1, <2>2, InRunSound DEF Held, Holding, Step
  <1>2. CASE FindOpenPR(d)
    <2>0. UNCHANGED githubVars /\ UNCHANGED told /\ pc[d] = "find"
      BY <1>2 DEF FindOpenPR
    <2>1. ASSUME NEW n \in OpenPRs(d), Return(d, "pr_open", n) PROVE Sound(d)'
      BY <1>k, <1>p, <1>t, <2>0, <2>1, ReturnSound
    <2>2. CASE Retry(d, "find")
      BY <1>a, <1>k, <1>o, <1>r, <1>t, <2>0, <2>2, InRunSound DEF Held, Told, Holding, Step
    <2>3. CASE Goto(d, "fetch") /\ UNCHANGED loc
      BY <1>a, <1>g, <1>k, <1>o, <1>t, <2>0, <2>3, InRunSound DEF Held, Told, Holding, Step
    <2> QED
      BY <1>2, <1>k, <2>0, <2>1, <2>2, <2>3 DEF FindOpenPR
  <1>3. CASE FetchManifest(d)
    <2>0. UNCHANGED githubVars /\ UNCHANGED told /\ pc[d] = "fetch"
      BY <1>3 DEF FetchManifest
    <2>1. CASE Goto(d, "patch") /\ loc' = [loc EXCEPT ![d].current = FetchFile(d)]
      <3>1. loc'[d].pr = loc[d].pr
        BY <2>1 DEF TypeOK, BotTypeOK, Locals
      <3> QED
        BY <1>a, <1>g, <1>k, <1>o, <1>t, <2>0, <2>1, <3>1, InRunSound
           DEF Held, Told, Holding, Step
    <2>2. CASE Fails(d, "fetch", "failed")
      BY <1>k, <2>0, <2>2, FailsSound DEF Holding, Step
    <2> QED
      BY <1>3, <1>k, <2>0, <2>1, <2>2 DEF FetchManifest
  <1>4. CASE Patch(d)
    <2>0. UNCHANGED githubVars /\ UNCHANGED told /\ pc[d] = "patch"
      BY <1>4 DEF Patch
    <2>1. CASE \E level \in Content : /\ Goto(d, "validate")
                                     /\ loc' = [loc EXCEPT ![d].patched = level]
      <3>1. loc'[d].pr = loc[d].pr
        BY <2>1 DEF TypeOK, BotTypeOK, Locals
      <3> QED
        BY <1>a, <1>g, <1>k, <1>o, <1>t, <2>0, <2>1, <3>1, InRunSound
           DEF Held, Told, Holding, Step
    <2>2. CASE Fails(d, "patch", "failed")
      BY <1>k, <2>0, <2>2, FailsSound DEF Holding, Step
    <2> QED
      BY <1>4, <1>k, <2>0, <2>1, <2>2 DEF Patch
  <1>5. CASE ValidatePatch(d)
    <2>0. UNCHANGED githubVars /\ UNCHANGED told /\ pc[d] = "validate"
      BY <1>5 DEF ValidatePatch
    <2>1. CASE Goto(d, "branch") /\ UNCHANGED loc
      BY <1>a, <1>g, <1>k, <1>o, <1>t, <2>0, <2>1, InRunSound DEF Held, Told, Holding, Step
    <2>2. CASE Fails(d, "validate", "failed")
      BY <1>k, <2>0, <2>2, FailsSound DEF Holding, Step
    <2> QED
      BY <1>5, <1>k, <2>0, <2>1, <2>2 DEF ValidatePatch
  <1>6. CASE CreateBranch(d)
    <2>0. prs' = prs /\ UNCHANGED told /\ pc[d] = "branch"
      BY <1>6 DEF CreateBranch, CreateRef, githubVars
    <2>k. /\ \A e \in Deploy : KeepsPR(e)
          /\ OpenPRs(d)' \subseteq {Len(prs'[d])} /\ Latest(d)' = Latest(d)
      BY <1>a, <2>0, KeepsUnchanged DEF Held, OpenPRs, Latest
    <2>1. CASE Goto(d, "commit") /\ UNCHANGED loc
      BY <1>a, <1>g, <1>o, <1>t, <2>0, <2>1, <2>k, InRunSound DEF Held, Told, Holding, Step
    <2>2. CASE Fails(d, "branch", "failed")
      BY <2>0, <2>2, <2>k, FailsSound DEF Holding, Step
    <2> QED
      BY <1>6, <2>1, <2>2, <2>k DEF CreateBranch
  <1>7. CASE CommitFile(d)
    <2>0. prs' = prs /\ UNCHANGED told /\ pc[d] = "commit"
      BY <1>7 DEF CommitFile, PutFile, githubVars
    <2>k. /\ \A e \in Deploy : KeepsPR(e)
          /\ OpenPRs(d)' \subseteq {Len(prs'[d])} /\ Latest(d)' = Latest(d)
      BY <1>a, <2>0, KeepsUnchanged DEF Held, OpenPRs, Latest
    <2>1. CASE Goto(d, "open") /\ UNCHANGED loc
      BY <1>a, <1>g, <1>o, <1>t, <2>0, <2>1, <2>k, InRunSound DEF Held, Told, Holding, Step
    <2>2. CASE Fails(d, "commit", "failed")
      BY <2>0, <2>2, <2>k, FailsSound DEF Holding, Step
    <2> QED
      BY <1>7, <2>1, <2>2, <2>k DEF CommitFile
  <1>8. CASE OpenPR(d)
    <2>0. UNCHANGED told /\ pc[d] = "open"
      BY <1>8 DEF OpenPR
    <2>1. CASE CreatePR(d) /\ Holds(d, Len(prs[d]) + 1)
      BY <1>h, <1>o, <1>t, <2>0, <2>1, CreatePREffect, InRunSound DEF Holding, Step
    <2>2. CASE CreatePR(d) /\ Fails(d, "open", "failed")
      BY <2>0, <2>2, CreatePREffect, FailsSound DEF Holding, Step
    <2>3. CASE /\ pc' = [pc EXCEPT ![d] = "adopt"]
               /\ UNCHANGED <<githubVars, attempt, auto, loc, out, runs>>
      <3>1. pc'[d] = "adopt" /\ out'[d] = out[d] /\ loc'[d] = loc[d]
        BY <2>3 DEF TypeOK, BotTypeOK
      <3> QED
        BY <1>a, <1>k, <1>o, <1>t, <2>0, <2>3, <3>1, InRunSound
           DEF Held, Told, Holding, Step
    <2>4. CASE UNCHANGED githubVars /\ Fails(d, "open", "failed")
      BY <1>k, <2>0, <2>4, FailsSound DEF Holding, Step
    <2> QED
      BY <1>8, <2>1, <2>2, <2>3, <2>4 DEF OpenPR
  <1>9. CASE AdoptPR(d)
    <2>0. UNCHANGED githubVars /\ UNCHANGED told /\ pc[d] = "adopt"
      BY <1>9 DEF AdoptPR
    <2>1. ASSUME NEW n \in OpenPRs(d), Holds(d, n) PROVE Sound(d)'
      BY <1>h, <1>k, <1>o, <1>p, <1>t, <2>0, <2>1, InRunSound DEF Holding, Step
    <2>2. CASE Fails(d, "open", "failed")
      BY <1>k, <2>0, <2>2, FailsSound DEF Holding, Step
    <2> QED
      BY <1>9, <1>k, <2>0, <2>1, <2>2 DEF AdoptPR
  <1>10. CASE NotifyStarted(d)
    <2>0. UNCHANGED githubVars /\ pc[d] = "started"
      BY <1>10 DEF NotifyStarted, Notify
    <2>t. Latest(d) # "absent" /\ loc[d].pr = Len(prs[d]) /\ "completed" \notin told'[d]
      BY <1>10, <1>a, <1>t, <2>0
         DEF NotifyStarted, Notify, Tell, Held, Holding, TypeOK, BotTypeOK
    <2>1. CASE Retry(d, "started")
      BY <1>k, <1>o, <1>r, <2>0, <2>1, <2>t, InRunSound DEF Holding, Step
    <2>2. CASE Goto(d, "wait") /\ UNCHANGED loc
      BY <1>g, <1>k, <1>o, <2>0, <2>2, <2>t, InRunSound DEF Holding, Step
    <2>3. CASE Return(d, "pr_open", loc[d].pr)
      BY <1>k, <2>0, <2>3, <2>t, ReturnSound
    <2> QED
      BY <1>10, <1>k, <2>0, <2>1, <2>2, <2>3 DEF NotifyStarted, Notify
  <1>11. CASE WaitChecks(d)
    <2>0. UNCHANGED githubVars /\ UNCHANGED told /\ pc[d] = "wait"
      BY <1>11 DEF WaitChecks
    <2>1. CASE /\ pc' = [pc EXCEPT ![d] = "poll"]
               /\ loc' = [loc EXCEPT ![d].asked = HeadSHA(d)]
               /\ UNCHANGED <<attempt, auto, out, runs>>
      <3>1. pc'[d] = "poll" /\ out'[d] = out[d] /\ loc'[d].pr = loc[d].pr
        BY <2>1 DEF TypeOK, BotTypeOK, Locals
      <3> QED
        BY <1>a, <1>k, <1>o, <1>t, <2>0, <3>1, InRunSound DEF Held, Told, Holding, Step
    <2>2. CASE Fails(d, "wait", "awaiting_human")
      BY <1>k, <2>0, <2>2, FailsSound DEF Holding, Step
    <2> QED
      BY <1>11, <1>k, <2>0, <2>1, <2>2 DEF WaitChecks
  <1>12. CASE PollChecks(d)
    <2>0. UNCHANGED githubVars /\ UNCHANGED told /\ pc[d] = "poll"
      BY <1>12 DEF PollChecks
    <2> DEFINE result == ci[d][loc[d].asked]
    <2>1. CASE Goto(d, "merge") /\ loc' = [loc EXCEPT ![d].checks = result]
      <3>1. loc'[d].pr = loc[d].pr
        BY <2>1 DEF TypeOK, BotTypeOK, Locals
      <3> QED
        BY <1>a, <1>g, <1>k, <1>o, <1>t, <2>0, <2>1, <3>1, InRunSound
           DEF Held, Told, Holding, Step
    <2>2. CASE Return(d, "awaiting_human", loc[d].pr)
      BY <1>a, <1>k, <1>t, <2>0, <2>2, ReturnSound DEF Held, Told, Holding
    <2>3. CASE Fails(d, "wait", "awaiting_human")
      BY <1>k, <2>0, <2>3, FailsSound DEF Holding, Step
    <2> QED
      BY <1>12, <1>k, <2>0, <2>1, <2>2, <2>3 DEF PollChecks
  <1>13. CASE MergePR(d)
    <2>0. UNCHANGED told /\ pc[d] = "merge"
      BY <1>13 DEF MergePR
    <2>1. CASE Merge(d, loc[d].pr)
      <3>k. /\ \A e \in Deploy : KeepsPR(e)
            /\ Latest(d)' = "merged"
            /\ OpenPRs(d)' \subseteq {Len(prs'[d])} /\ Len(prs'[d]) = Len(prs[d])
        BY <1>a, <2>1, MergeKeeps DEF KeepsPR, Held
      <3>1. CASE Goto(d, "completed") /\ UNCHANGED loc
        BY <1>a, <1>g, <1>o, <1>t, <2>0, <3>1, <3>k, InRunSound DEF Held, Holding, Step
      <3>2. CASE Fails(d, "merge", "awaiting_human")
        BY <2>0, <3>2, <3>k, FailsSound DEF Holding, Step
      <3>3. CASE ~(Goto(d, "completed") /\ UNCHANGED loc)
                   /\ ~Fails(d, "merge", "awaiting_human")
        BY <1>13, <3>3 DEF MergePR
      <3> QED
        BY <3>1, <3>2, <3>3, <3>k
    <2>2. CASE UNCHANGED githubVars /\ Fails(d, "merge", "awaiting_human")
      BY <1>k, <2>0, <2>2, FailsSound DEF Holding, Step
    <2> QED
      BY <1>13, <2>1, <2>2 DEF MergePR
  <1>14. CASE NotifyCompleted(d)
    <2>0. UNCHANGED githubVars /\ pc[d] = "completed"
      BY <1>14 DEF NotifyCompleted, Notify
    <2>t. Latest(d) = "merged" /\ loc[d].pr = Len(prs[d])
      BY <1>a, <2>0 DEF Held, Holding
    <2>1. CASE Retry(d, "completed")
      BY <1>k, <1>o, <1>r, <2>0, <2>1, <2>t, InRunSound DEF Holding, Step
    <2>2. CASE Return(d, "merged", loc[d].pr)
      BY <1>k, <2>0, <2>2, <2>t, ReturnSound
    <2> QED
      BY <1>14, <1>k, <2>0, <2>1, <2>2 DEF NotifyCompleted, Notify
  <1> QED
    BY <1>1, <1>2, <1>3, <1>4, <1>5, <1>6, <1>7, <1>8, <1>9, <1>10, <1>11,
       <1>12, <1>13, <1>14 DEF BotStep

LEMMA ReportInvInit == Init => ReportInv
  <1> SUFFICES ASSUME Init PROVE ReportInv
    OBVIOUS
  <1>1. ASSUME NEW d \in Deploy PROVE Sound(d)
    <2>1. /\ prs[d] = << >> /\ pc[d] = "idle" /\ told[d] = {}
          /\ loc[d].pr = 0 /\ out[d] = NoResult
      BY DEF Init, GitHubInit, NoLocals
    <2> QED
      BY <2>1 DEF Sound, Held, Reported, Told, Latest, OpenPRs, Holding, NoResult
  <1> QED
    BY <1>1, InitType DEF ReportInv

LEMMA ReportInvStep == ReportInv /\ [Next]_vars => ReportInv'
  <1> SUFFICES ASSUME ReportInv, [Next]_vars PROVE ReportInv'
    OBVIOUS
  <1>0. TypeOK /\ TypeOK' /\ \A d \in Deploy : Sound(d)
    BY NextType DEF ReportInv
  <1>1. ASSUME NEW d \in Deploy, Start(d) \/ BotStep(d), NEW e \in Deploy
        PROVE  Sound(e)'
    <2>1. CASE e = d
      BY <1>0, <1>1, <2>1, BotStepSound
    <2>2. CASE e # d
      BY <1>0, <1>1, <2>2, BotStepSound, OwnStep, OthersSound
    <2> QED
      BY <2>1, <2>2
  <1>2. ASSUME (People \/ CI) /\ UNCHANGED botVars, NEW e \in Deploy
        PROVE  Sound(e)'
    BY <1>0, <1>2, PeopleKeep, OthersSound DEF Sound, botVars
  <1>3. ASSUME UNCHANGED vars, NEW e \in Deploy PROVE Sound(e)'
    BY <1>0, <1>3, KeepsUnchanged, OthersSound DEF vars, githubVars, botVars
  <1> QED
    BY <1>0, <1>1, <1>2, <1>3 DEF ReportInv, Next

\* What EnvDeployWorkflow returns about its pull request is true and stays
\* true until the deployment runs again, whatever attempts fail or lose their
\* answer and whatever people do meanwhile (env_deploy.go:68-203).
THEOREM ReportsAreTrue == Spec => []ReportTruth
  <1>1. ReportInv => ReportTruth
    BY DEF ReportInv, Sound, Reported, ReportTruth
  <1> QED
    BY <1>1, ReportInvInit, ReportInvStep, PTL DEF Spec

\* titlis-api is told that a remediation started or completed only after the
\* fact (env_deploy.go:149-165, 190-200).
THEOREM EventsAreTrue == Spec => []ToldTruth
  <1>1. ReportInv => ToldTruth
    BY DEF ReportInv, Sound, Told, ToldTruth
  <1> QED
    BY <1>1, ReportInvInit, ReportInvStep, PTL DEF Spec

-----------------------------------------------------------------------------
(* The contract.                                                           *)

\* A run waits for checks, merges and completes only if it was asked to merge.
AutoInv == \A d \in Deploy : pc[d] \in {"wait", "poll", "merge", "completed"} => auto[d]

\* How the latest pull requests may change in a step.
LatestStays       == \A e \in Deploy : Latest(e)' = Latest(e)
LatestMoves(d, v) == Latest(d)' = v /\ \A e \in Deploy \ {d} : Latest(e)' = Latest(e)

\* The run of d goes on.
GoesOn(d) ==
  /\ pc[d] # "idle"
  /\ \E q \in Step : pc' = [pc EXCEPT ![d] = q]
  /\ UNCHANGED <<auto, out>>

\* What of the service's variables is unchanged leaves the contract's alone.
LEMMA Stays ==
  ASSUME LatestStays
  PROVE  [d \in Deploy |-> Latest(d)]' = [d \in Deploy |-> Latest(d)]
BY DEF LatestStays

LEMMA Moves ==
  ASSUME NEW d \in Deploy, NEW v, LatestMoves(d, v)
  PROVE  [e \in Deploy |-> Latest(e)]' = [[e \in Deploy |-> Latest(e)] EXCEPT ![d] = v]
BY DEF LatestMoves

\* A run that goes on changes nothing that its callers see but its pull request.
LEMMA GoesOnMaps ==
  ASSUME TypeOK, NEW d \in Deploy, GoesOn(d)
  PROVE  /\ LatestStays => UNCHANGED Contract!contractVars
         /\ Latest(d) # "open" /\ LatestMoves(d, "open") => Contract!Open(d)
         /\ \A v : Latest(d) = "open" /\ LatestMoves(d, v) => Contract!Settle(d, v)
<1>1. /\ [e \in Deploy |-> pc[e] # "idle"]' = [e \in Deploy |-> pc[e] # "idle"]
      /\ [e \in Deploy |-> out[e].status]' = [e \in Deploy |-> out[e].status]
      /\ auto' = auto
  BY DEF GoesOn, TypeOK, BotTypeOK, Step
<1>2. pc[d] # "idle"
  BY DEF GoesOn
<1>3. LatestStays => UNCHANGED Contract!contractVars
  BY <1>1, Stays DEF Contract!contractVars
<1>4. ASSUME Latest(d) # "open", LatestMoves(d, "open") PROVE Contract!Open(d)
  BY <1>1, <1>2, <1>4, Moves DEF Contract!Open
<1>5. ASSUME NEW v, Latest(d) = "open", LatestMoves(d, v) PROVE Contract!Settle(d, v)
  BY <1>1, <1>2, <1>5, Moves DEF Contract!Settle
<1> QED
  BY <1>3, <1>4, <1>5

\* A run that ends reports, with what it does last in the same step.
LEMMA ReturnMaps ==
  ASSUME TypeOK, NEW d \in Deploy, pc[d] # "idle", NEW status, NEW n, Return(d, status, n)
  PROVE  /\ LatestStays /\ Contract!Truthful(d, status) => Contract!Report(d, status)
         /\ Latest(d) # "open" /\ LatestMoves(d, "open") /\ status = "failed"
              => Contract!OpenAndFail(d)
         /\ Latest(d) = "open" /\ LatestMoves(d, "merged") /\ auto[d]
              /\ status = "awaiting_human" => Contract!MergeAndGiveUp(d)
<1>1. /\ [e \in Deploy |-> pc[e] # "idle"]' = [[e \in Deploy |-> pc[e] # "idle"] EXCEPT ![d] = FALSE]
      /\ [e \in Deploy |-> out[e].status]' = [[e \in Deploy |-> out[e].status] EXCEPT ![d] = status]
      /\ auto' = [auto EXCEPT ![d] = FALSE]
  BY DEF Return, TypeOK, BotTypeOK
<1>2. ASSUME LatestStays, Contract!Truthful(d, status) PROVE Contract!Report(d, status)
  BY <1>1, <1>2, Stays DEF Contract!Report
<1>3. ASSUME Latest(d) # "open", LatestMoves(d, "open"), status = "failed"
      PROVE  Contract!OpenAndFail(d)
  BY <1>1, <1>3, Moves DEF Contract!OpenAndFail
<1>4. ASSUME Latest(d) = "open", LatestMoves(d, "merged"), auto[d], status = "awaiting_human"
      PROVE  Contract!MergeAndGiveUp(d)
  BY <1>1, <1>4, Moves DEF Contract!MergeAndGiveUp
<1> QED
  BY <1>2, <1>3, <1>4

\* What the calls that move pull requests do to the latest one.
LEMMA LatestEffects ==
  ASSUME TypeOK, NEW d \in Deploy, Held(d)
  PROVE  /\ prs' = prs => LatestStays
         /\ CreatePR(d) => Latest(d) # "open" /\ LatestMoves(d, "open")
         /\ \A n \in OpenPRs(d), v \in {"merged", "closed"} :
              prs' = [prs EXCEPT ![d][n] = v] => Latest(d) = "open" /\ LatestMoves(d, v)
<1>0. prs[d] \in Seq(PRState) /\ DOMAIN prs = Deploy
  BY DEF TypeOK, GitHubTypeOK
<1>1. ASSUME NEW e \in Deploy, prs'[e] = prs[e] PROVE Latest(e)' = Latest(e)
  BY <1>1 DEF Latest
<1>2. ASSUME CreatePR(d) PROVE Latest(d) # "open" /\ LatestMoves(d, "open")
  <2>1. Latest(d) # "open"
    BY <1>0, <1>2 DEF CreatePR, OpenPRs, Latest
  <2>2. \A e \in Deploy \ {d} : prs'[e] = prs[e]
    BY <1>0, <1>2 DEF CreatePR
  <2> QED
    BY <1>1, <1>2, <2>1, <2>2, CreatePREffect DEF LatestMoves
<1>3. ASSUME NEW n \in OpenPRs(d), NEW v \in {"merged", "closed"},
             prs' = [prs EXCEPT ![d][n] = v]
      PROVE  Latest(d) = "open" /\ LatestMoves(d, v)
  <2>1. Latest(d) = "open"
    BY <1>0 DEF Held, OpenPRs, Latest
  <2>2. \A e \in Deploy \ {d} : prs'[e] = prs[e]
    BY <1>0, <1>3
  <2> QED
    BY <1>1, <1>3, <2>1, <2>2, KeepsSettled DEF LatestMoves
<1> QED
  BY <1>1, <1>2, <1>3 DEF LatestStays

\* A step that the contract allows, or that its callers do not see.
Allowed == Contract!ContractNext \/ UNCHANGED Contract!contractVars

LEMMA ActionsAllowed ==
  ASSUME NEW d \in Deploy,
         \/ \E merging \in BOOLEAN : Contract!Begin(d, merging)
         \/ Contract!Open(d) \/ Contract!OpenAndFail(d) \/ Contract!MergeAndGiveUp(d)
         \/ \E v \in Contract!Verdict : Contract!Report(d, v)
         \/ \E state \in {"merged", "closed"} : Contract!Settle(d, state)
  PROVE  Allowed
BY DEF Allowed, Contract!ContractNext

\* The ways in which a step lets the run go on.
LEMMA WaysOn ==
  ASSUME TypeOK, NEW d \in Deploy, pc[d] # "idle", NEW q \in Step
  PROVE  /\ Goto(d, q) => GoesOn(d)
         /\ Retry(d, q) => GoesOn(d)
         /\ \A n : Holds(d, n) => GoesOn(d)
         /\ pc' = [pc EXCEPT ![d] = q] /\ UNCHANGED <<auto, out>> => GoesOn(d)
BY DEF Goto, Retry, Holds, GoesOn, Step

\* An attempt that fails without effect.
LEMMA FailsAllowed ==
  ASSUME TypeOK, NEW d \in Deploy, Sound(d), AutoInv, NEW again \in Step,
         NEW status \in {"failed", "awaiting_human"}, Fails(d, again, status),
         pc[d] # "idle", prs' = prs,
         status = "awaiting_human" => pc[d] \in {"wait", "poll", "merge"}
  PROVE  Allowed
<1>1. LatestStays
  BY LatestEffects DEF Sound
<1>2. CASE Retry(d, again)
  BY <1>1, <1>2, WaysOn, GoesOnMaps DEF Allowed
<1>3. CASE Return(d, status, loc[d].pr)
  <2>1. Contract!Truthful(d, status) /\ status \in Contract!Verdict
    BY DEF Contract!Truthful, Contract!Verdict, AutoInv, Sound, Held, Holding
  <2> QED
    BY <1>1, <1>3, <2>1, ReturnMaps, ActionsAllowed
<1> QED
  BY <1>2, <1>3 DEF Fails

\* Every step of a run is one that the contract allows.
LEMMA BotStepAllowed ==
  ASSUME TypeOK, NEW d \in Deploy, Sound(d), AutoInv, Start(d) \/ BotStep(d)
  PROVE  Allowed
<1>s. Held(d) /\ (prs' = prs => LatestStays)
  BY LatestEffects DEF Sound
<1>u. UNCHANGED githubVars => prs' = prs
  BY DEF githubVars
<1>g. GoesOn(d) /\ prs' = prs => Allowed
  BY <1>s, GoesOnMaps DEF Allowed
<1>a. pc[d] \in {"wait", "poll", "merge", "completed"} => auto[d]
  BY DEF AutoInv
<1>1. CASE Start(d)
  <2>1. PICK merging \in BOOLEAN : auto' = [auto EXCEPT ![d] = merging]
    BY <1>1 DEF Start
  <2>2. /\ pc[d] = "idle"
        /\ [e \in Deploy |-> pc[e] # "idle"]' = [[e \in Deploy |-> pc[e] # "idle"] EXCEPT ![d] = TRUE]
        /\ [e \in Deploy |-> out[e].status]' = [[e \in Deploy |-> out[e].status] EXCEPT ![d] = "none"]
    BY <1>1 DEF Start, TypeOK, BotTypeOK, NoResult
  <2>3. LatestStays
    BY <1>1, <1>s, <1>u DEF Start
  <2>4. Contract!Begin(d, merging)
    BY <2>1, <2>2, <2>3, Stays DEF Contract!Begin
  <2> QED
    BY <2>4, ActionsAllowed
<1>2. CASE FindOpenPR(d)
  <2>0. prs' = prs /\ pc[d] # "idle"
    BY <1>2, <1>u DEF FindOpenPR
  <2>1. ASSUME NEW n \in OpenPRs(d), Return(d, "pr_open", n) PROVE Allowed
    <3>1. Latest(d) # "absent"
      <4>1. prs[d] \in Seq(PRState) /\ n = Len(prs[d]) /\ prs[d] # << >>
        BY <1>s DEF Held, OpenPRs, TypeOK, GitHubTypeOK
      <4> QED
        BY <4>1 DEF Latest, OpenPRs
    <3>2. Contract!Truthful(d, "pr_open") /\ "pr_open" \in Contract!Verdict
      BY <3>1 DEF Contract!Truthful, Contract!Verdict
    <3> QED
      BY <1>s, <2>0, <2>1, <3>2, ReturnMaps, ActionsAllowed
  <2>2. CASE Retry(d, "find") \/ Goto(d, "fetch")
    BY <1>g, <2>0, <2>2, WaysOn DEF Step
  <2> QED
    BY <1>2, <2>1, <2>2 DEF FindOpenPR
<1>3. CASE FetchManifest(d)
  BY <1>3, <1>g, <1>u, WaysOn, FailsAllowed DEF FetchManifest, Step
<1>4. CASE Patch(d)
  BY <1>4, <1>g, <1>u, WaysOn, FailsAllowed DEF Patch, Step
<1>5. CASE ValidatePatch(d)
  BY <1>5, <1>g, <1>u, WaysOn, FailsAllowed DEF ValidatePatch, Step
<1>6. CASE CreateBranch(d)
  <2>1. prs' = prs
    BY <1>6, <1>u DEF CreateBranch, CreateRef
  <2> QED
    BY <1>6, <1>g, <2>1, WaysOn, FailsAllowed DEF CreateBranch, Step
<1>7. CASE CommitFile(d)
  <2>1. prs' = prs
    BY <1>7, <1>u DEF CommitFile, PutFile
  <2> QED
    BY <1>7, <1>g, <2>1, WaysOn, FailsAllowed DEF CommitFile, Step
<1>8. CASE OpenPR(d)
  <2>0. pc[d] = "open"
    BY <1>8 DEF OpenPR
  <2>1. CASE CreatePR(d) /\ (Holds(d, Len(prs[d]) + 1) \/ Retry(d, "open"))
    <3>1. GoesOn(d)
      BY <2>0, <2>1, WaysOn DEF Step
    <3> QED
      BY <1>s, <2>1, <3>1, LatestEffects, GoesOnMaps, ActionsAllowed
  <2>2. CASE CreatePR(d) /\ Return(d, "failed", loc[d].pr)
    BY <1>s, <2>0, <2>2, LatestEffects, ReturnMaps, ActionsAllowed
  <2>3. CASE UNCHANGED githubVars /\ pc' = [pc EXCEPT ![d] = "adopt"] /\ UNCHANGED <<auto, out>>
    BY <1>g, <1>u, <2>0, <2>3, WaysOn DEF Step
  <2>4. CASE UNCHANGED githubVars /\ Fails(d, "open", "failed")
    BY <1>u, <2>0, <2>4, FailsAllowed DEF Step
  <2> QED
    BY <1>8, <2>1, <2>2, <2>3, <2>4 DEF OpenPR, Fails
<1>9. CASE AdoptPR(d)
  BY <1>9, <1>g, <1>u, WaysOn, FailsAllowed DEF AdoptPR, Step
<1>10. CASE NotifyStarted(d)
  <2>0. prs' = prs /\ pc[d] = "started"
    BY <1>10, <1>u DEF NotifyStarted, Notify
  <2>1. CASE Retry(d, "started") \/ Goto(d, "wait")
    BY <1>g, <2>0, <2>1, WaysOn DEF Step
  <2>2. CASE Return(d, "pr_open", loc[d].pr)
    <3>1. Contract!Truthful(d, "pr_open") /\ "pr_open" \in Contract!Verdict
      BY <1>s, <2>0 DEF Contract!Truthful, Contract!Verdict, Held, Holding
    <3> QED
      BY <1>s, <2>0, <2>2, <3>1, ReturnMaps, ActionsAllowed
  <2> QED
    BY <1>10, <2>1, <2>2 DEF NotifyStarted, Notify
<1>11. CASE WaitChecks(d)
  BY <1>11, <1>g, <1>u, WaysOn, FailsAllowed DEF WaitChecks, Step
<1>12. CASE PollChecks(d)
  <2>0. prs' = prs /\ pc[d] = "poll"
    BY <1>12, <1>u DEF PollChecks
  <2>1. CASE Goto(d, "merge")
    BY <1>g, <2>0, <2>1, WaysOn DEF Step
  <2>2. CASE Return(d, "awaiting_human", loc[d].pr)
    <3>1. Contract!Truthful(d, "awaiting_human") /\ "awaiting_human" \in Contract!Verdict
      BY <1>a, <1>s, <2>0 DEF Contract!Truthful, Contract!Verdict, Held, Holding
    <3> QED
      BY <1>s, <2>0, <2>2, <3>1, ReturnMaps, ActionsAllowed
  <2>3. CASE Fails(d, "wait", "awaiting_human")
    BY <2>0, <2>3, FailsAllowed DEF Step
  <2> QED
    BY <1>12, <2>1, <2>2, <2>3 DEF PollChecks
<1>13. CASE MergePR(d)
  <2>0. pc[d] = "merge" /\ auto[d]
    BY <1>13, <1>a DEF MergePR
  <2>1. Merge(d, loc[d].pr) => Latest(d) = "open" /\ LatestMoves(d, "merged")
    BY <1>s, LatestEffects DEF Merge
  <2>2. CASE Merge(d, loc[d].pr) /\ (Goto(d, "completed") \/ Retry(d, "merge"))
    <3>1. GoesOn(d)
      BY <2>0, <2>2, WaysOn DEF Step
    <3> QED
      BY <2>1, <2>2, <3>1, GoesOnMaps, ActionsAllowed
  <2>3. CASE Merge(d, loc[d].pr) /\ Return(d, "awaiting_human", loc[d].pr)
    BY <2>0, <2>1, <2>3, ReturnMaps, ActionsAllowed
  <2>4. CASE UNCHANGED githubVars /\ Fails(d, "merge", "awaiting_human")
    BY <1>u, <2>0, <2>4, FailsAllowed DEF Step
  <2> QED
    BY <1>13, <2>2, <2>3, <2>4 DEF MergePR, Fails
<1>14. CASE NotifyCompleted(d)
  <2>0. prs' = prs /\ pc[d] = "completed"
    BY <1>14, <1>u DEF NotifyCompleted, Notify
  <2>1. CASE Retry(d, "completed")
    BY <1>g, <2>0, <2>1, WaysOn DEF Step
  <2>2. CASE Return(d, "merged", loc[d].pr)
    <3>1. Contract!Truthful(d, "merged") /\ "merged" \in Contract!Verdict
      BY <1>a, <1>s, <2>0 DEF Contract!Truthful, Contract!Verdict, Held, Holding
    <3> QED
      BY <1>s, <2>0, <2>2, <3>1, ReturnMaps, ActionsAllowed
  <2> QED
    BY <1>14, <2>1, <2>2 DEF NotifyCompleted, Notify
<1> QED
  BY <1>1, <1>2, <1>3, <1>4, <1>5, <1>6, <1>7, <1>8, <1>9, <1>10, <1>11,
     <1>12, <1>13, <1>14 DEF BotStep

\* People settle pull requests, CI does not touch them; neither touches runs.
LEMMA PeopleAllowed ==
  ASSUME TypeOK, \A d \in Deploy : Sound(d), People \/ CI, UNCHANGED botVars
  PROVE  Allowed
<1>0. /\ [e \in Deploy |-> pc[e] # "idle"]' = [e \in Deploy |-> pc[e] # "idle"]
      /\ [e \in Deploy |-> out[e].status]' = [e \in Deploy |-> out[e].status]
      /\ auto' = auto
  BY DEF botVars
<1>1. LatestStays => Allowed
  BY <1>0, Stays DEF Allowed, Contract!contractVars
<1>2. ASSUME NEW d \in Deploy, NEW v \in {"merged", "closed"}, Latest(d) = "open",
             LatestMoves(d, v)
      PROVE  Allowed
  <2>1. Contract!Settle(d, v)
    BY <1>0, <1>2, Moves DEF Contract!Settle
  <2> QED
    BY <2>1, ActionsAllowed
<1>3. CASE prs' = prs
  <2>1. LatestStays
    BY <1>3 DEF LatestStays, Latest
  <2> QED
    BY <1>1, <2>1
<1>4. ASSUME NEW d \in Deploy, MergeByHand(d) \/ CloseByHand(d) PROVE Allowed
  BY <1>2, <1>4, LatestEffects DEF Sound, MergeByHand, Merge, CloseByHand
<1>5. ASSUME NEW d \in Deploy, DeleteBranch(d) PROVE Allowed
  <2>0. prs[d] \in Seq(PRState) /\ DOMAIN prs = Deploy
    BY DEF TypeOK, GitHubTypeOK
  <2>1. prs'[d] = [n \in DOMAIN prs[d] |-> IF prs[d][n] = "open" THEN "closed" ELSE prs[d][n]]
    BY <1>5, <2>0 DEF DeleteBranch
  <2>2. Latest(d)' = IF Latest(d) = "open" THEN "closed" ELSE Latest(d)
    <3>1. CASE prs[d] = << >>
      <4>1. prs'[d] = << >>
        BY <2>1, <3>1
      <4> QED
        BY <3>1, <4>1 DEF Latest
    <3>2. CASE prs[d] # << >>
      <4>1. Len(prs[d]) \in DOMAIN prs[d] /\ Len(prs'[d]) = Len(prs[d]) /\ prs'[d] # << >>
        BY <2>0, <2>1, <3>2
      <4> QED
        BY <2>1, <3>2, <4>1 DEF Latest
    <3> QED
      BY <3>1, <3>2
  <2>3. \A e \in Deploy \ {d} : Latest(e)' = Latest(e)
    BY <1>5, <2>0 DEF DeleteBranch, Latest
  <2> QED
    BY <1>1, <1>2, <2>2, <2>3 DEF LatestMoves, LatestStays
<1> QED
  BY <1>3, <1>4, <1>5
     DEF People, CI, EditBase, PushBranch, PutFile, CIRegister, CIFinish, CIMoves

\* A step of a run keeps AutoInv.
LEMMA AutoStep ==
  ASSUME TypeOK, AutoInv, [Next]_vars
  PROVE  AutoInv'
<1> USE DEF TypeOK, BotTypeOK
<1>1. ASSUME NEW d \in Deploy, Start(d) \/ BotStep(d) PROVE AutoInv'
  <2>1. ASSUME NEW e \in Deploy \ {d} PROVE pc'[e] = pc[e] /\ auto'[e] = auto[e]
    BY <1>1 DEF Start, BotStep, FindOpenPR, FetchManifest, Patch, ValidatePatch,
       CreateBranch, CommitFile, OpenPR, AdoptPR, NotifyStarted, WaitChecks, PollChecks,
       MergePR, NotifyCompleted, Notify, Holds, Fails, Retry, Return, Goto
  <2>2. pc'[d] \in {"wait", "poll", "merge", "completed"} => auto'[d]
    BY <1>1 DEF AutoInv, Start, BotStep, FindOpenPR, FetchManifest, Patch, ValidatePatch,
       CreateBranch, CommitFile, OpenPR, AdoptPR, NotifyStarted, WaitChecks, PollChecks,
       MergePR, NotifyCompleted, Notify, Holds, Fails, Retry, Return, Goto
  <2> QED
    BY <2>1, <2>2 DEF AutoInv
<1>2. UNCHANGED botVars => AutoInv'
  BY DEF AutoInv, botVars
<1> QED
  BY <1>1, <1>2 DEF Next, vars

\* What EnvDeployWorkflow does is what its callers are promised, for any number
\* of deployments: its initial states and every step of it, of people and of CI
\* are the contract's, or are not seen by callers (env_deploy.go:68-203).
THEOREM ContractKept == Spec => KeepsContract
<1> DEFINE Inv == ReportInv /\ AutoInv
<1>1. Init => Inv /\ Contract!ContractInit
  <2> SUFFICES ASSUME Init PROVE Inv /\ Contract!ContractInit
    OBVIOUS
  <2>1. Inv
    BY ReportInvInit DEF AutoInv, Init
  <2>2. Contract!ContractInit
    BY DEF Init, GitHubInit, NoResult, Latest, Contract!ContractInit
  <2> QED
    BY <2>1, <2>2
<1>2. Inv /\ [Next]_vars => Inv'
  BY ReportInvStep, AutoStep DEF ReportInv
<1>3. Inv /\ [Next]_vars => [Contract!ContractNext]_(Contract!contractVars)
  <2> SUFFICES ASSUME Inv, [Next]_vars PROVE Allowed
    BY DEF Allowed
  <2>1. CASE UNCHANGED vars
    <3>1. LatestStays /\ UNCHANGED <<pc, auto, out>>
      BY <2>1 DEF vars, githubVars, botVars, LatestStays, Latest
    <3> QED
      BY <3>1, Stays DEF Allowed, Contract!contractVars
  <2> QED
    BY <2>1, BotStepAllowed, PeopleAllowed DEF ReportInv, Next
<1> HIDE DEF Inv
<1> QED
  BY <1>1, <1>2, <1>3, PTL DEF Spec, KeepsContract, Contract!ContractSpec

-----------------------------------------------------------------------------
(* Answered: what the bot merges.                                          *)

\* Where a run has committed its manifest.
Committed == {"open", "adopt"} \cup Holding

\* The commit a run asks about is one whose check runs are remembered, and it had
\* been told that they passed when it went on to merge; and as long as the bot's
\* commit is the head, the branch holds the manifest that the run committed.
Answered(d) ==
  /\ pc[d] \in Committed =>
       /\ ci[d] # << >>
       /\ branch[d].exists /\ Len(ci[d]) = 1 => branch[d].content = loc[d].patched
  /\ pc[d] \in {"poll", "merge"} => loc[d].asked \in DOMAIN ci[d]
  /\ pc[d] = "merge" => Passes(loc[d].checks)

\* A step of one deployment leaves what the service has for the others alone, the
\* manifests aside.
LEMMA OwnService ==
  ASSUME TypeOK, NEW d \in Deploy, Start(d) \/ BotStep(d), NEW e \in Deploy \ {d}
  PROVE  branch'[e] = branch[e] /\ ci'[e] = ci[e] /\ prs'[e] = prs[e]
<1>1. /\ UNCHANGED githubVars => branch' = branch /\ ci' = ci /\ prs' = prs
      /\ CreateRef(d) => branch'[e] = branch[e] /\ ci' = ci /\ prs' = prs
      /\ \A c : PutFile(d, c, << >>) => branch'[e] = branch[e] /\ ci'[e] = ci[e] /\ prs' = prs
      /\ CreatePR(d) => branch' = branch /\ ci' = ci /\ prs'[e] = prs[e]
      /\ \A n : Merge(d, n) => branch' = branch /\ ci' = ci /\ prs'[e] = prs[e]
  BY DEF githubVars, CreateRef, PutFile, CreatePR, Merge, TypeOK, GitHubTypeOK
<1> QED
  BY <1>1 DEF Start, BotStep, FindOpenPR, FetchManifest, Patch, ValidatePatch, CreateBranch,
     CommitFile, OpenPR, AdoptPR, NotifyStarted, WaitChecks, PollChecks, MergePR,
     NotifyCompleted, Notify

\* Where the ways an activity can end lead to.
LEMMA Ends ==
  ASSUME TypeOK, NEW d \in Deploy
  PROVE  /\ \A q : Goto(d, q) => pc'[d] = q
         /\ \A q : Retry(d, q) => pc'[d] = q /\ loc'[d] = loc[d]
         /\ \A st, n : Return(d, st, n) => pc'[d] = "idle" /\ loc'[d] = NoLocals
         /\ \A n : Holds(d, n) => pc'[d] = "started" /\ loc'[d] = [loc[d] EXCEPT !.pr = n]
         /\ \A q, st : Fails(d, q, st) => \/ pc'[d] = q /\ loc'[d] = loc[d]
                                          \/ pc'[d] = "idle"
         /\ UNCHANGED loc => loc'[d] = loc[d]
BY DEF Goto, Retry, Return, Holds, Fails, TypeOK, BotTypeOK

LEMMA AnsweredOwn ==
  ASSUME TypeOK, NEW d \in Deploy, Answered(d), Start(d) \/ BotStep(d)
  PROVE  Answered(d)'
<1>t. /\ ci[d] \in Seq(CIState) /\ DOMAIN ci = Deploy /\ DOMAIN loc = Deploy
      /\ loc[d] \in Locals /\ branch[d] \in Branch /\ DOMAIN branch = Deploy
  BY DEF TypeOK, GitHubTypeOK, BotTypeOK
<1>u. UNCHANGED githubVars => ci' = ci /\ branch' = branch
  BY DEF githubVars
<1>e. pc'[d] \notin Committed => Answered(d)'
  BY DEF Answered, Committed, Holding
\* A step after the commit that leaves the branch and its check runs alone.
<1>s. ASSUME ci' = ci, branch' = branch, pc[d] \in Committed,
             loc'[d].patched = loc[d].patched,
             pc'[d] \in {"open", "adopt", "started", "wait", "completed"}
      PROVE  Answered(d)'
  BY <1>s DEF Answered, Committed, Holding
<1>1. CASE Start(d) \/ FindOpenPR(d) \/ FetchManifest(d) \/ Patch(d) \/ ValidatePatch(d)
             \/ CreateBranch(d)
  <2>1. pc'[d] \notin Committed
    BY <1>1, Ends DEF Start, FindOpenPR, FetchManifest, Patch, ValidatePatch, CreateBranch,
                      Committed, Holding, TypeOK, BotTypeOK
  <2> QED
    BY <1>e, <2>1
<1>2. CASE CommitFile(d)
  <2>1. CASE PutFile(d, loc[d].patched, << >>) /\ Goto(d, "open") /\ UNCHANGED loc
    <3>1. ci'[d] # << >> /\ branch'[d].content = loc'[d].patched
      BY <1>t, <2>1 DEF PutFile, Branch
    <3>2. pc'[d] = "open"
      BY <2>1, Ends
    <3> QED
      BY <3>1, <3>2 DEF Answered
  <2>2. CASE Fails(d, "commit", "failed")
    BY <1>e, <2>2, Ends DEF Committed, Holding
  <2> QED
    BY <1>2, <2>1, <2>2 DEF CommitFile
<1>3. CASE OpenPR(d) \/ AdoptPR(d)
  <2>1. ci' = ci /\ branch' = branch /\ pc[d] \in Committed
    BY <1>3, <1>u DEF OpenPR, AdoptPR, CreatePR, Committed
  <2>2. \/ /\ pc'[d] \in {"open", "adopt", "started"}
           /\ loc'[d] = loc[d] \/ \E n : loc'[d] = [loc[d] EXCEPT !.pr = n]
        \/ pc'[d] = "idle"
    BY <1>3, Ends DEF OpenPR, AdoptPR, TypeOK, BotTypeOK
  <2>3. CASE pc'[d] = "idle"
    BY <1>e, <2>3 DEF Committed, Holding
  <2>4. CASE pc'[d] # "idle"
    <3>1. loc'[d].patched = loc[d].patched
      BY <1>t, <2>2, <2>4 DEF Locals
    <3> QED
      BY <1>s, <2>1, <2>2, <2>4, <3>1
  <2> QED
    BY <2>3, <2>4
<1>4. CASE NotifyStarted(d) \/ NotifyCompleted(d)
  <2>1. ci' = ci /\ branch' = branch /\ pc[d] \in Committed
    BY <1>4, <1>u DEF NotifyStarted, NotifyCompleted, Notify, Committed, Holding
  <2>2. \/ pc'[d] \in {"started", "wait", "completed"} /\ loc'[d] = loc[d]
        \/ pc'[d] = "idle"
    BY <1>4, Ends DEF NotifyStarted, NotifyCompleted, Notify
  <2> QED
    BY <1>e, <1>s, <2>1, <2>2 DEF Committed, Holding
<1>5. CASE WaitChecks(d)
  <2>1. ci' = ci /\ branch' = branch /\ pc[d] \in Committed /\ ci[d] # << >>
    BY <1>5, <1>u DEF WaitChecks, Answered, Committed, Holding
  <2>2. CASE pc' = [pc EXCEPT ![d] = "poll"] /\ loc' = [loc EXCEPT ![d].asked = HeadSHA(d)]
    <3>1. pc'[d] = "poll" /\ loc'[d].asked = Len(ci[d]) /\ loc'[d].patched = loc[d].patched
      BY <1>t, <2>2 DEF HeadSHA, TypeOK, BotTypeOK, Locals
    <3>2. Len(ci[d]) \in DOMAIN ci[d]
      BY <1>t, <2>1
    <3> QED
      BY <2>1, <3>1, <3>2 DEF Answered
  <2>3. CASE Fails(d, "wait", "awaiting_human")
    BY <1>e, <1>s, <2>1, <2>3, Ends DEF Committed, Holding
  <2> QED
    BY <1>5, <2>2, <2>3 DEF WaitChecks
<1>6. CASE PollChecks(d)
  <2> DEFINE state == ci[d][loc[d].asked]
  <2>1. /\ ci' = ci /\ branch' = branch /\ pc[d] \in Committed /\ ci[d] # << >>
        /\ loc[d].asked \in DOMAIN ci[d]
    BY <1>6, <1>u DEF PollChecks, Answered, Committed, Holding
  <2>2. CASE /\ Passes(state) /\ Goto(d, "merge")
             /\ loc' = [loc EXCEPT ![d].checks = state]
    <3>1. /\ pc'[d] = "merge" /\ loc'[d].asked = loc[d].asked
          /\ loc'[d].patched = loc[d].patched /\ loc'[d].checks = state
      BY <1>t, <2>2, Ends DEF Locals
    <3>2. Passes(loc'[d].checks)
      BY <2>2, <3>1
    <3> QED
      BY <2>1, <3>1, <3>2 DEF Answered, Passes
  <2>3. CASE Return(d, "awaiting_human", loc[d].pr) \/ Fails(d, "wait", "awaiting_human")
    BY <1>e, <1>s, <2>1, <2>3, Ends DEF Committed, Holding
  <2> QED
    BY <1>6, <2>2, <2>3 DEF PollChecks
<1>7. CASE MergePR(d)
  <2>1. ci' = ci /\ branch' = branch /\ pc[d] = "merge" /\ pc[d] \in Committed
    BY <1>7, <1>u DEF MergePR, Merge, Committed, Holding
  <2>2. \/ pc'[d] \in {"completed", "merge"} /\ loc'[d] = loc[d]
        \/ pc'[d] = "idle"
    BY <1>7, Ends DEF MergePR
  <2>3. CASE pc'[d] = "merge" /\ loc'[d] = loc[d]
    BY <2>1, <2>3 DEF Answered, Passes
  <2> QED
    BY <1>e, <1>s, <2>1, <2>2, <2>3 DEF Committed, Holding
<1> QED
  BY <1>1, <1>2, <1>3, <1>4, <1>5, <1>6, <1>7 DEF BotStep

\* People push commits on top or delete the branch, and CI moves on.
LEMMA AnsweredOthers ==
  ASSUME TypeOK, NEW e \in Deploy, Answered(e), People \/ CI, UNCHANGED botVars
  PROVE  Answered(e)'
<1>t. /\ ci[e] \in Seq(CIState) /\ DOMAIN ci = Deploy /\ DOMAIN branch = Deploy
      /\ branch[e] \in Branch
  BY DEF TypeOK, GitHubTypeOK
<1>b. pc' = pc /\ loc' = loc
  BY DEF botVars
<1>1. CASE ci'[e] = ci[e] /\ branch'[e] = branch[e]
  BY <1>1, <1>b DEF Answered, Passes
<1>2. ASSUME NEW c, ci'[e] = Append(ci[e], c) PROVE Answered(e)'
  <2>1. /\ ci'[e] # << >> /\ DOMAIN ci[e] \subseteq DOMAIN ci'[e]
        /\ ci[e] # << >> => Len(ci'[e]) # 1
    BY <1>2, <1>t
  <2> QED
    BY <1>b, <2>1 DEF Answered, Passes, Committed, Holding
<1>3. ASSUME NEW s \in DOMAIN ci[e], NEW v, ci'[e] = [ci[e] EXCEPT ![s] = v],
             branch' = branch
      PROVE  Answered(e)'
  <2>1. /\ DOMAIN ci[e] = DOMAIN ci'[e] /\ (ci[e] # << >> => ci'[e] # << >>)
        /\ Len(ci'[e]) = Len(ci[e])
    BY <1>3, <1>t
  <2> QED
    BY <1>b, <1>3, <2>1 DEF Answered, Passes, Committed, Holding
<1>4. CASE CI
  <2>1. PICK d \in Deploy : \E s \in DOMAIN ci[d], v \in CIState :
                                 ci' = [ci EXCEPT ![d][s] = v] /\ branch' = branch
    BY <1>4 DEF CI, CIRegister, CIFinish, CIMoves, CIState
  <2>2. CASE d = e
    BY <1>3, <1>t, <2>1, <2>2
  <2>3. CASE d # e
    BY <1>1, <1>t, <2>1, <2>3
  <2> QED
    BY <2>2, <2>3
<1>5. ASSUME NEW d \in Deploy, PushBranch(d) PROVE Answered(e)'
  <2>1. /\ ci' = [ci EXCEPT ![d] = Append(ci[d], "none")]
        /\ d # e => branch'[e] = branch[e]
    BY <1>5, <1>t DEF PushBranch, PutFile
  <2>2. CASE d = e
    BY <1>2, <1>t, <2>1, <2>2
  <2>3. CASE d # e
    BY <1>1, <1>t, <2>1, <2>3
  <2> QED
    BY <2>2, <2>3
<1>6. ASSUME NEW d \in Deploy, DeleteBranch(d) PROVE Answered(e)'
  <2>1. ci' = ci /\ (~branch'[e].exists \/ branch'[e] = branch[e])
    BY <1>6, <1>t DEF DeleteBranch
  <2> QED
    BY <1>b, <2>1 DEF Answered, Passes
<1>7. ASSUME ci' = ci, branch' = branch PROVE Answered(e)'
  BY <1>1, <1>7
<1> QED
  BY <1>4, <1>5, <1>6, <1>7 DEF People, MergeByHand, Merge, CloseByHand, EditBase

\* No step spoils what a run knows of its check runs and of its commit.
LEMMA AnsweredStep ==
  ASSUME TypeOK, \A d \in Deploy : Answered(d), [Next]_vars
  PROVE  \A d \in Deploy : Answered(d)'
<1>1. ASSUME NEW d \in Deploy, Start(d) \/ BotStep(d), NEW e \in Deploy PROVE Answered(e)'
  <2>1. CASE e \in Deploy \ {d}
    <3>1. pc'[e] = pc[e] /\ loc'[e] = loc[e]
      BY <1>1, <2>1, OwnStep
    <3>2. ci'[e] = ci[e] /\ branch'[e] = branch[e]
      BY <1>1, <2>1, OwnService
    <3> QED
      BY <3>1, <3>2 DEF Answered, Passes
  <2>2. CASE e = d
    BY <1>1, <2>2, AnsweredOwn
  <2> QED
    BY <2>1, <2>2
<1>2. CASE UNCHANGED vars
  BY <1>2 DEF Answered, Passes, vars, githubVars, botVars
<1> QED
  BY <1>1, <1>2, AnsweredOthers DEF Next

\* A merge by the bot is the MergePR of the run itself, of a branch that exists.
LEMMA BotMergesOwn ==
  ASSUME TypeOK, [Next]_vars, NEW d \in Deploy, BotMerges(d)
  PROVE  branch[d].exists
<1>1. PICK e \in Deploy : Start(e) \/ BotStep(e)
  BY DEF Next, BotMerges, botVars, vars
<1>2. e = d
  BY <1>1, OwnService DEF BotMerges
<1>3. MergePR(d)
  BY <1>1, <1>2 DEF BotMerges, Start, BotStep, FindOpenPR, FetchManifest, Patch,
     ValidatePatch, CreateBranch, CommitFile, OpenPR, AdoptPR, NotifyStarted, WaitChecks,
     PollChecks, NotifyCompleted, Notify
<1> QED
  BY <1>3 DEF BotMerges, MergePR, Merge, Mergeable, githubVars

\* The bot merges only for a run that is to merge, after an answer that the checks
\* had passed of a commit that was the head during the run, and exactly the manifest
\* the run validated unless somebody pushed on top of the bot's commit; whatever
\* was retried, pushed or deleted, and for any number of deployments
\* (env_deploy.go:104-192, client.go:302-351).
THEOREM MergesWhatWasAsked == Spec => MergesAsAnswered
<1> DEFINE Inv   == ReportInv /\ AutoInv /\ \A d \in Deploy : Answered(d)
           Asked == \A d \in Deploy : BotMerges(d) =>
                      /\ auto[d]
                      /\ loc[d].asked \in DOMAIN ci[d]
                      /\ loc[d].checks \in {"none", "success", "beyond"}
                      /\ HeadSHA(d) = 1 => branch[d].content = loc[d].patched
<1>1. Init => Inv
  BY ReportInvInit DEF Init, AutoInv, Answered, Committed, Holding
<1>2. Inv /\ [Next]_vars => Inv'
  BY ReportInvStep, AutoStep, AnsweredStep DEF ReportInv
<1>3. ASSUME Inv, [Next]_vars, NEW d \in Deploy, BotMerges(d)
      PROVE  /\ auto[d]
             /\ loc[d].asked \in DOMAIN ci[d]
             /\ loc[d].checks \in {"none", "success", "beyond"}
             /\ HeadSHA(d) = 1 => branch[d].content = loc[d].patched
  <2>1. pc[d] = "merge" /\ pc[d] \in Committed
    BY <1>3 DEF BotMerges, Committed, Holding
  <2>2. branch[d].exists
    BY <1>3, BotMergesOwn DEF ReportInv
  <2> QED
    BY <1>3, <2>1, <2>2 DEF AutoInv, Answered, Passes, HeadSHA
<1>4. Inv /\ [Next]_vars => [Asked]_vars
  BY <1>3
<1> HIDE DEF Inv
<1> QED
  BY <1>1, <1>2, <1>4, PTL DEF Spec, MergesAsAnswered

-----------------------------------------------------------------------------
(* Raises: what becomes of the manifests.                                  *)

\* Of a manifest that d alone works on: no branch holds less than it forked from,
\* nor is the base below that; and what a run is to commit is no less either,
\* whether the branch is there already or will be made.
Raises(d) ==
  meddled = 0 /\ OneDeployment(FileOf[d]) =>
    /\ branch[d].exists => /\ branch[d].fork <= branch[d].content
                           /\ branch[d].fork <= base[FileOf[d]]
    /\ pc[d] \in {"patch", "validate", "branch", "commit"} =>
         IF branch[d].exists THEN branch[d].fork <= loc[d].current
                             ELSE base[FileOf[d]] = loc[d].current
    /\ pc[d] \in {"branch", "commit"} => loc[d].current <= loc[d].patched

\* What of a deployment decides whether it raises.
LEMMA RaisesKept ==
  ASSUME NEW e \in Deploy, Raises(e), meddled' = 0 => meddled = 0,
         base'[FileOf[e]] = base[FileOf[e]], UNCHANGED <<branch[e], pc[e], loc[e]>>
  PROVE  Raises(e)'
BY DEF Raises, OneDeployment

\* A merge leaves at least what there was, in a file that one deployment works on.
LEMMA MergeRaises ==
  ASSUME TypeOK, NEW d \in Deploy, Raises(d), NEW n, Merge(d, n), meddled = 0,
         NEW f \in File, OneDeployment(f)
  PROVE  /\ base'[f] >= base[f]
         /\ f # FileOf[d] => base'[f] = base[f]
         /\ f = FileOf[d] => branch[d].exists /\ branch[d].fork <= base'[f]
<1>0. /\ FileOf[d] \in File /\ branch[d] \in Branch
      /\ base \in [File -> 0..MaxLevel] /\ MaxLevel \in Nat
  BY FileOfAssumption, MaxLevelAssumption DEF TypeOK, GitHubTypeOK, Content
<1>1. base' = [base EXCEPT ![FileOf[d]] = MergedContent(d)] /\ branch[d].exists
  BY DEF Merge, Mergeable
<1>2. CASE f # FileOf[d]
  BY <1>0, <1>1, <1>2
<1>3. CASE f = FileOf[d]
  <2>1. branch[d].fork <= branch[d].content /\ branch[d].fork <= base[f]
    BY <1>1, <1>3 DEF Raises
  <2>2. branch[d].fork \in 0..MaxLevel /\ branch[d].content \in 0..MaxLevel
    BY <1>0 DEF Branch, Content
  <2>3. base'[f] = IF base[f] = branch[d].fork THEN branch[d].content ELSE base[f]
    BY <1>0, <1>1, <1>3 DEF MergedContent
  <2> QED
    BY <1>0, <1>1, <1>3, <2>1, <2>2, <2>3
<1> QED
  BY <1>2, <1>3

LEMMA RaisesOwn ==
  ASSUME TypeOK, NEW d \in Deploy, Raises(d), Start(d) \/ BotStep(d)
  PROVE  Raises(d)' /\ meddled' = meddled
<1>t. /\ FileOf[d] \in File /\ branch[d] \in Branch /\ branch \in [Deploy -> Branch]
      /\ base[FileOf[d]] \in 0..MaxLevel /\ MaxLevel \in Nat
      /\ loc[d] \in Locals /\ loc \in [Deploy -> Locals]
      /\ loc[d].current \in 0..MaxLevel /\ loc[d].patched \in 0..MaxLevel
  BY FileOfAssumption, MaxLevelAssumption
     DEF TypeOK, GitHubTypeOK, BotTypeOK, Content, Locals
<1>u. UNCHANGED githubVars => base' = base /\ branch' = branch /\ meddled' = meddled
  BY DEF githubVars
\* Past the commit and before the manifest is patched, only the branch counts.
<1>p. ASSUME base' = base, branch' = branch, meddled' = meddled,
             pc'[d] \notin {"patch", "validate", "branch", "commit"}
      PROVE  Raises(d)'
  BY <1>p DEF Raises, OneDeployment
\* An activity that is retried or that ends the run.
<1>f. ASSUME base' = base, branch' = branch, meddled' = meddled, NEW st, Fails(d, pc[d], st)
      PROVE  Raises(d)'
  <2>1. (pc'[d] = pc[d] /\ loc'[d] = loc[d]) \/ pc'[d] = "idle"
    BY <1>f, Ends
  <2> QED
    BY <1>f, <1>p, <2>1 DEF Raises, OneDeployment
<1>1. CASE Start(d) \/ FindOpenPR(d)
  <2>1. base' = base /\ branch' = branch /\ meddled' = meddled
    BY <1>1, <1>u DEF Start, FindOpenPR
  <2>2. pc'[d] \notin {"patch", "validate", "branch", "commit"}
    BY <1>1, Ends DEF Start, FindOpenPR, TypeOK, BotTypeOK
  <2> QED
    BY <1>p, <2>1, <2>2
<1>2. CASE FetchManifest(d)
  <2>1. base' = base /\ branch' = branch /\ meddled' = meddled /\ pc[d] = "fetch"
    BY <1>2, <1>u DEF FetchManifest
  <2>2. CASE Goto(d, "patch") /\ loc' = [loc EXCEPT ![d].current = FetchFile(d)]
    <3>1. pc'[d] = "patch" /\ loc'[d].current = base[FileOf[d]]
      BY <1>t, <2>2, Ends DEF FetchFile, Locals
    <3> QED
      BY <2>1, <3>1 DEF Raises, OneDeployment
  <2> QED
    BY <1>2, <1>f, <2>1, <2>2 DEF FetchManifest
<1>3. CASE Patch(d)
  <2>1. base' = base /\ branch' = branch /\ meddled' = meddled /\ pc[d] = "patch"
    BY <1>3, <1>u DEF Patch
  <2>2. ASSUME NEW level \in Content, Goto(d, "validate"),
               loc' = [loc EXCEPT ![d].patched = level]
        PROVE  Raises(d)'
    <3>1. pc'[d] = "validate" /\ loc'[d].current = loc[d].current
      BY <1>t, <2>2, Ends DEF Locals
    <3> QED
      BY <2>1, <3>1 DEF Raises, OneDeployment
  <2> QED
    BY <1>3, <1>f, <2>1, <2>2 DEF Patch
<1>4. CASE ValidatePatch(d)
  <2>1. base' = base /\ branch' = branch /\ meddled' = meddled /\ pc[d] = "validate"
    BY <1>4, <1>u DEF ValidatePatch
  <2>2. CASE /\ ValidateNeverReduce(loc[d].current, loc[d].patched)
             /\ Goto(d, "branch") /\ UNCHANGED loc
    <3>1. pc'[d] = "branch" /\ loc'[d] = loc[d] /\ loc[d].current <= loc[d].patched
      BY <1>t, <2>2, Ends DEF ValidateNeverReduce
    <3> QED
      BY <2>1, <3>1 DEF Raises, OneDeployment
  <2> QED
    BY <1>4, <1>f, <2>1, <2>2 DEF ValidatePatch
<1>5. CASE CreateBranch(d)
  <2>0. base' = base /\ meddled' = meddled /\ pc[d] = "branch"
    BY <1>5, <1>u DEF CreateBranch, CreateRef
  <2>1. \/ pc'[d] \in {"branch", "commit"} /\ loc'[d] = loc[d]
        \/ pc'[d] = "idle"
    BY <1>5, Ends DEF CreateBranch
  <2>2. CASE CreateRef(d)
    <3>1. /\ branch'[d].exists /\ branch'[d].fork = base[FileOf[d]]
          /\ branch'[d].content = base[FileOf[d]] /\ ~branch[d].exists
      BY <1>t, <2>2 DEF CreateRef, FetchFile
    <3> QED
      BY <1>t, <2>0, <2>1, <3>1 DEF Raises, OneDeployment
  <2>3. CASE UNCHANGED githubVars
    BY <1>p, <1>u, <2>0, <2>1, <2>3 DEF Raises, OneDeployment
  <2> QED
    BY <1>5, <2>0, <2>2, <2>3 DEF CreateBranch
<1>6. CASE CommitFile(d)
  <2>0. base' = base /\ meddled' = meddled /\ pc[d] = "commit"
    BY <1>6, <1>u DEF CommitFile, PutFile
  <2>1. CASE PutFile(d, loc[d].patched, << >>)
    <3>1. /\ branch'[d].exists /\ branch'[d].fork = branch[d].fork
          /\ branch'[d].content = loc[d].patched /\ branch[d].exists
      BY <1>t, <2>1 DEF PutFile, Branch
    <3>2. pc'[d] \in {"open", "idle"} \/ (pc'[d] = "commit" /\ loc'[d] = loc[d])
      BY <1>6, Ends DEF CommitFile
    <3>3. branch[d].fork \in 0..MaxLevel
      BY <1>t DEF Branch, Content
    <3> QED
      BY <1>t, <2>0, <3>1, <3>2, <3>3 DEF Raises, OneDeployment
  <2> QED
    BY <1>6, <1>f, <1>u, <2>0, <2>1 DEF CommitFile
<1>7. CASE \/ OpenPR(d) \/ AdoptPR(d) \/ NotifyStarted(d) \/ WaitChecks(d)
           \/ PollChecks(d) \/ NotifyCompleted(d)
  <2>1. base' = base /\ branch' = branch /\ meddled' = meddled
    BY <1>7, <1>u DEF OpenPR, CreatePR, AdoptPR, NotifyStarted, WaitChecks,
                      PollChecks, NotifyCompleted, Notify
  <2>2. pc'[d] \notin {"patch", "validate", "branch", "commit"}
    BY <1>7, Ends DEF OpenPR, AdoptPR, NotifyStarted, WaitChecks, PollChecks,
                      NotifyCompleted, Notify, TypeOK, BotTypeOK
  <2> QED
    BY <1>p, <2>1, <2>2
<1>8. CASE MergePR(d)
  <2>0. meddled' = meddled /\ branch' = branch
    BY <1>8, <1>u DEF MergePR, Merge
  <2>1. pc'[d] \notin {"patch", "validate", "branch", "commit"}
    BY <1>8, Ends DEF MergePR
  <2>2. CASE Merge(d, loc[d].pr)
    <3> SUFFICES ASSUME meddled' = 0, OneDeployment(FileOf[d]) PROVE Raises(d)'
      BY <2>0 DEF Raises, OneDeployment
    <3>1. branch[d].exists /\ branch[d].fork <= base'[FileOf[d]]
      BY <1>t, <2>0, <2>2, MergeRaises
    <3> QED
      BY <2>0, <2>1, <3>1 DEF Raises, OneDeployment
  <2> QED
    BY <1>8, <1>p, <1>u, <2>0, <2>1, <2>2 DEF MergePR
<1> QED
  BY <1>1, <1>2, <1>3, <1>4, <1>5, <1>6, <1>7, <1>8
     DEF BotStep, Start, FindOpenPR, FetchManifest, Patch, ValidatePatch, CreateBranch,
         CreateRef, CommitFile, OpenPR, CreatePR, AdoptPR, NotifyStarted, WaitChecks,
         PollChecks, MergePR, Merge, NotifyCompleted, Notify, githubVars

\* A step of a deployment, of a reviewer or of CI spoils no other deployment's.
LEMMA RaisesStep ==
  ASSUME TypeOK, \A d \in Deploy : Raises(d), [Next]_vars
  PROVE  \A d \in Deploy : Raises(d)'
<1> SUFFICES ASSUME NEW e \in Deploy PROVE Raises(e)'
  OBVIOUS
<1>t. FileOf[e] \in File
  BY FileOfAssumption
<1>1. ASSUME NEW d \in Deploy, Start(d) \/ BotStep(d) PROVE Raises(e)'
  <2>1. CASE e = d
    BY <1>1, <2>1, RaisesOwn
  <2>2. CASE e \in Deploy \ {d}
    <3>1. /\ UNCHANGED <<branch[e], pc[e], loc[e]>> /\ meddled' = meddled
      BY <1>1, <2>2, OwnService, OwnStep, RaisesOwn
    <3>2. ASSUME OneDeployment(FileOf[e]) PROVE base'[FileOf[e]] = base[FileOf[e]]
      <4>1. FileOf[d] # FileOf[e]
        BY <2>2, <3>2 DEF OneDeployment
      <4>2. base' = base \/ Merge(d, loc[d].pr)
        BY <1>1 DEF Start, BotStep, FindOpenPR, FetchManifest, Patch, ValidatePatch,
           CreateBranch, CreateRef, CommitFile, PutFile, OpenPR, CreatePR, AdoptPR,
           NotifyStarted, WaitChecks, PollChecks, MergePR, NotifyCompleted, Notify,
           githubVars
      <4>3. CASE base' = [base EXCEPT ![FileOf[d]] = MergedContent(d)]
        BY <1>t, <4>1, <4>3 DEF TypeOK, GitHubTypeOK
      <4> QED
        BY <4>2, <4>3 DEF Merge
    <3> QED
      BY <3>1, <3>2, RaisesKept DEF Raises, OneDeployment
  <2> QED
    BY <2>1, <2>2
<1>2. ASSUME NEW d \in Deploy, MergeByHand(d), UNCHANGED botVars PROVE Raises(e)'
  <2>0. UNCHANGED <<branch[e], pc[e], loc[e]>> /\ meddled' = meddled
    BY <1>2 DEF MergeByHand, Merge, botVars
  <2> SUFFICES ASSUME meddled = 0, OneDeployment(FileOf[e]) PROVE Raises(e)'
    BY <2>0 DEF Raises, OneDeployment
  <2>1. PICK n \in OpenPRs(d) : Merge(d, n)
    BY <1>2 DEF MergeByHand
  <2>2. CASE e = d
    <3>1. branch[d].exists /\ branch[d].fork <= base'[FileOf[d]]
      BY <1>t, <2>1, <2>2, MergeRaises
    <3> QED
      BY <2>0, <2>2, <3>1 DEF Raises, OneDeployment
  <2>3. CASE e # d
    <3>1. base'[FileOf[e]] = base[FileOf[e]]
      BY <1>t, <2>1, <2>3 DEF OneDeployment, Merge, TypeOK, GitHubTypeOK
    <3> QED
      BY <2>0, <3>1, RaisesKept
  <2> QED
    BY <2>2, <2>3
<1>3. CASE CI /\ UNCHANGED botVars
  BY <1>3, RaisesKept DEF CI, CIRegister, CIFinish, CIMoves, botVars
<1>4. ASSUME NEW d \in Deploy, CloseByHand(d), UNCHANGED botVars PROVE Raises(e)'
  BY <1>4, RaisesKept DEF CloseByHand, botVars
<1>5. meddled' = meddled + 1 => Raises(e)'
  BY DEF Raises, TypeOK, GitHubTypeOK
<1>6. CASE UNCHANGED vars
  BY <1>6, RaisesKept DEF vars, githubVars, botVars
<1> QED
  BY <1>1, <1>2, <1>3, <1>4, <1>5, <1>6
     DEF Next, People, EditBase, PushBranch, DeleteBranch, Meddle

\* No manifest that one deployment works on is lowered, over any number of runs,
\* retries, lost answers and reviews, as long as nobody meddles
\* (validate.go:16, env_deploy.go:87-140).
THEOREM NothingReduced == Spec => NeverReduced
<1> DEFINE Inv  == TypeOK /\ \A d \in Deploy : Raises(d)
           Rise == meddled' = 0 => \A f \in File : OneDeployment(f) => base'[f] >= base[f]
<1>1. Init => Inv
  BY InitType DEF Init, GitHubInit, Raises
<1>2. Inv /\ [Next]_vars => Inv'
  BY NextType, RaisesStep
<1>3. Inv /\ [Next]_vars => [Rise]_base
  <2> SUFFICES ASSUME Inv, [Next]_vars, base' # base, meddled' = 0,
                      NEW f \in File, OneDeployment(f)
               PROVE  base'[f] >= base[f]
    OBVIOUS
  <2>0. meddled \in Nat
    BY MaxMeddlingAssumption DEF TypeOK, GitHubTypeOK
  <2>1. ASSUME NEW d \in Deploy, Start(d) \/ BotStep(d)
        PROVE  Merge(d, loc[d].pr) /\ meddled = 0
    BY <2>1 DEF Start, BotStep, FindOpenPR, FetchManifest, Patch, ValidatePatch,
       CreateBranch, CreateRef, CommitFile, PutFile, OpenPR, CreatePR, AdoptPR,
       NotifyStarted, WaitChecks, PollChecks, MergePR, Merge, NotifyCompleted, Notify,
       githubVars
  <2>2. ASSUME People PROVE \E d \in Deploy : \E n : Merge(d, n) /\ meddled = 0
    BY <2>0, <2>2 DEF People, MergeByHand, Merge, CloseByHand, EditBase, PushBranch,
       PutFile, DeleteBranch, Meddle
  <2>3. PICK d \in Deploy : \E n : Merge(d, n) /\ meddled = 0
    BY <2>1, <2>2 DEF Next, vars, githubVars, CI, CIRegister, CIFinish, CIMoves
  <2> QED
    BY <2>3, MergeRaises
<1> HIDE DEF Inv
<1> QED
  BY <1>1, <1>2, <1>3, PTL DEF Spec, NeverReduced

-----------------------------------------------------------------------------
(* A run wears itself out.                                                 *)

\* What a run may still do before it has to end: the activities that are to come,
\* of MaxAttempts attempts each, the attempts left of the one it is at, and the
\* second half of an attempt that goes in two steps (OpenPR, WaitChecks).
ToCome == [find |-> 11, fetch |-> 10, patch |-> 9, validate |-> 8, branch |-> 7,
           commit |-> 6, open |-> 5, adopt |-> 5, started |-> 4, wait |-> 3, poll |-> 3,
           merge |-> 2, completed |-> 1, idle |-> 0]

WorkLeft(d) ==
  IF pc[d] = "idle" THEN 0
  ELSE ToCome[pc[d]] * (2 * MaxAttempts) + 2 * (MaxAttempts - attempt[d])
         + (IF pc[d] \in {"adopt", "poll"} THEN 0 ELSE 1)

LEMMA WorkLeftType ==
  ASSUME TypeOK, NEW d \in Deploy
  PROVE  /\ WorkLeft(d) \in 0..(24 * MaxAttempts)
         /\ WorkLeft(d) = 0 <=> pc[d] = "idle"
<1>1. /\ pc[d] \in Step \cup {"idle"}
      /\ attempt[d] \in 1..MaxAttempts
      /\ MaxAttempts \in Nat \ {0}
  BY MaxAttemptsAssumption DEF TypeOK, BotTypeOK
<1> QED
  BY <1>1 DEF WorkLeft, ToCome, Step

\* The ways an activity can end leave less to do than there was: the next one, the
\* end of the run, or another attempt.
LEMMA EndsLower ==
  ASSUME TypeOK, NEW d \in Deploy, pc[d] # "idle"
  PROVE  /\ \A q \in Step : Goto(d, q) /\ ToCome[q] < ToCome[pc[d]]
                              => WorkLeft(d)' < WorkLeft(d)
         /\ \A st, n : Return(d, st, n) => WorkLeft(d)' < WorkLeft(d)
         /\ \A q \in Step : Retry(d, q) /\ ToCome[q] = ToCome[pc[d]]
                              => WorkLeft(d)' < WorkLeft(d)
<1>1. /\ pc[d] \in Step /\ pc \in [Deploy -> Step \cup {"idle"}]
      /\ attempt[d] \in 1..MaxAttempts /\ attempt \in [Deploy -> 1..MaxAttempts]
      /\ MaxAttempts \in Nat \ {0}
  BY MaxAttemptsAssumption DEF TypeOK, BotTypeOK
<1>2. ASSUME NEW q \in Step, Goto(d, q), ToCome[q] < ToCome[pc[d]]
      PROVE  WorkLeft(d)' < WorkLeft(d)
  <2>1. pc'[d] = q /\ attempt'[d] = 1
    BY <1>1, <1>2 DEF Goto
  <2>2. ToCome[q] \in 1..11 /\ ToCome[pc[d]] \in 1..11
    BY <1>1 DEF ToCome, Step
  <2>3. ToCome[q] * (2 * MaxAttempts) + 2 * MaxAttempts <= ToCome[pc[d]] * (2 * MaxAttempts)
    <3>1. ASSUME NEW i \in 1..11, NEW j \in 1..11, i < j
          PROVE  i * (2 * MaxAttempts) + 2 * MaxAttempts <= j * (2 * MaxAttempts)
      BY <1>1, <3>1
    <3> QED
      BY <1>2, <2>2, <3>1
  <2>4. q # "idle"
    BY DEF Step
  <2> DEFINE a == ToCome[q] * (2 * MaxAttempts)
             b == ToCome[pc[d]] * (2 * MaxAttempts)
  <2>5. a \in Nat /\ b \in Nat
    BY <1>1, <2>2
  <2>6. /\ WorkLeft(d)' = a + 2 * (MaxAttempts - 1) + (IF q \in {"adopt", "poll"} THEN 0 ELSE 1)
        /\ WorkLeft(d) = b + 2 * (MaxAttempts - attempt[d])
                           + (IF pc[d] \in {"adopt", "poll"} THEN 0 ELSE 1)
    BY <1>2, <2>1, <2>4 DEF WorkLeft
  <2>7. a + 2 * MaxAttempts <= b
    BY <2>3
  <2> HIDE DEF a, b
  <2> QED
    BY <1>1, <2>5, <2>6, <2>7
<1>3. ASSUME NEW st, NEW n, Return(d, st, n) PROVE WorkLeft(d)' < WorkLeft(d)
  <2>1. pc'[d] = "idle"
    BY <1>1, <1>3 DEF Return
  <2> QED
    BY <2>1, WorkLeftType DEF WorkLeft
<1>4. ASSUME NEW q \in Step, Retry(d, q), ToCome[q] = ToCome[pc[d]]
      PROVE  WorkLeft(d)' < WorkLeft(d)
  <2>1. pc'[d] = q /\ attempt'[d] = attempt[d] + 1 /\ attempt[d] < MaxAttempts
    BY <1>1, <1>4 DEF Retry
  <2>2. q # "idle"
    BY DEF Step
  <2> DEFINE a == ToCome[q] * (2 * MaxAttempts)
  <2>3. a \in Nat
    BY <1>1 DEF ToCome, Step
  <2>4. /\ WorkLeft(d)' = a + 2 * (MaxAttempts - (attempt[d] + 1))
                            + (IF q \in {"adopt", "poll"} THEN 0 ELSE 1)
        /\ WorkLeft(d) = a + 2 * (MaxAttempts - attempt[d])
                           + (IF pc[d] \in {"adopt", "poll"} THEN 0 ELSE 1)
    BY <1>4, <2>1, <2>2 DEF WorkLeft
  <2> HIDE DEF a
  <2> QED
    BY <1>1, <2>1, <2>3, <2>4
<1> QED
  BY <1>2, <1>3, <1>4

LEMMA BotStepLowers ==
  ASSUME TypeOK, NEW d \in Deploy, BotStep(d)
  PROVE  pc[d] # "idle" /\ WorkLeft(d)' < WorkLeft(d)
<1>0. /\ pc[d] \in Step /\ pc \in [Deploy -> Step \cup {"idle"}]
      /\ attempt[d] \in 1..MaxAttempts /\ attempt \in [Deploy -> 1..MaxAttempts]
      /\ MaxAttempts \in Nat \ {0}
  BY MaxAttemptsAssumption DEF TypeOK, BotTypeOK, BotStep, FindOpenPR, FetchManifest,
     Patch, ValidatePatch, CreateBranch, CommitFile, OpenPR, AdoptPR, NotifyStarted,
     WaitChecks, PollChecks, MergePR, NotifyCompleted, Notify, Step
<1>i. pc[d] # "idle"
  BY <1>0 DEF Step
\* An attempt that goes on in a second step.
<1>s. ASSUME NEW q \in {"adopt", "poll"}, pc' = [pc EXCEPT ![d] = q], UNCHANGED attempt,
             ToCome[q] = ToCome[pc[d]], pc[d] \notin {"adopt", "poll"}
      PROVE  WorkLeft(d)' < WorkLeft(d)
  <2>1. pc'[d] = q /\ attempt'[d] = attempt[d]
    BY <1>0, <1>s
  <2> DEFINE a == ToCome[q] * (2 * MaxAttempts)
  <2>2. a \in Nat
    BY <1>0 DEF ToCome
  <2>3. /\ WorkLeft(d)' = a + 2 * (MaxAttempts - attempt[d]) + 0
        /\ WorkLeft(d) = a + 2 * (MaxAttempts - attempt[d]) + 1
    BY <1>i, <1>s, <2>1 DEF WorkLeft
  <2> HIDE DEF a
  <2> QED
    BY <1>0, <2>2, <2>3
<1>g. \A q \in Step : Goto(d, q) /\ ToCome[q] < ToCome[pc[d]] => WorkLeft(d)' < WorkLeft(d)
  BY <1>i, EndsLower
<1>r. \A st, n : Return(d, st, n) => WorkLeft(d)' < WorkLeft(d)
  BY <1>i, EndsLower
<1>t. \A q \in Step : Retry(d, q) /\ ToCome[q] = ToCome[pc[d]] => WorkLeft(d)' < WorkLeft(d)
  BY <1>i, EndsLower
<1>f. \A q \in Step : \A st : Fails(d, q, st) /\ ToCome[q] = ToCome[pc[d]]
                                => WorkLeft(d)' < WorkLeft(d)
  BY <1>r, <1>t DEF Fails
<1>h. \A n : Holds(d, n) /\ ToCome["started"] < ToCome[pc[d]] => WorkLeft(d)' < WorkLeft(d)
  BY <1>g DEF Holds, Step
<1>1. CASE FindOpenPR(d)
  BY <1>1, <1>g, <1>r, <1>t DEF FindOpenPR, ToCome, Step
<1>2. CASE FetchManifest(d)
  BY <1>2, <1>g, <1>f DEF FetchManifest, ToCome, Step
<1>3. CASE Patch(d)
  BY <1>3, <1>g, <1>f DEF Patch, ToCome, Step
<1>4. CASE ValidatePatch(d)
  BY <1>4, <1>g, <1>f DEF ValidatePatch, ToCome, Step
<1>5. CASE CreateBranch(d)
  BY <1>5, <1>g, <1>f DEF CreateBranch, ToCome, Step
<1>6. CASE CommitFile(d)
  BY <1>6, <1>g, <1>f DEF CommitFile, ToCome, Step
<1>7. CASE OpenPR(d)
  BY <1>7, <1>f, <1>h, <1>s DEF OpenPR, ToCome, Step
<1>8. CASE AdoptPR(d)
  BY <1>8, <1>f, <1>h DEF AdoptPR, ToCome, Step
<1>9. CASE NotifyStarted(d)
  BY <1>9, <1>g, <1>r, <1>t DEF NotifyStarted, Notify, ToCome, Step
<1>10. CASE WaitChecks(d)
  BY <1>10, <1>f, <1>s DEF WaitChecks, ToCome, Step
<1>11. CASE PollChecks(d)
  <2>1. /\ pc[d] = "poll"
        /\ \/ Goto(d, "merge")
           \/ \E n : Return(d, "awaiting_human", n)
           \/ Fails(d, "wait", "awaiting_human")
    BY <1>11 DEF PollChecks
  <2> QED
    BY <2>1, <1>g, <1>f, <1>r DEF ToCome, Step
<1>12. CASE MergePR(d)
  BY <1>12, <1>g, <1>f DEF MergePR, ToCome, Step
<1>13. CASE NotifyCompleted(d)
  BY <1>13, <1>r, <1>t DEF NotifyCompleted, Notify, ToCome, Step
<1> QED
  BY <1>i, <1>1, <1>2, <1>3, <1>4, <1>5, <1>6, <1>7, <1>8, <1>9, <1>10, <1>11, <1>12,
     <1>13 DEF BotStep

\* Nobody else's step touches where a run is, and no run is started anew.
LEMMA OthersKeepWork ==
  ASSUME TypeOK, NEW d \in Deploy, pc[d] # "idle", [Next]_vars, ~BotStep(d)
  PROVE  WorkLeft(d)' = WorkLeft(d)
<1> DEFINE Still == pc'[d] = pc[d] /\ attempt'[d] = attempt[d]
<1>1. SUFFICES Still
  BY DEF WorkLeft
<1>2. ASSUME NEW e \in Deploy, Start(e) \/ BotStep(e) PROVE Still
  <2>1. e # d
    BY <1>2 DEF Start
  <2>2. ASSUME NEW q, Goto(e, q) \/ Retry(e, q) PROVE Still
    BY <2>1, <2>2 DEF Goto, Retry, TypeOK, BotTypeOK
  <2>3. ASSUME NEW st, NEW n, Return(e, st, n) PROVE Still
    BY <2>1, <2>3 DEF Return, TypeOK, BotTypeOK
  <2>4. ASSUME NEW q, NEW st, Fails(e, q, st) PROVE Still
    BY <2>2, <2>3, <2>4 DEF Fails
  <2>5. ASSUME NEW n, Holds(e, n) PROVE Still
    BY <2>2, <2>5 DEF Holds
  <2> QED
    BY <1>2, <2>1, <2>2, <2>3, <2>4, <2>5 DEF TypeOK, BotTypeOK, Start, BotStep, FindOpenPR,
       FetchManifest, Patch, ValidatePatch, CreateBranch, CommitFile, OpenPR, AdoptPR,
       NotifyStarted, WaitChecks, PollChecks, MergePR, NotifyCompleted, Notify
<1> QED
  BY <1>2 DEF Next, vars, botVars

\* A run has a bounded number of steps to go, none exactly when it has ended.
Bounded ==
  \A d \in Deploy : WorkLeft(d) \in 0..(24 * MaxAttempts) /\ (WorkLeft(d) = 0 <=> pc[d] = "idle")

\* Every step of a run leaves it less to do, and nobody gives it more.
WearsOut ==
  \A d \in Deploy : pc[d] # "idle" =>
    /\ WorkLeft(d)' <= WorkLeft(d)
    /\ BotStep(d) => WorkLeft(d)' < WorkLeft(d)

\* However attempts fail and whatever people, CI and other deployments do, a run
\* ends within 24 * MaxAttempts steps of its own (the retry policy of
\* env_deploy.go:45-55): what Terminates needs besides fairness.
THEOREM RunsWearOut == Spec => []Bounded /\ [][WearsOut]_vars
<1>1. TypeOK => Bounded
  BY WorkLeftType DEF Bounded
<1>2. TypeOK' => Bounded'
  BY <1>1, PTL
<1>3. TypeOK /\ [Next]_vars => [WearsOut]_vars
  <2> SUFFICES ASSUME TypeOK, [Next]_vars, NEW d \in Deploy, pc[d] # "idle"
               PROVE  /\ WorkLeft(d)' <= WorkLeft(d)
                      /\ BotStep(d) => WorkLeft(d)' < WorkLeft(d)
    BY DEF WearsOut
  <2>1. WorkLeft(d) \in Nat /\ WorkLeft(d)' \in Nat
    BY <1>1, <1>2, NextType, MaxAttemptsAssumption DEF Bounded
  <2> QED
    BY <2>1, BotStepLowers, OthersKeepWork
<1> QED
  BY TypeCorrect, <1>1, <1>3, PTL DEF Spec
=============================================================================
