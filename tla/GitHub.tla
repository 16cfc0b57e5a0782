------------------------------- MODULE GitHub -------------------------------
(***************************************************************************)
(* The hosting service as titlis-prbot sees it through                     *)
(* internal/gitprovider: manifests on base branches, one head branch per   *)
(* deployment, its pull requests, and the check runs of every commit       *)
(* pushed for it.  The service is external: its state moves by the calls   *)
(* of the provider client (gitprovider/github/client.go) and by people and *)
(* CI.                                                                     *)
(*                                                                         *)
(* A manifest is abstracted to one number, the level of its                *)
(* HorizontalPodAutoscaler: greater means more replicas, 0 means that the  *)
(* file holds no HPA at all.                                               *)
(***************************************************************************)
EXTENDS Naturals, Sequences

CONSTANTS
  Deploy,       \* the deployments: one per (campaign, workload, environment)
  File,         \* manifest files on base branches
  FileOf,       \* the manifest a deployment patches
  MaxLevel,     \* bound on HPA levels
  MaxMeddling   \* bound on people editing base, pushing or deleting branches

ASSUME FileOfAssumption      == FileOf \in [Deploy -> File]
ASSUME MaxLevelAssumption    == MaxLevel \in Nat
ASSUME MaxMeddlingAssumption == MaxMeddling \in Nat

VARIABLES
  base,     \* base[f]:   what the base branch holds of file f
  branch,   \* branch[d]: head branch of d: does it exist, the manifest it
            \*            forked from, the manifest it holds
  prs,      \* prs[d]:    the pull requests ever opened from that branch
  ci,       \* ci[d]:     check runs of the bot's last commit for d and of those
            \*            pushed on top of it, the last one being the head;
            \*            nobody asks for those of older commits
  meddled   \* how often people have meddled

githubVars == <<base, branch, prs, ci, meddled>>

Content == 0..MaxLevel
Branch  == [exists : BOOLEAN, fork : Content, content : Content]
PRState == {"open", "merged", "closed"}

\* The check runs of a commit, as a client reads them that sees the first page of
\* them (30) and counts the conclusions failure, cancelled, timed_out and
\* action_required as failed: there are none; one it sees is not completed; all it
\* sees are, and one failed; all are completed and none failed; or none of those it
\* sees failed, but one beyond the page failed or is not completed.
CIState == {"none", "pending", "failure", "success", "beyond"}

GitHubTypeOK ==
  /\ base \in [File -> Content]
  /\ branch \in [Deploy -> Branch]
  /\ prs \in [Deploy -> Seq(PRState)]
  /\ ci \in [Deploy -> Seq(CIState)]
  /\ meddled \in 0..MaxMeddling

GitHubInit ==
  /\ base \in [File -> Content]
  /\ branch = [d \in Deploy |-> [exists |-> FALSE, fork |-> 0, content |-> 0]]
  /\ prs = [d \in Deploy |-> << >>]
  /\ ci = [d \in Deploy |-> << >>]
  /\ meddled = 0

-----------------------------------------------------------------------------
(* What the provider's read calls see.                                     *)

FetchFile(d) == base[FileOf[d]]
HeadSHA(d)   == Len(ci[d])
OpenPRs(d)   == {n \in DOMAIN prs[d] : prs[d][n] = "open"}

\* GitHub merges three ways: an unchanged side yields to the other one.
Mergeable(d) ==
  LET b == base[FileOf[d]]
      h == branch[d]
  IN  h.exists /\ (b = h.fork \/ h.content = h.fork \/ b = h.content)

MergedContent(d) ==
  IF base[FileOf[d]] = branch[d].fork THEN branch[d].content
                                      ELSE base[FileOf[d]]

-----------------------------------------------------------------------------
(* What the provider's write calls do when the service accepts them.       *)

CreateRef(d) ==
  /\ ~branch[d].exists
  /\ branch' = [branch EXCEPT ![d] = [exists  |-> TRUE,
                                      fork    |-> FetchFile(d),
                                      content |-> FetchFile(d)]]
  /\ UNCHANGED <<base, prs, ci, meddled>>

\* A new commit, on top of the ones whose check runs are remembered.
PutFile(d, content, below) ==
  /\ branch[d].exists
  /\ branch' = [branch EXCEPT ![d].content = content]
  /\ ci' = [ci EXCEPT ![d] = Append(below, "none")]
  /\ UNCHANGED <<base, prs>>

CreatePR(d) ==
  /\ branch[d].exists
  /\ OpenPRs(d) = {}
  /\ prs' = [prs EXCEPT ![d] = Append(@, "open")]
  /\ UNCHANGED <<base, branch, ci, meddled>>

\* The sha sent with the request is "": whatever the head is gets merged.
Merge(d, n) ==
  /\ n \in OpenPRs(d)
  /\ Mergeable(d)
  /\ prs' = [prs EXCEPT ![d][n] = "merged"]
  /\ base' = [base EXCEPT ![FileOf[d]] = MergedContent(d)]
  /\ UNCHANGED <<branch, ci, meddled>>

-----------------------------------------------------------------------------
(* People.  Reviewing (merging or closing a pull request) is the normal     *)
(* life of one; the rest is meddling, and bounded.                          *)

MergeByHand(d) == \E n \in OpenPRs(d) : Merge(d, n)

CloseByHand(d) ==
  \E n \in OpenPRs(d) :
    /\ prs' = [prs EXCEPT ![d][n] = "closed"]
    /\ UNCHANGED <<base, branch, ci, meddled>>

Meddle == meddled < MaxMeddling /\ meddled' = meddled + 1

EditBase(f) ==
  /\ Meddle
  /\ \E c \in Content \ {base[f]} : base' = [base EXCEPT ![f] = c]
  /\ UNCHANGED <<branch, prs, ci>>

PushBranch(d) ==
  /\ Meddle
  /\ \E c \in Content : PutFile(d, c, ci[d])

\* Deleting a head branch closes its pull request.
DeleteBranch(d) ==
  /\ Meddle
  /\ branch[d].exists
  /\ branch' = [branch EXCEPT ![d] = [exists |-> FALSE, fork |-> 0, content |-> 0]]
  /\ prs' = [prs EXCEPT ![d] = [n \in DOMAIN @ |->
                                  IF @[n] = "open" THEN "closed" ELSE @[n]]]
  /\ UNCHANGED <<base, ci>>

-----------------------------------------------------------------------------
(* CI registers its check runs for a commit some time after the push, others  *)
(* after those have finished, and runs some of them again.                 *)

CIMoves(d, s, from, to) ==
  /\ ci[d][s] \in from
  /\ \E state \in to : ci' = [ci EXCEPT ![d][s] = state]
  /\ UNCHANGED <<base, branch, prs, meddled>>

CIRegister(d, s) == CIMoves(d, s, CIState \ {"pending"}, {"pending"})

CIFinish(d, s) == CIMoves(d, s, {"pending"}, {"success", "failure", "beyond"})

People ==
  \/ \E d \in Deploy : MergeByHand(d) \/ CloseByHand(d)
  \/ \E f \in File : EditBase(f)
  \/ \E d \in Deploy : PushBranch(d) \/ DeleteBranch(d)
=============================================================================
