----------------------------- MODULE PRContract -----------------------------
(***************************************************************************)
(* What deploying to one environment promises to its callers               *)
(* (PromotionWorkflow, and the people who read its EnvDeployResult), with  *)
(* the activities, their retries and the content of manifests left out:    *)
(* EnvDeploy implements it, and Promotion is built on it.                  *)
(***************************************************************************)
CONSTANT Deploy

VARIABLES
  latest,    \* state of the latest pull request of d
  running,   \* is a run of d under way?
  auto,      \* did it ask for an automatic merge?
  verdict    \* what the last run reported

contractVars == <<latest, running, auto, verdict>>

Latest  == {"absent", "open", "merged", "closed"}
Verdict == {"none", "failed", "pr_open", "awaiting_human", "merged"}

ContractTypeOK ==
  /\ latest \in [Deploy -> Latest]
  /\ running \in [Deploy -> BOOLEAN]
  /\ auto \in [Deploy -> BOOLEAN]
  /\ verdict \in [Deploy -> Verdict]

ContractInit ==
  /\ latest = [d \in Deploy |-> "absent"]
  /\ running = [d \in Deploy |-> FALSE]
  /\ auto = [d \in Deploy |-> FALSE]
  /\ verdict = [d \in Deploy |-> "none"]

Begin(d, merging) ==
  /\ ~running[d]
  /\ running' = [running EXCEPT ![d] = TRUE]
  /\ auto' = [auto EXCEPT ![d] = merging]
  /\ verdict' = [verdict EXCEPT ![d] = "none"]
  /\ UNCHANGED latest

\* A run opens a pull request only when none is open; one that was merged or
\* closed is never opened again, a new one takes its place.
Open(d) ==
  /\ running[d]
  /\ latest[d] # "open"
  /\ latest' = [latest EXCEPT ![d] = "open"]
  /\ UNCHANGED <<running, auto, verdict>>

Settle(d, state) ==
  /\ latest[d] = "open"
  /\ latest' = [latest EXCEPT ![d] = state]
  /\ UNCHANGED <<running, auto, verdict>>

\* A run says "merged" of a pull request that is merged, and only if it was
\* asked to merge; it leaves one to people only if it was asked to merge.
Truthful(d, v) ==
  \/ v = "failed"
  \/ v = "pr_open" /\ latest[d] # "absent"
  \/ v = "awaiting_human" /\ auto[d] /\ latest[d] # "absent"
  \/ v = "merged" /\ auto[d] /\ latest[d] = "merged"

Report(d, v) ==
  /\ running[d]
  /\ Truthful(d, v)
  /\ running' = [running EXCEPT ![d] = FALSE]
  /\ auto' = [auto EXCEPT ![d] = FALSE]
  /\ verdict' = [verdict EXCEPT ![d] = v]
  /\ UNCHANGED latest

\* A run whose last attempt took effect and lost its answer reports as if it had
\* no effect, in the same step.
OpenAndFail(d) ==
  /\ running[d]
  /\ latest[d] # "open"
  /\ latest' = [latest EXCEPT ![d] = "open"]
  /\ running' = [running EXCEPT ![d] = FALSE]
  /\ auto' = [auto EXCEPT ![d] = FALSE]
  /\ verdict' = [verdict EXCEPT ![d] = "failed"]

MergeAndGiveUp(d) ==
  /\ running[d] /\ auto[d]
  /\ latest[d] = "open"
  /\ latest' = [latest EXCEPT ![d] = "merged"]
  /\ running' = [running EXCEPT ![d] = FALSE]
  /\ auto' = [auto EXCEPT ![d] = FALSE]
  /\ verdict' = [verdict EXCEPT ![d] = "awaiting_human"]

ContractNext ==
  \E d \in Deploy :
    \/ \E merging \in BOOLEAN : Begin(d, merging)
    \/ Open(d) \/ OpenAndFail(d)
    \/ MergeAndGiveUp(d)
    \/ \E v \in Verdict : Report(d, v)
    \/ \E state \in {"merged", "closed"} : Settle(d, state)

ContractSpec == ContractInit /\ [][ContractNext]_contractVars
=============================================================================
