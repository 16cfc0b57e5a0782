------------------------------ MODULE Policies ------------------------------
(***************************************************************************)
(* The auto-remediation policies of one tenant (internal/repo) and the     *)
(* daily schedules that Temporal keeps for it (internal/temporal/          *)
(* schedule.go): people save policies through the HTTP API, saving a       *)
(* GitHub token brings defaults, and a restart synchronises.  Requests     *)
(* interleave between the database and Temporal.                           *)
(*                                                                         *)
(* The policies are kept in PolicyTable; one that is saved for a single    *)
(* environment counts for the schedules as any other does.                 *)
(***************************************************************************)
EXTENDS PolicyTable

CONSTANTS
  Request,      \* concurrent policy requests
  MaxSaves      \* bound on policies saved by people

ASSUME MaxSavesAssumption == MaxSaves \in Nat
ASSUME PolicyModes        == {"disabled", "open_pr"} \subseteq Mode

VARIABLES
  schedules,   \* the rules that have a schedule
  request,     \* the rule whose schedule a request is about to ensure
  configure,   \* the step of runDiscovery, the answer to a saved token
  sync,        \* the step of syncStartupSchedules
  missed,      \* rules for which ensuring a schedule failed, was cut short or left out
  crossed,     \* a global policy was saved while a default was on its way
  saves

vars == <<rows, schedules, request, configure, sync, missed, crossed, saves>>

Asked == Mode \cup {"unknown"}    \* what a request may ask for

\* Every variable has its type.
TypeOK ==
  /\ rows \subseteq Row
  /\ schedules \subseteq Rule
  /\ request \in [Request -> Rule \cup {"none"}]
  /\ configure \in {"idle", "default", "ensure"}
  /\ sync \in {"idle", "list", "ensure"}
  /\ missed \subseteq Rule
  /\ crossed \in BOOLEAN
  /\ saves \in 0..MaxSaves

Init ==
  /\ Empty
  /\ schedules = {}
  /\ request = [q \in Request |-> "none"]
  /\ configure = "idle"
  /\ sync = "list"
  /\ missed = {}
  /\ crossed = FALSE
  /\ saves = 0

Enabled(mode) == mode \notin {"none", "disabled"}

\* Mutant: a schedule there is is replaced by the new one.
EnsureAlone(r) ==
  \/ schedules' = {r} /\ missed' = missed \ {r}
  \/ UNCHANGED schedules /\ missed' = missed \cup {r}

\* A schedule is created, or updated if there is one; errors are ignored.
EnsureSchedule(r) ==
  \/ schedules' = schedules \cup {r} /\ missed' = missed \ {r}
  \/ UNCHANGED schedules /\ missed' = missed \cup {r}

Pending(r) == \E q \in Request : request[q] = r

-----------------------------------------------------------------------------
(* UpsertPolicy.  A request whose answer from the database is lost ends     *)
(* with an error: its policy is saved, and no schedule is ensured.         *)

SavePolicy(q, r, e, mode) ==
  /\ mode \in Mode
  /\ request[q] = "none"
  /\ saves < MaxSaves
  /\ saves' = saves + 1
  /\ Upsert(r, e, mode)
  /\ \/ request' = [request EXCEPT ![q] = IF Enabled(mode) THEN r ELSE "none"] /\ UNCHANGED missed
     \/ missed' = missed \cup (IF Enabled(mode) THEN {r} ELSE {}) /\ UNCHANGED request
  /\ crossed' = (crossed \/ (r = "*" /\ e = "" /\ configure = "default"))
  /\ UNCHANGED <<schedules, configure, sync>>

EnsureRequested(q) ==
  /\ request[q] # "none"
  /\ EnsureSchedule(request[q])
  /\ request' = [request EXCEPT ![q] = "none"]
  /\ UNCHANGED <<rows, configure, sync, crossed, saves>>

-----------------------------------------------------------------------------
(* runDiscovery, its part about policies.                                  *)

\* Mutant: a policy that is disabled counts as none.
ConfigureUnlessEnabled ==
  /\ configure = "idle"
  /\ configure' = IF Enabled(Get("*", "")) THEN "ensure" ELSE "default"
  /\ crossed' = FALSE
  /\ UNCHANGED <<rows, schedules, request, sync, missed, saves>>

\* Only a policy known to be absent gets the default; an error gets none.
CheckGlobal ==
  /\ configure = "idle"
  /\ configure' \in {"default", "ensure"}
  /\ configure' = "default" => Get("*", "") = "none"
  /\ crossed' = FALSE
  /\ UNCHANGED <<rows, schedules, request, sync, missed, saves>>

SaveDefault ==
  /\ configure = "default"
  /\ UNCHANGED rows \/ Upsert("*", "", "open_pr")
  /\ configure' = "ensure"
  /\ UNCHANGED <<schedules, request, sync, missed, crossed, saves>>

EnsureManaged ==
  /\ configure = "ensure"
  /\ EnsureSchedule("manifest")
  /\ configure' = "idle"
  /\ UNCHANGED <<rows, request, sync, crossed, saves>>

-----------------------------------------------------------------------------
(* A restart, and what is done then.                                       *)

Restart ==
  /\ request' = [q \in Request |-> "none"]
  /\ missed' = missed \cup {r \in Rule : Pending(r)}
                      \cup (IF configure = "idle" THEN {} ELSE {"manifest"})
  /\ configure' = "idle"
  /\ sync' = "list"
  /\ UNCHANGED <<rows, schedules, crossed, saves>>

\* Policies that cannot be read leave the schedule as it was.
SyncRead ==
  /\ sync = "list"
  /\ \/ /\ sync' = IF Eligible("manifest") /\ Enabled(Get("manifest", "")) THEN "ensure" ELSE "idle"
        /\ UNCHANGED missed
     \/ sync' = "idle" /\ missed' = missed \cup {"manifest"}
  /\ UNCHANGED <<rows, schedules, request, configure, crossed, saves>>

SyncEnsure ==
  /\ sync = "ensure"
  /\ EnsureSchedule("manifest")
  /\ sync' = "idle"
  /\ UNCHANGED <<rows, request, configure, crossed, saves>>

Next ==
  \/ \E q \in Request, r \in Rule, e \in Scope, mode \in Asked :
       SavePolicy(q, r, e, mode)
  \/ \E q \in Request : EnsureRequested(q)
  \/ CheckGlobal \/ SaveDefault \/ EnsureManaged
  \/ Restart \/ SyncRead \/ SyncEnsure

Spec == Init /\ [][Next]_vars

-----------------------------------------------------------------------------
(* Properties.                                                             *)

\* A rule whose own policy is enabled has a schedule, unless a request for it is
\* under way, its schedule could not be ensured or the request that saved it was
\* told of an error and ended before (handlers.go:284-290): no
\* interleaving of requests, defaults and restarts loses one.
EnabledScheduled ==
  \A r \in {"manifest", "drift"} :
    (\E row \in rows : row.rule = r /\ Enabled(row.mode)) /\ ~Pending(r) /\ r \notin missed
      => r \in schedules

\* The default policy takes the place of one that people saved only if they
\* saved it between the check and the default (handlers.go:500-509).
OverruledOnlyInWindow ==
  [][Get("*", "") \notin {"none", Get("*", "")'} /\ saves' = saves => crossed]_vars

\* The table takes every save as the map of local development would (postgres.go:
\* 205-229, memory.go:155-163): a second policy of a key replaces the first.
SavesAsMap == Map!Spec
=============================================================================
