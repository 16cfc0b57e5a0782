------------------------------- MODULE Scanner -------------------------------
(***************************************************************************)
(* The scanner of service definitions (internal/scanner).  Scans are run   *)
(* by the ticker, by people and after a token was saved, and may overlap;  *)
(* each goes by the repositories registered when it began and remembers    *)
(* what it finds as mappings.  Which repositories are registered when is   *)
(* in Onboarding; here any list may be, at any time.                       *)
(*                                                                         *)
(* The versions of a .titlis/service.yaml are numbered, 0 being one that   *)
(* is not there.  Each declares a workload by its name and says where its  *)
(* manifests are (ServiceDefinition), and the next version may do both     *)
(* differently.  A mapping is saved under the name declared: nothing       *)
(* removes one, nor keeps two repositories from declaring the same name.   *)
(* Mappings saved before paths had branches may still be in the database;  *)
(* they are of version 0.                                                  *)
(***************************************************************************)
EXTENDS ServiceDefinition, FiniteSets

CONSTANTS
  Repo,
  Name,           \* workload names
  Scan,           \* goroutines that scan
  MaxVersion,     \* bound on the versions of a service definition
  Written,        \* Written[r][v]: version v of the definition in r
  Old,            \* Old[r]: the name and the paths of a mapping to r saved before
                  \*   paths had branches, for the repositories that may have one
  Given           \* paths that campaign items may be given

ASSUME RepoAssumption       == IsFiniteSet(Repo)
ASSUME MaxVersionAssumption == MaxVersion \in Nat \ {0}
ASSUME WrittenAssumption    ==
  \A r \in Repo, v \in 1..MaxVersion : Written[r][v].name \in Name
ASSUME OldAssumption        == \A r \in DOMAIN Old : r \in Repo /\ Old[r].name \in Name

VARIABLES
  file,         \* file[r]:    the service definition on the main branch
  registered,   \* Scanner.repos of the tenant
  left,         \* left[s]:    repositories that scan s has still to visit
  got,          \* got[s]:     the definition s has fetched and not saved yet
  overtaken,    \* overtaken[s]: another scan has saved since s fetched
  mapping,      \* mapping[n]: the repository and version last seen for n
  clean         \* clean[s]:   the repositories that scan s began with, as long as no
                \*   call of it has failed, no definition has changed and no other
                \*   scan has saved since; none after that

historyVars == <<overtaken, clean>>
vars == <<file, registered, left, got, mapping, historyVars>>

Version == 0..MaxVersion
NoFind  == {}     \* got[s] and mapping[n] are sets of at most one finding

Find(r, v) == [repo |-> r, version |-> v]
Kept(r)    == Find(r, 0)
Found      == [repo : Repo, version : Version]

\* What main has of a repository.
Now(r) == Find(r, file[r])

\* The workload that a version declares (Metadata.Name), and the paths in it.
Declares(f) == IF f.version = 0 THEN Old[f.repo].name ELSE Written[f.repo][f.version].name
Paths(f) == IF f.version = 0 THEN DecodeAll(Old[f.repo].paths) ELSE Parse(Written[f.repo][f.version])

\* Every variable has its type; a scan never takes a definition that is not there
\* for one.
TypeOK ==
  /\ file \in [Repo -> Version]
  /\ registered \subseteq Repo
  /\ left \in [Scan -> SUBSET Repo]
  /\ got \in [Scan -> SUBSET Found]
  /\ overtaken \in [Scan -> BOOLEAN]
  /\ mapping \in [Name -> SUBSET Found]
  /\ clean \in [Scan -> SUBSET Repo]

Init ==
  /\ file \in [Repo -> {0, 1}]
  /\ registered = {}
  /\ left = [s \in Scan |-> {}]
  /\ got = [s \in Scan |-> NoFind]
  /\ overtaken = [s \in Scan |-> FALSE]
  /\ mapping \in [Name -> {NoFind} \cup {{Kept(r)} : r \in DOMAIN Old}]
  /\ \A n \in Name : \A f \in mapping[n] : Declares(f) = n
  /\ clean = [s \in Scan |-> {}]

-----------------------------------------------------------------------------
RegisterTenantRepos(repos) ==
  /\ registered' = repos
  /\ UNCHANGED <<file, left, got, mapping, historyVars>>

Restart ==
  /\ registered' = {}
  /\ left' = [s \in Scan |-> {}]
  /\ got' = [s \in Scan |-> NoFind]
  /\ overtaken' = [s \in Scan |-> FALSE]
  /\ clean' = [s \in Scan |-> {}]
  /\ UNCHANGED <<file, mapping>>

-----------------------------------------------------------------------------
(* RunOnce and scanRepo.                                                   *)

Resting(s) == left[s] = {} /\ got[s] = NoFind

Begin(s) ==
  /\ Resting(s)
  /\ registered # {}
  /\ left' = [left EXCEPT ![s] = registered]
  /\ clean' = [clean EXCEPT ![s] = registered]
  /\ UNCHANGED <<file, registered, got, overtaken, mapping>>

Readable(r, v) == v # 0 /\ Parses(Written[r][v])

\* Mutant: the scan starts over at an error.
FetchOrRestart(s, r) ==
  /\ got[s] = NoFind
  /\ r \in left[s]
  /\ \/ /\ Readable(r, file[r])
        /\ got' = [got EXCEPT ![s] = {Now(r)}]
        /\ left' = [left EXCEPT ![s] = @ \ {r}]
        /\ UNCHANGED clean
     \/ /\ left' = [left EXCEPT ![s] = registered \cup {r}]
        /\ clean' = [clean EXCEPT ![s] = {}]
        /\ UNCHANGED got
  /\ overtaken' = [overtaken EXCEPT ![s] = FALSE]
  /\ UNCHANGED <<file, registered, mapping>>

\* Mutant: an old version may be served.
FetchCached(s, r) ==
  /\ got[s] = NoFind
  /\ r \in left[s]
  /\ \/ \E v \in 1..file[r] : Readable(r, v) /\ got' = [got EXCEPT ![s] = {Find(r, v)}]
     \/ UNCHANGED got
  /\ left' = [left EXCEPT ![s] = @ \ {r}]
  /\ clean' = [clean EXCEPT ![s] = {}]
  /\ overtaken' = [overtaken EXCEPT ![s] = FALSE]
  /\ UNCHANGED <<file, registered, mapping>>

\* A file that is not there, cannot be read or does not parse is passed over.
Fetch(s, r) ==
  /\ got[s] = NoFind
  /\ r \in left[s]
  /\ \/ /\ Readable(r, file[r])
        /\ got' = [got EXCEPT ![s] = {Now(r)}]
        /\ UNCHANGED clean
     \/ /\ clean' = [clean EXCEPT ![s] = IF Readable(r, file[r]) THEN {} ELSE @]
        /\ UNCHANGED got
  /\ left' = [left EXCEPT ![s] = @ \ {r}]
  /\ overtaken' = [overtaken EXCEPT ![s] = FALSE]
  /\ UNCHANGED <<file, registered, mapping>>

\* What it is to others that scan s saves.
Overtakes(s) ==
  /\ overtaken' = [q \in Scan |-> q # s /\ (got[q] # NoFind \/ overtaken[q])]
  /\ clean' = [q \in Scan |-> IF q = s THEN clean[q] ELSE {}]

\* Mutant: a mapping that is there stays.
SaveOnce(s) ==
  /\ got[s] # NoFind
  /\ \E f \in got[s] :
       mapping' = [mapping EXCEPT ![Declares(f)] = IF @ = NoFind THEN {f} ELSE @]
  /\ Overtakes(s)
  /\ got' = [got EXCEPT ![s] = NoFind]
  /\ UNCHANGED <<file, registered, left>>

\* The mapping of the name declared is replaced, or the database fails.
Save(s) ==
  /\ got[s] # NoFind
  /\ \/ /\ \E f \in got[s] : mapping' = [mapping EXCEPT ![Declares(f)] = {f}]
        /\ Overtakes(s)
     \/ /\ clean' = [clean EXCEPT ![s] = {}]
        /\ UNCHANGED <<mapping, overtaken>>
  /\ got' = [got EXCEPT ![s] = NoFind]
  /\ UNCHANGED <<file, registered, left>>

\* Developers change service definitions.
Commit(r) ==
  /\ file[r] < MaxVersion
  /\ file' = [file EXCEPT ![r] = @ + 1]
  /\ clean' = [s \in Scan |-> {}]
  /\ UNCHANGED <<registered, left, got, overtaken, mapping>>

Work(s) == Save(s) \/ \E r \in Repo : Fetch(s, r)

Next ==
  \/ \E r \in Repo : Commit(r)
  \/ \E repos \in SUBSET Repo \ {{}} : RegisterTenantRepos(repos)
  \/ Restart
  \/ \E s \in Scan : Begin(s) \/ Work(s)

Spec == Init /\ [][Next]_vars

\* Every call of a scan returns, with an answer or an error.
FairSpec == Spec /\ \A s \in Scan : WF_vars(Work(s))

-----------------------------------------------------------------------------
(* Properties.                                                             *)

\* A scan in which no call fails and that nobody disturbs leaves every workload that
\* its repositories declare with a mapping to what main has now, of a repository
\* that declares it; when two declare one name, of either (scanner.go:45-97,
\* postgres.go:36-53).  Of workloads that were renamed or removed it says nothing:
\* they keep the mapping they had.
MappingsCurrent ==
  \A s \in Scan : Resting(s) =>
    \A r \in clean[s] : Readable(r, file[r]) =>
      \E q \in clean[s] : /\ Declares(Now(q)) = Declares(Now(r))
                          /\ mapping[Declares(Now(r))] = {Now(q)}

\* Whatever paths an item is given, each environment it deploys has a file, and
\* the branch that some version on main means for it; it has none at all only if
\* the paths were given without, or saved before there were branches and never
\* scanned since (parser.go:46-63, types.go:131-147, item.go:51-58).
DeployedAsMeant ==
  \A n \in Name : \A f \in mapping[n], given \in Given :
    LET paths == ItemPaths(given, Paths(f))
    IN  \A e \in Deployed(paths) :
          IF e \in DOMAIN given THEN paths[e] = Decode(given[e])
          ELSE IF f.version = 0 THEN paths[e] = Decode(Old[f.repo].paths[e])
          ELSE /\ paths[e].branch = Means(Written[f.repo][f.version], e)
               /\ Deployed(paths) = DOMAIN Written[f.repo][f.version].paths

\* A mapping goes back to an older version of its repository's definition only
\* when two scans overlap, one saving between another's fetch and save.
BackOnlyByOverlap ==
  [][\A n \in Name : \A f \in mapping[n], g \in mapping'[n] :
       f.repo = g.repo /\ g.version < f.version =>
         \E s \in Scan : overtaken[s] /\ got[s] = {g}]_vars

\* Every scan comes to its end, whatever repositories fail.
ScansEnd == \A s \in Scan : ~Resting(s) ~> Resting(s)
=============================================================================
