---------------------------- MODULE Files_proofs -----------------------------
(***************************************************************************)
(* What is read from the repositories' files and what is written to them.  *)
(* Definitions: a scan that nothing disturbs leaves mappings current, they *)
(* go back only when scans overlap, and what is deployed is what a         *)
(* definition means.  Manifests: what the validation guarantees of one     *)
(* HPA, and what a recommended patch leaves alone.  For any number of      *)
(* repositories, scans and versions, and whatever is written in them.      *)
(***************************************************************************)
EXTENDS Scanner, Patching, FiniteSetTheorems, TLAPS

-----------------------------------------------------------------------------
(* The scanner and the definitions it reads.                               *)

\* A finding is one, of a version that was on the branch.
Sound(f) == f \in Found /\ f.version \in 1..file[f.repo]

\* What is fetched is sound, and what is saved is or is of before the branches.
FindInv ==
  /\ file \in [Repo -> Version]
  /\ \A s \in Scan : got[s] = NoFind \/ \E f \in Found : got[s] = {f} /\ Sound(f)
  /\ \A n \in Name :
       \/ mapping[n] = NoFind
       \/ \E f \in Found :
            /\ mapping[n] = {f}
            /\ Declares(f) = n
            /\ Sound(f) \/ (f.version = 0 /\ f.repo \in DOMAIN Old)

\* A scan that holds an older version than is saved has been overtaken.
OvertakenInv ==
  \A n \in Name, s \in Scan : \A f \in mapping[n], g \in got[s] :
    f.repo = g.repo /\ g.version < f.version => overtaken[s]

\* Everything is of the type it should be.
ScannerInv == TypeOK /\ FindInv /\ OvertakenInv

-----------------------------------------------------------------------------
\* A commit adds a version.
LEMMA CommitKeeps ==
  ASSUME ScannerInv, NEW r \in Repo, Commit(r)
  PROVE  ScannerInv'
<1>1. /\ file \in [Repo -> Version] /\ file[r] < MaxVersion /\ file' = [file EXCEPT ![r] = @ + 1]
      /\ UNCHANGED <<registered, left, got, overtaken, mapping>>
      /\ clean' = [s \in Scan |-> {}]
  BY DEF ScannerInv, FindInv, Commit
<1>2. file' \in [Repo -> Version]
  BY <1>1, MaxVersionAssumption DEF Version
<1>3. \A f \in Found : Sound(f) => Sound(f)'
  BY <1>1, MaxVersionAssumption DEF Sound, Found, Version
<1>4. FindInv'
  BY <1>1, <1>2, <1>3 DEF ScannerInv, FindInv
<1>5. clean' \in [Scan -> SUBSET Repo]
  BY <1>1
<1> QED
  BY <1>1, <1>2, <1>4, <1>5 DEF ScannerInv, TypeOK, OvertakenInv

\* What is fetched is at least as new as anything saved of its repository.
LEMMA FetchKeeps ==
  ASSUME ScannerInv, NEW s \in Scan, NEW r \in Repo, Fetch(s, r)
  PROVE  ScannerInv'
<1> DEFINE g == Find(r, file[r])
<1>1. /\ UNCHANGED <<file, registered, mapping>>
      /\ left' = [left EXCEPT ![s] = @ \ {r}]
      /\ overtaken' = [overtaken EXCEPT ![s] = FALSE]
      /\ got[s] = NoFind
      /\ (file[r] # 0 /\ got' = [got EXCEPT ![s] = {g}]) \/ got' = got
      /\ clean' = clean \/ clean' = [clean EXCEPT ![s] = {}]
  BY DEF Fetch, Readable, Now, TypeOK, ScannerInv
<1>2. /\ file \in [Repo -> Version] /\ got \in [Scan -> SUBSET Found] /\ registered \subseteq Repo
      /\ left \in [Scan -> SUBSET Repo] /\ overtaken \in [Scan -> BOOLEAN]
      /\ mapping \in [Name -> SUBSET Found] /\ clean \in [Scan -> SUBSET Repo]
  BY DEF ScannerInv, TypeOK
<1>3. file[r] # 0 => g \in Found /\ Sound(g) /\ g.repo = r /\ g.version = file[r]
  BY <1>2, MaxVersionAssumption DEF Find, Found, Sound, Version
<1>4. overtaken' \in [Scan -> BOOLEAN] /\ \A q \in Scan : q # s => overtaken'[q] = overtaken[q]
  BY <1>1, <1>2
<1>5. TypeOK'
  <2>1. clean' \in [Scan -> SUBSET Repo]
    BY <1>1, <1>2
  <2> QED
    BY <1>1, <1>2, <1>3, <1>4, <2>1 DEF TypeOK
<1>6. \A f \in Found : Sound(f)' <=> Sound(f)
  BY <1>1 DEF Sound
<1>7. \A q \in Scan : q # s => got'[q] = got[q]
  BY <1>1, <1>2
<1>8. got'[s] = NoFind \/ (got'[s] = {g} /\ file[r] # 0)
  BY <1>1, <1>2
<1>9. FindInv'
  BY <1>1, <1>3, <1>6, <1>7, <1>8 DEF ScannerInv, FindInv
<1>10. ASSUME NEW n \in Name, NEW f \in mapping[n], file[r] # 0, f.repo = g.repo
       PROVE  ~(g.version < f.version)
  <2>1. f \in Found /\ (Sound(f) \/ f.version = 0)
    BY DEF ScannerInv, FindInv, NoFind
  <2>2. f.repo = r /\ g.version = file[r] /\ f.version \in Nat /\ file[r] \in Nat
    BY <1>2, <1>3, <1>10, <2>1, MaxVersionAssumption DEF Found, Version
  <2>3. f.version <= file[r]
    BY <2>1, <2>2 DEF Sound
  <2> QED
    BY <2>2, <2>3
<1>11. OvertakenInv'
  BY <1>1, <1>4, <1>7, <1>8, <1>10 DEF ScannerInv, OvertakenInv, NoFind
<1> QED
  BY <1>5, <1>9, <1>11 DEF ScannerInv

\* Saving overtakes every other scan that holds a finding.
LEMMA SaveKeeps ==
  ASSUME ScannerInv, NEW s \in Scan, Save(s)
  PROVE  /\ ScannerInv'
         /\ \A n \in Name : \A f \in mapping[n], g \in mapping'[n] :
              f.repo = g.repo /\ g.version < f.version => overtaken[s] /\ got[s] = {g}
<1>1. PICK f \in got[s] :
        \/ /\ mapping' = [mapping EXCEPT ![Declares(f)] = {f}]
           /\ Overtakes(s)
        \/ /\ clean' = [clean EXCEPT ![s] = {}]
           /\ UNCHANGED <<mapping, overtaken>>
  BY DEF Save, NoFind
<1>2. UNCHANGED <<file, registered, left>> /\ got' = [got EXCEPT ![s] = NoFind]
  BY DEF Save
<1>3. /\ got \in [Scan -> SUBSET Found] /\ registered \subseteq Repo /\ file \in [Repo -> Version]
      /\ left \in [Scan -> SUBSET Repo] /\ mapping \in [Name -> SUBSET Found]
      /\ clean \in [Scan -> SUBSET Repo] /\ overtaken \in [Scan -> BOOLEAN]
  BY DEF ScannerInv, TypeOK
<1>4. f \in Found /\ Sound(f) /\ got[s] = {f}
  BY <1>1 DEF ScannerInv, FindInv, NoFind
<1>5. overtaken' \in [Scan -> BOOLEAN] /\ clean' \in [Scan -> SUBSET Repo]
  BY <1>1, <1>3 DEF Overtakes
<1>6. UNCHANGED <<mapping, overtaken>> \/ \A q \in Scan : q # s /\ got[q] # NoFind => overtaken'[q]
  BY <1>1 DEF Overtakes
<1>7. \A q \in Scan : got'[q] = IF q = s THEN NoFind ELSE got[q]
  BY <1>2, <1>3
<1>8. \A n \in Name : mapping'[n] = mapping[n] \/ (mapping'[n] = {f} /\ n = Declares(f))
  BY <1>1, <1>3
<1>9. TypeOK'
  BY <1>1, <1>2, <1>3, <1>4, <1>5 DEF TypeOK, NoFind
<1>10. \A h \in Found : Sound(h)' <=> Sound(h)
  BY <1>2 DEF Sound
<1>11. FindInv'
  BY <1>2, <1>4, <1>7, <1>8, <1>10 DEF ScannerInv, FindInv
<1>12. OvertakenInv'
  BY <1>6, <1>7 DEF ScannerInv, OvertakenInv, NoFind
<1>13. ASSUME NEW n \in Name, NEW h \in mapping[n], NEW g \in mapping'[n],
              h.repo = g.repo, g.version < h.version
       PROVE  overtaken[s] /\ got[s] = {g}
  <2>1. CASE mapping'[n] = {f}
    BY <1>4, <1>13, <2>1 DEF ScannerInv, OvertakenInv
  <2>2. CASE mapping'[n] = mapping[n]
    <3>1. g = h
      BY <1>13, <2>2 DEF ScannerInv, FindInv, NoFind
    <3>2. h.version \in Nat
      BY <1>3, <1>13, MaxVersionAssumption DEF Found, Version
    <3> QED
      BY <1>13, <3>1, <3>2
  <2> QED
    BY <1>8, <2>1, <2>2
<1> QED
  BY <1>9, <1>11, <1>12, <1>13 DEF ScannerInv

\* The other steps touch neither mappings nor the repositories' files.
LEMMA OthersKeep ==
  ASSUME ScannerInv,
         \/ UNCHANGED vars \/ Restart \/ \E s \in Scan : Begin(s)
         \/ \E repos \in SUBSET Repo \ {{}} : RegisterTenantRepos(repos)
  PROVE  ScannerInv' /\ UNCHANGED mapping
<1>1. /\ UNCHANGED <<file, mapping>>
      /\ UNCHANGED <<got, overtaken>> \/ (/\ got' = [s \in Scan |-> NoFind]
                                          /\ overtaken' = [s \in Scan |-> FALSE])
  BY DEF vars, historyVars, Restart, Begin, RegisterTenantRepos
<1>2. registered' \subseteq Repo /\ left' \in [Scan -> SUBSET Repo]
  BY DEF vars, Restart, Begin, RegisterTenantRepos, ScannerInv, TypeOK
<1>3. overtaken' \in [Scan -> BOOLEAN] /\ clean' \in [Scan -> SUBSET Repo]
  BY <1>1 DEF vars, historyVars, Restart, Begin, RegisterTenantRepos, ScannerInv, TypeOK
<1>4. TypeOK'
  BY <1>1, <1>2, <1>3 DEF ScannerInv, TypeOK, NoFind
<1>5. \A f \in Found : Sound(f)' <=> Sound(f)
  BY <1>1 DEF Sound
<1>6. FindInv'
  BY <1>1, <1>5 DEF ScannerInv, FindInv
<1>7. OvertakenInv'
  BY <1>1 DEF ScannerInv, OvertakenInv, NoFind
<1> QED
  BY <1>1, <1>4, <1>6, <1>7 DEF ScannerInv

\* The invariant is inductive.
LEMMA StepKeeps ==
  ASSUME ScannerInv, [Next]_vars
  PROVE  ScannerInv'
BY CommitKeeps, FetchKeeps, SaveKeeps, OthersKeep DEF Next, Work

\* The invariant holds always.
THEOREM Inductive == Spec => []ScannerInv
<1>1. Init => ScannerInv
  <2> SUFFICES ASSUME Init PROVE ScannerInv
    OBVIOUS
  <2>1. overtaken \in [Scan -> BOOLEAN] /\ got \in [Scan -> SUBSET Found]
    BY DEF Init, NoFind
  <2>2. file \in [Repo -> Version]
    BY MaxVersionAssumption DEF Init, Version
  <2>3. \A r \in DOMAIN Old : Kept(r) \in Found /\ Kept(r).version = 0 /\ Kept(r).repo = r
    BY OldAssumption, MaxVersionAssumption DEF Kept, Find, Found, Version
  <2>4. mapping \in [Name -> {NoFind} \cup {{Kept(r)} : r \in DOMAIN Old}]
    BY DEF Init
  <2>5. mapping \in [Name -> SUBSET Found]
    BY <2>3, <2>4 DEF NoFind
  <2>6. TypeOK
    BY <2>1, <2>2, <2>5 DEF Init, TypeOK
  <2>7. ASSUME NEW n \in Name, mapping[n] # NoFind
        PROVE  \E f \in Found : /\ mapping[n] = {f} /\ Declares(f) = n
                                /\ f.version = 0 /\ f.repo \in DOMAIN Old
    <3>1. PICK r \in DOMAIN Old : mapping[n] = {Kept(r)}
      BY <2>4, <2>7
    <3> QED
      BY <2>3, <3>1 DEF Init
  <2>8. \A s \in Scan : got[s] = NoFind
    BY DEF Init
  <2>9. FindInv
    BY <2>2, <2>7, <2>8 DEF FindInv
  <2>10. OvertakenInv
    BY <2>8 DEF OvertakenInv, NoFind
  <2> QED
    BY <2>6, <2>9, <2>10 DEF ScannerInv
<1> QED
  BY <1>1, StepKeeps, PTL DEF Spec

\* Every variable has its type.
THEOREM TypeCorrect == Spec => []TypeOK
BY Inductive, PTL DEF ScannerInv

\* A repository's workload is brought up to date by scan s, or will be when s saves
\* what it has fetched.
Brought(s, r) ==
  \E q \in clean[s] : /\ Declares(Now(q)) = Declares(Now(r))
                      /\ got[s] = {Now(q)} \/ mapping[Declares(Now(r))] = {Now(q)}

\* As long as nothing disturbs a scan, what it holds is what main has, and what it
\* has visited is brought up to date.
CleanOf(s) ==
  clean[s] # {} =>
    /\ left[s] \subseteq clean[s]
    /\ \A g \in got[s] : g.repo \in clean[s] /\ g = Now(g.repo)
    /\ \A r \in clean[s] \ left[s] : Readable(r, file[r]) => Brought(s, r)

\* A scan's own steps, while it stays clean.
LEMMA CleanWork ==
  ASSUME ScannerInv, NEW s \in Scan, CleanOf(s), Work(s)
  PROVE  CleanOf(s)'
<1>t. /\ clean \in [Scan -> SUBSET Repo] /\ left \in [Scan -> SUBSET Repo]
      /\ got \in [Scan -> SUBSET Found] /\ mapping \in [Name -> SUBSET Found]
  BY DEF ScannerInv, TypeOK
<1>1. CASE clean'[s] = {}
  BY <1>1 DEF CleanOf
<1>2. ASSUME NEW r \in Repo, Fetch(s, r), clean'[s] # {} PROVE CleanOf(s)'
  <2>1. /\ r \in left[s] /\ left'[s] = left[s] \ {r} /\ got[s] = NoFind
        /\ UNCHANGED <<file, mapping>> /\ clean'[s] = clean[s] /\ clean[s] # {}
        /\ \/ Readable(r, file[r]) /\ got'[s] = {Now(r)}
           \/ ~Readable(r, file[r]) /\ got'[s] = NoFind
    BY <1>t, <1>2 DEF Fetch
  <2>2. \A q : Now(q)' = Now(q) /\ Now(q).repo = q
    BY <2>1 DEF Now, Find
  <2>3. ASSUME NEW q \in clean[s] \ left'[s], Readable(q, file[q]) PROVE Brought(s, q)'
    <3>1. CASE q = r
      <4>1. got'[s] = {Now(q)} /\ q \in clean'[s]
        BY <2>1, <2>3, <3>1
      <4> QED
        BY <2>2, <4>1 DEF Brought
    <3>2. CASE q # r
      <4>1. PICK p \in clean[s] : /\ Declares(Now(p)) = Declares(Now(q))
                                  /\ got[s] = {Now(p)} \/ mapping[Declares(Now(q))] = {Now(p)}
        BY <2>1, <2>3, <3>2 DEF CleanOf, Brought
      <4>2. mapping'[Declares(Now(q))] = {Now(p)}
        BY <2>1, <4>1 DEF NoFind
      <4> QED
        BY <2>1, <2>2, <4>1, <4>2 DEF Brought
    <3> QED
      BY <3>1, <3>2
  <2>4. /\ left'[s] \subseteq clean'[s]
        /\ \A g \in got'[s] : g.repo \in clean'[s] /\ g = Now(g.repo)'
    BY <2>1, <2>2 DEF CleanOf, NoFind
  <2> QED
    BY <2>1, <2>3, <2>4 DEF CleanOf
<1>3. ASSUME Save(s), clean'[s] # {} PROVE CleanOf(s)'
  <2>1. PICK f \in got[s] : mapping' = [mapping EXCEPT ![Declares(f)] = {f}]
    BY <1>t, <1>3 DEF Save
  <2>2. /\ UNCHANGED <<file, left>> /\ got'[s] = {} /\ clean'[s] = clean[s] /\ clean[s] # {}
    BY <1>t, <1>3 DEF Save, Overtakes, NoFind
  <2>3. got[s] = {f} /\ f.repo \in clean[s] /\ f = Now(f.repo)
    BY <2>1, <2>2 DEF ScannerInv, FindInv, NoFind, CleanOf
  <2>4. \A q : Now(q)' = Now(q)
    BY <2>2 DEF Now
  <2>5. f \in Found /\ Sound(f)
    BY <2>1 DEF ScannerInv, FindInv, NoFind
  <2>6. Declares(f) \in Name
    BY <2>5, WrittenAssumption, MaxVersionAssumption DEF Declares, Found, Version, Sound,
       ScannerInv, FindInv
  <2>7. ASSUME NEW q \in clean[s] \ left[s], Readable(q, file[q]) PROVE Brought(s, q)'
    <3>1. PICK p \in clean[s] : /\ Declares(Now(p)) = Declares(Now(q))
                                /\ got[s] = {Now(p)} \/ mapping[Declares(Now(q))] = {Now(p)}
      BY <2>2, <2>7 DEF CleanOf, Brought
    <3>2. CASE Declares(Now(q)) = Declares(f)
      <4>1. mapping'[Declares(Now(q))] = {Now(f.repo)}
        BY <1>t, <2>1, <2>3, <2>6, <3>2
      <4>2. Declares(Now(f.repo)) = Declares(Now(q))
        BY <2>3, <3>2
      <4> QED
        BY <2>2, <2>3, <2>4, <4>1, <4>2 DEF Brought
    <3>3. CASE Declares(Now(q)) # Declares(f)
      <4>1. mapping'[Declares(Now(q))] = {Now(p)}
        BY <1>t, <2>1, <2>3, <3>1, <3>3
      <4> QED
        BY <2>2, <2>4, <3>1, <4>1 DEF Brought
    <3> QED
      BY <3>2, <3>3
  <2> QED
    BY <2>2, <2>7 DEF CleanOf
<1> QED
  BY <1>1, <1>2, <1>3 DEF Work

LEMMA CleanStep ==
  ASSUME ScannerInv, [Next]_vars, NEW s \in Scan, CleanOf(s)
  PROVE  CleanOf(s)'
<1>t. /\ clean \in [Scan -> SUBSET Repo] /\ left \in [Scan -> SUBSET Repo]
      /\ got \in [Scan -> SUBSET Found] /\ registered \subseteq Repo
  BY DEF ScannerInv, TypeOK
\* Who leaves the scan and the mappings alone.
<1>u. ASSUME clean'[s] = clean[s], left'[s] = left[s], got'[s] = got[s],
             UNCHANGED <<file, mapping>>
      PROVE  CleanOf(s)'
  <2>1. \A q : Now(q)' = Now(q)
    BY <1>u DEF Now
  <2>2. \A q : Brought(s, q) => Brought(s, q)'
    BY <1>u, <2>1 DEF Brought
  <2> QED
    BY <1>u, <2>1, <2>2 DEF CleanOf
<1>e. clean'[s] = {} => CleanOf(s)'
  BY DEF CleanOf
<1>1. CASE UNCHANGED vars
  BY <1>1, <1>u DEF vars, historyVars
<1>2. CASE Restart \/ \E r \in Repo : Commit(r)
  BY <1>2, <1>e DEF Restart, Commit
<1>3. CASE \E repos \in SUBSET Repo \ {{}} : RegisterTenantRepos(repos)
  BY <1>3, <1>u DEF RegisterTenantRepos, historyVars
<1>4. CASE Begin(s)
  <2>1. clean'[s] = registered /\ left'[s] = registered /\ got'[s] = {}
    BY <1>t, <1>4 DEF Begin, Resting, NoFind
  <2> QED
    BY <2>1 DEF CleanOf
<1>5. ASSUME NEW q \in Scan, q # s, Begin(q) PROVE CleanOf(s)'
  BY <1>t, <1>5, <1>u DEF Begin
<1>6. ASSUME NEW q \in Scan, q # s, NEW r \in Repo, Fetch(q, r) PROVE CleanOf(s)'
  <2>1. clean' = clean \/ clean' = [clean EXCEPT ![q] = {}]
    BY <1>t, <1>6 DEF Fetch
  <2>2. clean'[s] = clean[s] /\ left'[s] = left[s] /\ got'[s] = got[s]
    BY <1>t, <1>6, <2>1 DEF Fetch
  <2> QED
    BY <1>6, <1>u, <2>2 DEF Fetch
<1>7. ASSUME NEW q \in Scan, q # s, Save(q) PROVE CleanOf(s)'
  <2>1. CASE Overtakes(q)
    BY <1>7, <1>e, <2>1 DEF Overtakes
  <2>2. CASE ~Overtakes(q)
    BY <1>t, <1>7, <1>u, <2>2 DEF Save
  <2> QED
    BY <2>1, <2>2
<1> QED
  BY <1>1, <1>2, <1>3, <1>4, <1>5, <1>6, <1>7, CleanWork DEF Next, Work

\* A scan that nothing disturbs brings the mapping of every workload its repositories
\* declare up to date, for any number of repositories, renamings and other scans
\* before and after (scanner.go:45-97).
THEOREM ScansBringUpToDate == Spec => []MappingsCurrent
<1>1. Init => \A s \in Scan : CleanOf(s)
  BY DEF Init, CleanOf
<1>2. ScannerInv /\ (\A s \in Scan : CleanOf(s)) /\ [Next]_vars
        => \A s \in Scan : CleanOf(s)'
  BY CleanStep
<1>3. ASSUME \A s \in Scan : CleanOf(s) PROVE MappingsCurrent
  <2> SUFFICES ASSUME NEW s \in Scan, Resting(s), NEW r \in clean[s], Readable(r, file[r])
               PROVE  \E q \in clean[s] : /\ Declares(Now(q)) = Declares(Now(r))
                                          /\ mapping[Declares(Now(r))] = {Now(q)}
    BY DEF MappingsCurrent
  <2>1. Brought(s, r)
    BY <1>3 DEF CleanOf, Resting
  <2> QED
    BY <2>1 DEF Brought, Resting, NoFind
<1> DEFINE Clean == \A s \in Scan : CleanOf(s)
<1>4. Clean /\ ScannerInv /\ [Next]_vars => Clean'
  BY <1>2
<1>5. Init => Clean
  BY <1>1
<1>6. Clean => MappingsCurrent
  BY <1>3
<1> HIDE DEF Clean
<1> QED
  BY <1>4, <1>5, <1>6, Inductive, PTL DEF Spec

\* A mapping goes back to an older version only when scans overlap
\* (scanner.go:69-97).
THEOREM OnlyOverlapGoesBack == Spec => BackOnlyByOverlap
<1> DEFINE Back == \A n \in Name : \A f \in mapping[n], g \in mapping'[n] :
                     f.repo = g.repo /\ g.version < f.version =>
                       \E s \in Scan : overtaken[s] /\ got[s] = {g}
<1>1. ASSUME ScannerInv, [Next]_vars PROVE Back
  <2>1. ASSUME NEW s \in Scan, Save(s) PROVE Back
    BY <1>1, <2>1, SaveKeeps
  <2>2. ASSUME UNCHANGED mapping PROVE Back
    <3>1. \A n \in Name : \A f, g \in mapping[n] : f = g /\ f.version \in Nat
      BY <1>1, MaxVersionAssumption DEF ScannerInv, FindInv, NoFind, Found, Version
    <3> QED
      BY <2>2, <3>1
  <2> QED
    BY <1>1, <2>1, <2>2, OthersKeep DEF Next, Work, Commit, Fetch
<1>2. ScannerInv /\ [Next]_vars => [Back]_vars
  BY <1>1
<1> QED
  BY <1>2, Inductive, PTL DEF Spec, BackOnlyByOverlap

-----------------------------------------------------------------------------
(* A scan wears itself out.                                                *)

\* Two steps for each repository to visit, one for the definition to save.
ScanLeft(s) == 2 * Cardinality(left[s]) + (IF got[s] = NoFind THEN 0 ELSE 1)

\* A scan has a bounded number of steps to go, none exactly when it rests.
ScansBounded ==
  \A s \in Scan : /\ ScanLeft(s) \in 0..(2 * Cardinality(Repo) + 1)
                  /\ ScanLeft(s) = 0 <=> Resting(s)

\* Every step of a scan leaves it less to do, and nobody gives it more: not another
\* scan, nor a registration, nor a change of what it reads.
ScansWearOut ==
  \A s \in Scan : ~Resting(s) => /\ ScanLeft(s)' <= ScanLeft(s)
                                 /\ Work(s) => ScanLeft(s)' < ScanLeft(s)

LEMMA ScanSizes ==
  ASSUME TypeOK, NEW s \in Scan
  PROVE  /\ IsFiniteSet(left[s]) /\ Cardinality(left[s]) \in 0..Cardinality(Repo)
         /\ Cardinality(left[s]) = 0 <=> left[s] = {}
         /\ Cardinality(Repo) \in Nat
<1>1. left[s] \subseteq Repo
  BY DEF TypeOK
<1> QED
  BY <1>1, RepoAssumption, FS_Subset, FS_CardinalityType, FS_EmptySet

LEMMA WorkLowers ==
  ASSUME TypeOK, NEW s \in Scan, Work(s)
  PROVE  ScanLeft(s)' < ScanLeft(s)
<1>1. IsFiniteSet(left[s]) /\ Cardinality(left[s]) \in Nat
  BY ScanSizes
<1>2. ASSUME Save(s) PROVE ScanLeft(s)' < ScanLeft(s)
  <2>1. left'[s] = left[s] /\ got'[s] = NoFind /\ got[s] # NoFind
    BY <1>2 DEF Save, TypeOK
  <2> QED
    BY <1>1, <2>1 DEF ScanLeft
<1>3. ASSUME NEW r \in Repo, Fetch(s, r) PROVE ScanLeft(s)' < ScanLeft(s)
  <2>1. r \in left[s] /\ left'[s] = left[s] \ {r} /\ got[s] = NoFind
    BY <1>3 DEF Fetch, TypeOK
  <2>2. Cardinality(left'[s]) = Cardinality(left[s]) - 1
    BY <1>1, <2>1, FS_RemoveElement
  <2> QED
    BY <1>1, <2>1, <2>2 DEF ScanLeft
<1> QED
  BY <1>2, <1>3 DEF Work

\* What others do.
LEMMA ScanUndisturbed ==
  ASSUME TypeOK, [Next]_vars, NEW s \in Scan, ~Resting(s), ~Work(s)
  PROVE  (left'[s] = left[s] /\ got'[s] = got[s]) \/ (left'[s] = {} /\ got'[s] = NoFind)
<1>1. ASSUME NEW q \in Scan, Begin(q) \/ Work(q) PROVE left'[s] = left[s] /\ got'[s] = got[s]
  <2>1. q # s
    BY <1>1 DEF Begin
  <2> QED
    BY <1>1, <2>1 DEF Begin, Work, Save, Fetch, TypeOK
<1> QED
  BY <1>1 DEF Next, Commit, RegisterTenantRepos, Restart, vars

\* A scan of n repositories ends within 2 n steps, whichever of them fail and
\* whatever is registered meanwhile (scanner.go:45-97): what ScansEnd needs besides
\* fairness.
THEOREM ScansEndAtLast == Spec => []ScansBounded /\ [][ScansWearOut]_vars
<1>1. TypeOK => ScansBounded
  <2> SUFFICES ASSUME TypeOK, NEW s \in Scan
               PROVE  /\ ScanLeft(s) \in 0..(2 * Cardinality(Repo) + 1)
                      /\ ScanLeft(s) = 0 <=> Resting(s)
    BY DEF ScansBounded
  <2> QED
    BY ScanSizes DEF ScanLeft, Resting
<1>2. TypeOK /\ [Next]_vars => [ScansWearOut]_vars
  <2> SUFFICES ASSUME TypeOK, [Next]_vars, NEW s \in Scan, ~Resting(s)
               PROVE  /\ ScanLeft(s)' <= ScanLeft(s)
                      /\ Work(s) => ScanLeft(s)' < ScanLeft(s)
    BY DEF ScansWearOut
  <2>1. Cardinality(left[s]) \in Nat
    BY ScanSizes
  <2>2. CASE Work(s)
    <3>1. ScanLeft(s)' < ScanLeft(s)
      BY <2>2, WorkLowers
    <3>2. Cardinality(left'[s]) \in Nat
      <4>1. left'[s] \subseteq left[s]
        BY <2>2 DEF Work, Save, Fetch, TypeOK
      <4> QED
        BY <4>1, ScanSizes, FS_Subset, FS_CardinalityType
    <3> QED
      BY <2>1, <3>1, <3>2 DEF ScanLeft
  <2>3. CASE ~Work(s)
    <3>1. CASE left'[s] = left[s] /\ got'[s] = got[s]
      BY <2>1, <2>3, <3>1 DEF ScanLeft
    <3>2. CASE left'[s] = {} /\ got'[s] = NoFind
      <4>1. ScanLeft(s)' = 0
        BY <3>2, FS_EmptySet DEF ScanLeft
      <4> QED
        BY <2>1, <2>3, <4>1 DEF ScanLeft
    <3> QED
      BY <2>3, <3>1, <3>2, ScanUndisturbed
  <2> QED
    BY <2>2, <2>3
<1> QED
  BY TypeCorrect, <1>1, <1>2, PTL DEF Spec

-----------------------------------------------------------------------------
(* Definitions.                                                            *)

\* The ranges that Means looks at.
LEMMA SmallRanges ==
  1..(1-1) = {} /\ 1..(2-1) = {1} /\ 1..(3-1) = {1, 2} /\ 1..3 = {1, 2, 3}
OBVIOUS

\* Of three wishes of which the last is one, the first that is one.
LEMMA FirstWish ==
  ASSUME NEW w, w[3] # ""
  PROVE  (CHOOSE i \in 1..3 : w[i] # "" /\ \A j \in 1..(i-1) : w[j] = "") =
           IF w[1] # "" THEN 1 ELSE IF w[2] # "" THEN 2 ELSE 3
<1> DEFINE first   == IF w[1] # "" THEN 1 ELSE IF w[2] # "" THEN 2 ELSE 3
           IsIt(i) == w[i] # "" /\ \A j \in 1..(i-1) : w[j] = ""
<1>1. 1..3 = {1, 2, 3}
  BY SmallRanges
<1>2. 1..(1-1) = {} /\ 1..(2-1) = {1} /\ 1..(3-1) = {1, 2}
  BY SmallRanges
<1>3. /\ IsIt(1) <=> w[1] # ""
      /\ IsIt(2) <=> w[1] = "" /\ w[2] # ""
      /\ IsIt(3) <=> w[1] = "" /\ w[2] = ""
  BY <1>1, <1>2
<1> HIDE DEF IsIt
<1>4. \A i \in {1, 2, 3} : IsIt(i) <=> i = first
  BY <1>3
<1>5. (CHOOSE i \in 1..3 : IsIt(i)) = first
  <2>1. first \in {1, 2, 3}
    OBVIOUS
  <2> HIDE DEF first
  <2> QED
    BY <1>1, <1>4, <2>1
<1> QED
  BY <1>5 DEF IsIt

\* The branch that the parser fills in is the one the definition means.
LEMMA ParseMeans ==
  ASSUME NEW def, NEW e \in DOMAIN def.paths
  PROVE  /\ DOMAIN Parse(def) = DOMAIN def.paths
         /\ Parse(def)[e].path = def.paths[e].path
         /\ Parse(def)[e].branch = Means(def, e)
<1> DEFINE own    == Decode(def.paths[e]).branch
           wishes == <<own, def.branch, "main">>
<1>1. /\ DOMAIN Parse(def) = DOMAIN def.paths
      /\ Parse(def)[e].path = def.paths[e].path
      /\ Parse(def)[e].branch = Or(own, Or(def.branch, "main"))
  BY DEF Parse, Decode
<1>2. wishes[1] = own /\ wishes[2] = def.branch /\ wishes[3] = "main"
  OBVIOUS
<1> DEFINE first == CHOOSE i \in 1..3 : wishes[i] # "" /\ \A j \in 1..(i-1) : wishes[j] = ""
<1>3. Means(def, e) = wishes[first]
  BY DEF Means
<1> HIDE DEF own, wishes
<1>4. first = IF wishes[1] # "" THEN 1 ELSE IF wishes[2] # "" THEN 2 ELSE 3
  <2>1. wishes[3] # ""
    BY <1>2
  <2> QED
    BY ONLY <2>1, FirstWish
<1> HIDE DEF first
<1> QED
  BY <1>1, <1>2, <1>3, <1>4 DEF Or

\* Of a definition that parses, every environment is deployed.
LEMMA ParsesDeploysAll ==
  ASSUME NEW def, Parses(def)
  PROVE  Deployed(Parse(def)) = DOMAIN def.paths
<1>1. \A e \in DOMAIN def.paths : /\ e \in Env /\ e \in DOMAIN Parse(def)
                                  /\ Parse(def)[e].path # ""
  BY ParseMeans DEF Parses
<1>2. DOMAIN Parse(def) = DOMAIN def.paths
  BY DEF Parse
<1> QED
  BY <1>1, <1>2 DEF Deployed

\* Scans take and save only definitions that parse.
ReadInv ==
  /\ \A s \in Scan : \A f \in got[s] : Readable(f.repo, f.version)
  /\ \A n \in Name : \A f \in mapping[n] : f.version = 0 \/ Readable(f.repo, f.version)

LEMMA ReadStep ==
  ASSUME TypeOK, ReadInv, [Next]_vars
  PROVE  ReadInv'
<1>1. ASSUME NEW s \in Scan, NEW r \in Repo, Fetch(s, r) PROVE ReadInv'
  <2>1. /\ mapping' = mapping
        /\ \/ got' = got
           \/ Readable(r, file[r]) /\ got' = [got EXCEPT ![s] = {Find(r, file[r])}]
    BY <1>1 DEF Fetch, Now
  <2> QED
    BY <2>1 DEF ReadInv, Find, TypeOK
<1>2. ASSUME NEW s \in Scan, Save(s) PROVE ReadInv'
  <2>1. PICK f \in got[s] : mapping' \in {mapping, [mapping EXCEPT ![Declares(f)] = {f}]}
    BY <1>2 DEF Save, NoFind
  <2>2. got' = [got EXCEPT ![s] = {}]
    BY <1>2 DEF Save, NoFind
  <2> QED
    BY <2>1, <2>2 DEF ReadInv, TypeOK
<1>3. ASSUME mapping' = mapping, got' = got \/ got' = [s \in Scan |-> {}] PROVE ReadInv'
  BY <1>3 DEF ReadInv
<1> QED
  BY <1>1, <1>2, <1>3 DEF Next, Work, Commit, RegisterTenantRepos, Restart, Begin, NoFind, vars

\* Whatever paths an item is given, every environment is deployed at the branch that
\* some version on main means for it, for all definitions, repositories and scans
\* (parser.go:46-63, types.go:131-147, item.go:51-58).
THEOREM DeploysAsMeant == Spec => []DeployedAsMeant
<1>1. Init => ReadInv
  BY DEF Init, ReadInv, NoFind, Kept, Find
<1>2. ReadInv => DeployedAsMeant
  <2> SUFFICES ASSUME ReadInv, NEW n \in Name, NEW f \in mapping[n], NEW asked \in Given,
                      NEW e \in Deployed(ItemPaths(asked, Paths(f)))
               PROVE  LET paths == ItemPaths(asked, Paths(f)) IN
                        IF e \in DOMAIN asked THEN paths[e] = Decode(asked[e])
                        ELSE IF f.version = 0 THEN paths[e] = Decode(Old[f.repo].paths[e])
                        ELSE /\ paths[e].branch = Means(Written[f.repo][f.version], e)
                             /\ Deployed(paths) = DOMAIN Written[f.repo][f.version].paths
    BY DEF DeployedAsMeant
  <2> DEFINE paths == ItemPaths(asked, Paths(f))
             def   == Written[f.repo][f.version]
  <2>0. e \in DOMAIN paths
    BY DEF Deployed
  <2>1. CASE DOMAIN asked # {}
    <3>1. paths = DecodeAll(asked)
      BY <2>1 DEF ItemPaths
    <3> QED
      BY <2>0, <3>1 DEF DecodeAll
  <2>2. CASE DOMAIN asked = {} /\ f.version = 0
    <3>1. paths = DecodeAll(Old[f.repo].paths)
      BY <2>2 DEF ItemPaths, Paths
    <3> QED
      BY <2>0, <2>2, <3>1 DEF DecodeAll
  <2>3. CASE DOMAIN asked = {} /\ f.version # 0
    <3>1. paths = Parse(def)
      BY <2>3 DEF ItemPaths, Paths
    <3>2. Parses(def)
      BY <2>3 DEF ReadInv, Readable
    <3>3. e \in DOMAIN def.paths
      BY <2>0, <3>1 DEF Parse
    <3> QED
      BY <2>3, <3>1, <3>2, <3>3, ParseMeans, ParsesDeploysAll
  <2> QED
    BY <2>1, <2>2, <2>3
<1> QED
  BY <1>1, <1>2, ReadStep, TypeCorrect, PTL DEF Spec

-----------------------------------------------------------------------------
(* The patch of a manifest and its validation.                             *)

\* What was validated is what is committed, and it is a manifest.
Validated ==
  /\ at \in {"fetched", "patched", "committed", "refused"}
  /\ current \in Seq(Doc)
  /\ reco \in Reco
  /\ new \in Seq(Doc)
  /\ Committed => ValidateNeverReduce(current, new)

\* A patched document is a document.
LEMMA PatchedDoc ==
  ASSUME NEW doc \in Doc, NEW r \in Reco
  PROVE  patchHPADocument(doc, r) \in Doc
BY DEF patchHPADocument, Doc, Reco, Kind, Shape

\* Patching a manifest yields a manifest of as many documents.
LEMMA PatchedManifest ==
  ASSUME NEW m \in Seq(Doc), NEW r \in Reco
  PROVE  ApplyHpaRecommendation(m, r) \in Seq(Doc)
<1>1. \A i \in 1..Len(m) : m[i] \in Doc
  OBVIOUS
<1>2. \A i \in 1..Len(m) : ApplyHpaRecommendation(m, r)[i] \in Doc
  BY <1>1, PatchedDoc DEF ApplyHpaRecommendation
<1>3. ApplyHpaRecommendation(m, r) = [i \in 1..Len(m) |-> ApplyHpaRecommendation(m, r)[i]]
  BY DEF ApplyHpaRecommendation
<1> QED
  BY <1>2, <1>3

\* Of a manifest with one HPA, the HPA is what is read (extractHPA finds the
\* document that ApplyHpaRecommendation would patch).
LEMMA ReadsTheHPA ==
  ASSUME NEW m \in Seq(Doc), Single(m)
  PROVE  /\ extractHPA(m).min = HpaOf(m).min
         /\ extractHPA(m).max = HpaOf(m).max
         /\ HpaOf(m).metric => extractHPA(m).cpu = HpaOf(m).cpu
<1>1. PICK i \in DOMAIN m :
        /\ m[i].kind = "hpa" /\ m[i].spec = "mapping"
        /\ \A j \in DOMAIN m : m[j].kind = "hpa" => j = i
  BY DEF Single
<1>2. ReadableDocs(m) = DOMAIN m
  <2>1. ASSUME NEW k \in DOMAIN m, NEW j \in 1..k
        PROVE  m[j].kind # "broken"
    BY <2>1 DEF Single, AllParse
  <2> QED
    BY <2>1 DEF ReadableDocs
<1>3. HPAs(m) = {i}
  BY <1>1, <1>2 DEF HPAs
<1>4. First(m) = i
  BY <1>1, <1>3 DEF First
<1>5. (CHOOSE k \in DOMAIN m : m[k].kind = "hpa") = i
  BY <1>1
<1> QED
  BY <1>1, <1>4, <1>5 DEF extractHPA, HpaOf

\* The invariant holds at first and every step keeps it.
LEMMA ValidatedInv == PatchSpec => []Validated
<1>1. PatchInit => Validated
  <2> SUFFICES ASSUME PatchInit PROVE Validated
    OBVIOUS
  <2>1. reco \in Reco
    <3>1. NoReco \in Reco
      BY DEF NoReco, Reco
    <3> QED
      BY <3>1, RecosAssumption DEF PatchInit
  <2>2. current \in Seq(Doc) /\ new \in Seq(Doc)
    BY ManifestsAssumption DEF PatchInit
  <2> QED
    BY <2>1, <2>2 DEF PatchInit, Validated, Committed
<1>2. Validated /\ [PatchNext]_patchVars => Validated'
  <2> SUFFICES ASSUME Validated, [PatchNext]_patchVars
               PROVE  Validated'
    OBVIOUS
  <2>1. CASE Patch
    <3>1. at' \in {"patched", "refused"} /\ UNCHANGED <<current, reco>>
      BY <2>1 DEF Patch
    <3>2. new' \in Seq(Doc)
      <4>1. CASE new' \in Manifests
        BY <4>1, ManifestsAssumption
      <4>2. CASE new' = ApplyHpaRecommendation(current, reco)
        BY <4>2, PatchedManifest DEF Validated
      <4>3. CASE UNCHANGED new
        BY <4>3 DEF Validated
      <4> QED
        BY <2>1, <4>1, <4>2, <4>3 DEF Patch
    <3> QED
      BY <3>1, <3>2 DEF Validated, Committed
  <2>2. CASE ValidatePatch
    BY <2>2 DEF ValidatePatch, Validated, Committed
  <2>3. CASE UNCHANGED patchVars
    BY <2>3 DEF patchVars, Validated, Committed, ValidateNeverReduce
  <2> QED
    BY <2>1, <2>2, <2>3 DEF PatchNext
<1> QED
  BY <1>1, <1>2, PTL DEF PatchSpec

\* Of a manifest with one HPA, neither replica bound is ever lowered by what is
\* committed, recommended or given, and its CPU target is above the floor.
THEOREM NeverReducedSingle == PatchSpec => []SingleNeverReduced
<1>1. Validated => SingleNeverReduced
  <2> SUFFICES ASSUME Validated, Committed, Single(current), Single(new)
               PROVE  /\ HpaOf(new).min >= HpaOf(current).min
                      /\ HpaOf(new).max >= HpaOf(current).max
                      /\ HpaOf(new).metric /\ HpaOf(new).cpu > 0 =>
                           HpaOf(new).cpu >= SafeFloor
    BY DEF SingleNeverReduced
  <2>1. /\ extractHPA(current).min = HpaOf(current).min
        /\ extractHPA(current).max = HpaOf(current).max
    BY ReadsTheHPA DEF Validated
  <2>2. /\ extractHPA(new).min = HpaOf(new).min
        /\ extractHPA(new).max = HpaOf(new).max
        /\ HpaOf(new).metric => extractHPA(new).cpu = HpaOf(new).cpu
    BY ReadsTheHPA DEF Validated
  <2>3. PICK i \in DOMAIN new : new[i].kind = "hpa"
    BY DEF Single
  <2>4. HpaOf(new).cpu \in Nat
    <3>1. (CHOOSE k \in DOMAIN new : new[k].kind = "hpa") \in DOMAIN new
      BY <2>3
    <3>2. HpaOf(new) \in Doc
      BY <3>1 DEF HpaOf, Validated
    <3> QED
      BY <3>2 DEF Doc
  <2> QED
    BY <2>1, <2>2, <2>4 DEF Validated, ValidateNeverReduce, SafeFloor
<1> QED
  BY <1>1, ValidatedInv, PTL

\* Without given content, what is validated and committed is the recommendation
\* applied to the manifest that was fetched, and it could be applied.
Applied ==
  at \in {"patched", "committed"} /\ ~given =>
    CanApply(current, reco) /\ new = ApplyHpaRecommendation(current, reco)

LEMMA AppliedInv == PatchSpec => []Applied
<1>1. PatchInit => Applied
  BY DEF PatchInit, Applied
<1>2. Applied /\ [PatchNext]_patchVars => Applied'
  BY DEF Applied, PatchNext, Patch, ValidatePatch, patchVars
<1> QED
  BY <1>1, <1>2, PTL DEF PatchSpec

\* Documents are told apart by their fields.
LEMMA SameDoc ==
  ASSUME NEW a \in Doc, NEW b \in Doc, a.kind = b.kind, a.spec = b.spec,
         a.min = b.min, a.max = b.max, a.metric = b.metric, a.cpu = b.cpu
  PROVE  a = b
BY DEF Doc

\* What patching a document sets and what it leaves.
LEMMA PatchedFields ==
  ASSUME NEW doc \in Doc, NEW r \in Reco
  PROVE  LET p == patchHPADocument(doc, r)
         IN  /\ p.kind = doc.kind /\ p.spec = doc.spec /\ p.metric = doc.metric
             /\ p.min = r.min /\ p.max = r.max
             /\ p.cpu = IF doc.metric THEN r.cpu ELSE doc.cpu
BY DEF patchHPADocument, Doc

\* Patching a document again changes nothing.
LEMMA PatchedTwice ==
  ASSUME NEW doc \in Doc, NEW r \in Reco
  PROVE  patchHPADocument(patchHPADocument(doc, r), r) = patchHPADocument(doc, r)
<1> DEFINE p == patchHPADocument(doc, r)
           q == patchHPADocument(p, r)
<1>1. p \in Doc /\ q \in Doc
  BY PatchedDoc
<1>2. /\ p.kind = doc.kind /\ p.spec = doc.spec /\ p.metric = doc.metric
      /\ p.min = r.min /\ p.max = r.max /\ p.cpu = IF doc.metric THEN r.cpu ELSE doc.cpu
  BY PatchedFields
<1>3. /\ q.kind = p.kind /\ q.spec = p.spec /\ q.metric = p.metric
      /\ q.min = r.min /\ q.max = r.max /\ q.cpu = IF p.metric THEN r.cpu ELSE p.cpu
  BY <1>1, PatchedFields
<1> HIDE DEF p, q
<1>4. q.cpu = p.cpu
  BY <1>2, <1>3
<1>5. q = p
  BY <1>1, <1>2, <1>3, <1>4, SameDoc
<1> QED
  BY <1>5 DEF p, q

\* A recommended patch, of a manifest of any number of documents, changes nothing
\* but HPAs (apply.go:37-58).
THEOREM OthersUntouched == PatchSpec => []OnlyHPAsTouched
<1>1. Applied /\ Validated => OnlyHPAsTouched
  <2> SUFFICES ASSUME Applied, Validated, Committed, ~given
               PROVE  /\ Len(new) = Len(current)
                      /\ \A i \in DOMAIN current : current[i].kind # "hpa" => new[i] = current[i]
    BY DEF OnlyHPAsTouched
  <2>1. new = ApplyHpaRecommendation(current, reco) /\ current \in Seq(Doc) /\ new \in Seq(Doc)
    BY DEF Applied, Validated, Committed
  <2>2. DOMAIN new = DOMAIN current
    BY <2>1 DEF ApplyHpaRecommendation
  <2>3. Len(new) = Len(current)
    BY <2>1, <2>2
  <2> QED
    BY <2>1, <2>3 DEF ApplyHpaRecommendation, Patchable
<1> QED
  BY <1>1, AppliedInv, ValidatedInv, PTL

\* What is committed of a recommendation has an HPA with its bounds, and a second
\* application of it would change nothing (apply.go:61-107).
THEOREM Settles == PatchSpec => []PatchSettles
<1>1. Applied /\ Validated => PatchSettles
  <2> SUFFICES ASSUME Applied, Validated, Committed, ~given
               PROVE  /\ \E i \in DOMAIN new : /\ new[i].kind = "hpa"
                                               /\ new[i].min = reco.min
                                               /\ new[i].max = reco.max
                      /\ ApplyHpaRecommendation(new, reco) = new
    BY DEF PatchSettles
  <2>1. /\ CanApply(current, reco) /\ new = ApplyHpaRecommendation(current, reco)
        /\ current \in Seq(Doc) /\ reco \in Reco
    BY DEF Applied, Validated, Committed
  <2>2. /\ DOMAIN new = DOMAIN current
        /\ new = [i \in DOMAIN current |-> new[i]]
        /\ \A i \in DOMAIN current :
             new[i] = IF Patchable(current[i]) THEN patchHPADocument(current[i], reco)
                                               ELSE current[i]
    BY <2>1 DEF ApplyHpaRecommendation
  <2>3. \A i \in DOMAIN current : current[i] \in Doc
    BY <2>1
  <2>4. PICK i \in DOMAIN current : Patchable(current[i])
    BY <2>1 DEF CanApply
  <2>5. /\ new[i].kind = "hpa" /\ new[i].min = reco.min /\ new[i].max = reco.max
    BY <2>1, <2>2, <2>3, <2>4, PatchedFields DEF Patchable
  <2>6. ASSUME NEW j \in DOMAIN current
        PROVE  (IF Patchable(new[j]) THEN patchHPADocument(new[j], reco) ELSE new[j]) = new[j]
    <3>1. CASE Patchable(current[j])
      BY <2>1, <2>2, <2>3, <3>1, PatchedTwice
    <3>2. CASE ~Patchable(current[j])
      BY <2>2, <3>2
    <3> QED
      BY <3>1, <3>2
  <2>7. ApplyHpaRecommendation(new, reco) = new
    BY <2>2, <2>6 DEF ApplyHpaRecommendation
  <2> QED
    BY <2>2, <2>4, <2>5, <2>7
<1> QED
  BY <1>1, AppliedInv, ValidatedInv, PTL
==============================================================================
