-------------------------- MODULE Policies_proofs ---------------------------
(* The table of policies (PolicyTable) implements the map (PolicyMap),      *)
(* whatever saves the policies; the policies of a tenant are kept as that   *)
(* map would keep them, an enabled policy keeps its schedule, and the       *)
(* default overrules nobody who saved before it was asked for: for every    *)
(* set of environments and modes, and every number of requests and saves.   *)
EXTENDS Policies, TLAPS

-----------------------------------------------------------------------------
(* The table.                                                               *)

\* Rows are rows, and no two of them have the same key.
RowsInv ==
  /\ rows \subseteq Row
  /\ \A x, y \in rows : x.rule = y.rule /\ x.environment = y.environment => x = y

At(r, e) == {x \in rows : x.rule = r /\ x.environment = Nullable(e)}

\* Environments and NULL stand for scopes one to one.
LEMMA NullableAgrees ==
  /\ \A e \in Scope : Nullable(e) \in Environment \cup {Null} /\ Coalesce(Nullable(e)) = e
  /\ \A v \in Environment \cup {Null} : Coalesce(v) \in Scope /\ Nullable(Coalesce(v)) = v
BY EnvironmentAssumption, NullAssumption DEF Scope, Nullable, Coalesce

\* A key without a row reads "none".
LEMMA EntryOfNone ==
  ASSUME NEW r \in Rule, NEW e \in Scope, At(r, e) = {}
  PROVE  Entries[<<r, e>>] = "none"
<1>1. ModesAt(r, e) = {}
  BY DEF ModesAt, At
<1>2. <<r, e>> \in Rule \X Scope
  OBVIOUS
<1> QED
  BY <1>1, <1>2 DEF Entries

\* A key with a row reads its mode.
LEMMA EntryOfRow ==
  ASSUME RowsInv, NEW r \in Rule, NEW e \in Scope, NEW x \in At(r, e)
  PROVE  Entries[<<r, e>>] = x.mode /\ x.mode \in Mode /\ x.mode # "none"
<1>1. x \in rows /\ x.rule = r /\ x.environment = Nullable(e) /\ x.mode \in Mode
  BY DEF At, RowsInv, Row
<1>2. ModesAt(r, e) = {x.mode}
  BY <1>1 DEF ModesAt, RowsInv
<1>3. (CHOOSE mode \in Mode : {x.mode} = {mode}) = x.mode
  BY <1>1
<1>4. \E mode \in Mode : {x.mode} = {mode}
  BY <1>1
<1>5. <<r, e>> \in Rule \X Scope
  OBVIOUS
<1>6. Entries[<<r, e>>] =
        LET modes == ModesAt(r, e)
        IN  IF modes = {} THEN "none"
            ELSE IF \E mode \in Mode : modes = {mode} THEN CHOOSE mode \in Mode : modes = {mode}
            ELSE "ambiguous"
  BY <1>5 DEF Entries
<1>7. {x.mode} # {}
  OBVIOUS
<1> QED
  BY <1>1, <1>2, <1>3, <1>4, <1>6, <1>7, ModeAssumption

-----------------------------------------------------------------------------
(* Saving.                                                                 *)

\* The initial table is the initial map.
LEMMA EmptyMaps ==
  ASSUME Empty
  PROVE  RowsInv /\ Map!Init
<1>1. RowsInv
  BY DEF Empty, RowsInv
<1>2. \A r \in Rule, e \in Scope : ModesAt(r, e) = {}
  BY DEF Empty, ModesAt
<1>3. Entries = [k \in Rule \X Scope |-> "none"]
  BY <1>2 DEF Entries
<1> QED
  BY <1>1, <1>3 DEF Map!Init, Map!Rule, Map!Scope, Rule, Scope

\* Saving keeps the keys unique (postgres.go:218).
LEMMA UpsertKeepsRows ==
  ASSUME RowsInv, NEW r \in Rule, NEW e \in Scope, NEW mode \in Mode, Upsert(r, e, mode)
  PROVE  RowsInv'
<1> DEFINE new == [rule |-> r, environment |-> Nullable(e), mode |-> mode]
<1>1. new \in Row
  BY NullableAgrees DEF Row
<1>2. rows' = {row \in rows : ~Conflicts(row, r, e)} \cup {new}
  BY DEF Upsert
<1>3. \A x \in rows : ~Conflicts(x, r, e) => x.rule # r \/ x.environment # Nullable(e)
  BY NullableAgrees DEF Conflicts
<1> QED
  BY <1>1, <1>2, <1>3 DEF RowsInv

\* Saving a policy saves it in the map.
LEMMA UpsertMaps ==
  ASSUME RowsInv, NEW r \in Rule, NEW e \in Scope, NEW mode \in Mode, Upsert(r, e, mode)
  PROVE  Entries' = [Entries EXCEPT ![<<r, e>>] = mode]
<1> DEFINE new == [rule |-> r, environment |-> Nullable(e), mode |-> mode]
<1>1. rows' = {row \in rows : ~Conflicts(row, r, e)} \cup {new}
  BY DEF Upsert
<1>2. ModesAt(r, e)' = {mode}
  <2>1. \A x \in rows' : x.rule = r /\ x.environment = Nullable(e) => x = new
    BY <1>1, NullableAgrees DEF Conflicts
  <2>2. new \in rows'
    BY <1>1
  <2> QED
    BY <2>1, <2>2 DEF ModesAt
<1>3. ASSUME NEW q \in Rule, NEW s \in Scope, <<q, s>> # <<r, e>>
      PROVE  ModesAt(q, s)' = ModesAt(q, s)
  <2>1. \A x \in rows : x.rule = q /\ x.environment = Nullable(s) => ~Conflicts(x, r, e)
    BY <1>3, NullableAgrees DEF Conflicts
  <2>2. ~(new.rule = q /\ new.environment = Nullable(s))
    BY <1>3, NullableAgrees
  <2> QED
    BY <1>1, <2>1, <2>2 DEF ModesAt
<1>4. Entries[<<r, e>>]' = mode
  <2>1. \E m \in Mode : {mode} = {m}
    OBVIOUS
  <2>2. (CHOOSE m \in Mode : {mode} = {m}) = mode
    OBVIOUS
  <2> QED
    BY <1>2, <2>1, <2>2 DEF Entries
<1>5. \A k \in Rule \X Scope : k # <<r, e>> => Entries[k]' = Entries[k]
  BY <1>3 DEF Entries
<1> QED
  BY <1>4, <1>5 DEF Entries

-----------------------------------------------------------------------------
(* Reading.                                                                *)

\* Whether a tenant is eligible is the same in the table and in the map.
LEMMA EligibleAgrees ==
  ASSUME RowsInv, NEW r \in Rule
  PROVE  Eligible(r) <=> Map!Eligible(r)
<1>0. "*" \in Rule /\ Map!Scope = Scope
  BY DEF Rule, Map!Scope, Scope
<1>1. ASSUME Eligible(r) PROVE Map!Eligible(r)
  <2>1. PICK x \in rows : x.rule \in {r, "*"} /\ x.mode # "disabled"
    BY <1>1 DEF Eligible
  <2> DEFINE e == Coalesce(x.environment)
  <2>2. x.rule \in Rule /\ e \in Scope /\ x \in At(x.rule, e)
    BY <2>1, <1>0, NullableAgrees DEF RowsInv, Row, At
  <2>3. Entries[<<x.rule, e>>] = x.mode /\ x.mode # "none"
    BY <2>2, EntryOfRow
  <2>4. <<x.rule, e>> \in {r, "*"} \X Map!Scope
    BY <2>1, <2>2, <1>0
  <2> QED
    BY <2>1, <2>3, <2>4 DEF Map!Eligible
<1>2. ASSUME Map!Eligible(r) PROVE Eligible(r)
  <2>1. PICK k \in {r, "*"} \X Scope : Entries[k] \notin {"none", "disabled"}
    BY <1>2, <1>0 DEF Map!Eligible
  <2>2. k = <<k[1], k[2]>> /\ k[1] \in Rule /\ k[1] \in {r, "*"} /\ k[2] \in Scope
    BY <1>0
  <2>3. PICK x : x \in At(k[1], k[2])
    BY <2>1, <2>2, EntryOfNone
  <2>4. Entries[<<k[1], k[2]>>] = x.mode
    BY <2>2, <2>3, EntryOfRow
  <2> QED
    BY <2>1, <2>2, <2>3, <2>4 DEF Eligible, At
<1> QED
  BY <1>1, <1>2

Candidates(r, e) == {row \in rows : row.rule \in {r, "*"} /\ row.environment \in {e, Null}}

Best(r, e, x) ==
  x \in Candidates(r, e) /\ \A y \in Candidates(r, e) : Place(x, r) <= Place(y, r)

\* There is a row to choose.
LEMMA BestExists ==
  ASSUME NEW r, NEW e, Candidates(r, e) # {}
  PROVE  \E x : Best(r, e, x)
<1>1. \A x : Place(x, r) \in 0..3
  BY DEF Place
<1>2. CASE \E x \in Candidates(r, e) : Place(x, r) = 0
  BY <1>1, <1>2 DEF Best
<1>3. CASE /\ \A x \in Candidates(r, e) : Place(x, r) # 0
           /\ \E x \in Candidates(r, e) : Place(x, r) = 1
  BY <1>1, <1>3 DEF Best
<1>4. CASE /\ \A x \in Candidates(r, e) : Place(x, r) \notin {0, 1}
           /\ \E x \in Candidates(r, e) : Place(x, r) = 2
  BY <1>1, <1>4 DEF Best
<1>5. CASE \A x \in Candidates(r, e) : Place(x, r) \notin {0, 1, 2}
  BY <1>1, <1>5 DEF Best
<1> QED
  BY <1>1, <1>2, <1>3, <1>4, <1>5

\* The scope of all environments.  A name for it, for the SMT backend has none.
All == ""

\* It is a scope, the one that NULL stands for.
LEMMA AllIsNull ==
  /\ All \in Scope /\ Nullable(All) = Null
  /\ \A e \in Scope : e # All => Nullable(e) = e /\ e # Null
BY NullAssumption DEF All, Scope, Nullable

\* Where the map looks.
LEMMA FourPlaces ==
  ASSUME NEW r, NEW e
  PROVE  /\ Map!Places(r, e)[1] = <<r, e>>   /\ Map!Places(r, e)[2] = <<r, All>>
         /\ Map!Places(r, e)[3] = <<"*", e>> /\ Map!Places(r, e)[4] = <<"*", All>>
BY DEF Map!Places, All

\* These are the keys that candidates have.
LEMMA PlacesOfCandidates ==
  ASSUME RowsInv, NEW r \in Rule, NEW e \in Scope, NEW x
  PROVE  x \in Candidates(r, e) <=>
           x \in At(r, e) \/ x \in At(r, All) \/ x \in At("*", e) \/ x \in At("*", All)
<1>1. /\ All \in Scope /\ Nullable(All) = Null
      /\ e # All => Nullable(e) = e
  BY AllIsNull
<1>2. \A row \in rows : row.environment # All
  BY EnvironmentAssumption, NullAssumption DEF RowsInv, Row, All
<1> QED
  BY <1>1, <1>2 DEF Candidates, At

\* The order of the rows: the rule's own before the global one's, and of each the
\* environment's before the one of all environments.
LEMMA PlaceOfRow ==
  ASSUME NEW y, NEW r
  PROVE  /\ y.rule = r /\ y.environment # Null => Place(y, r) = 0
         /\ y.rule = r /\ y.environment = Null => Place(y, r) = 1
         /\ y.rule # r /\ y.environment # Null => Place(y, r) = 2
         /\ y.rule # r /\ y.environment = Null => Place(y, r) = 3
BY DEF Place

\* The better of two candidates has the key that the map looks at first.
LEMMA BestIsFirst ==
  ASSUME RowsInv, NEW r \in Rule, NEW e \in Scope, NEW x, Best(r, e, x)
  PROVE  /\ At(r, e) # {} => x \in At(r, e)
         /\ At(r, e) = {} /\ At(r, All) # {} => x \in At(r, All)
         /\ At(r, e) = {} /\ At(r, All) = {} /\ At("*", e) # {} => x \in At("*", e)
         /\ At(r, e) = {} /\ At(r, All) = {} /\ At("*", e) = {} => x \in At("*", All)
<1>1. /\ \A y : y \in Candidates(r, e) <=>
                y \in At(r, e) \/ y \in At(r, All) \/ y \in At("*", e) \/ y \in At("*", All)
      /\ x \in Candidates(r, e)
      /\ \A y \in Candidates(r, e) : Place(x, r) <= Place(y, r)
  BY PlacesOfCandidates DEF Best
<1>2. \/ x \in At(r, e) \/ x \in At(r, All)
      \/ r # "*" /\ (x \in At("*", e) \/ x \in At("*", All))
  BY <1>1
<1>3. Nullable(All) = Null /\ (e # All => Nullable(e) # Null)
  BY AllIsNull
<1>4. e # All => \A y \in At(r, e) : Place(y, r) = 0
  BY <1>3, PlaceOfRow DEF At
<1>5. \A y \in At(r, All) : Place(y, r) = 1
  BY <1>3, PlaceOfRow DEF At
<1>6. r # "*" /\ e # All => \A y \in At("*", e) : Place(y, r) = 2
  BY <1>3, PlaceOfRow DEF At
<1>7. r # "*" => \A y \in At("*", All) : Place(y, r) = 3
  BY <1>3, PlaceOfRow DEF At
<1>8. ASSUME NEW y \in At(r, e) PROVE x \in At(r, e)
  <2>1. Place(x, r) <= Place(y, r)
    BY <1>1
  <2> QED
    BY <1>2, <1>4, <1>5, <1>6, <1>7, <2>1
<1>9. ASSUME NEW y \in At(r, All), At(r, e) = {} PROVE x \in At(r, All)
  <2>1. Place(x, r) <= Place(y, r)
    BY <1>1
  <2> QED
    BY <1>2, <1>5, <1>6, <1>7, <1>9, <2>1
<1>10. ASSUME NEW y \in At("*", e), At(r, e) = {}, At(r, All) = {} PROVE x \in At("*", e)
  <2>1. Place(x, r) <= Place(y, r)
    BY <1>1
  <2> QED
    BY <1>2, <1>6, <1>7, <1>10, <2>1
<1> QED
  BY <1>1, <1>8, <1>9, <1>10

\* The table answers with the policy that the map answers with (postgres.go:
\* 189-203, memory.go:134-153).
LEMMA GetAgrees ==
  ASSUME RowsInv, NEW r \in Rule, NEW e \in Scope
  PROVE  Get(r, e) = Map!Get(r, e)
<1>0. /\ "*" \in Rule /\ All \in Scope
      /\ \A q \in Rule, s \in Scope : (Entries[<<q, s>>] # "none") <=> (At(q, s) # {})
  BY AllIsNull, EntryOfNone, EntryOfRow DEF Rule
<1>1. /\ Map!Holds(r, e, 1) <=> (At(r, e) # {})
      /\ Map!Holds(r, e, 2) <=> (At(r, All) # {})
      /\ Map!Holds(r, e, 3) <=> (At("*", e) # {})
      /\ Map!Holds(r, e, 4) <=> (At("*", All) # {})
  <2>1. /\ Map!Holds(r, e, 1) <=> (Entries[<<r, e>>] # "none")
        /\ Map!Holds(r, e, 2) <=> (Entries[<<r, All>>] # "none")
        /\ Map!Holds(r, e, 3) <=> (Entries[<<"*", e>>] # "none")
        /\ Map!Holds(r, e, 4) <=> (Entries[<<"*", All>>] # "none")
    BY FourPlaces DEF Map!Holds
  <2> QED
    BY <1>0, <2>1
<1>2. CASE Candidates(r, e) = {}
  <2>1. Get(r, e) = "none"
    BY <1>2 DEF Get, Candidates
  <2>2. At(r, e) = {} /\ At(r, All) = {} /\ At("*", e) = {} /\ At("*", All) = {}
    BY <1>2, PlacesOfCandidates
  <2>3. \A i \in 1..4 : ~Map!Holds(r, e, i)
    BY <1>1, <2>2
  <2> QED
    BY <2>1, <2>3 DEF Map!Get
<1>3. CASE Candidates(r, e) # {}
  <2> DEFINE b == CHOOSE y \in Candidates(r, e) :
                    \A z \in Candidates(r, e) : Place(y, r) <= Place(z, r)
             f == CHOOSE i \in 1..4 :
                    Map!Holds(r, e, i) /\ \A j \in 1..(i-1) : ~Map!Holds(r, e, j)
             First(i) == i \in 1..4 /\ Map!Holds(r, e, i)
                           /\ \A j \in 1..(i-1) : ~Map!Holds(r, e, j)
  <2>1. Get(r, e) = b.mode
    BY <1>3 DEF Get, Candidates
  <2>2. Best(r, e, b)
    <3>1. \E y \in Candidates(r, e) : \A z \in Candidates(r, e) : Place(y, r) <= Place(z, r)
      BY <1>3, BestExists DEF Best
    <3> QED
      BY <3>1 DEF Best
  <2>3. \E i \in 1..4 : Map!Holds(r, e, i)
    <3>1. At(r, e) # {} \/ At(r, All) # {} \/ At("*", e) # {} \/ At("*", All) # {}
      BY <1>3, PlacesOfCandidates
    <3> QED
      BY <1>1, <3>1
  <2>4. \E i : First(i)
    <3>1. CASE Map!Holds(r, e, 1)
      BY <3>1
    <3>2. CASE ~Map!Holds(r, e, 1) /\ Map!Holds(r, e, 2)
      BY <3>2
    <3>3. CASE ~Map!Holds(r, e, 1) /\ ~Map!Holds(r, e, 2) /\ Map!Holds(r, e, 3)
      BY <3>3
    <3>4. CASE /\ ~Map!Holds(r, e, 1) /\ ~Map!Holds(r, e, 2) /\ ~Map!Holds(r, e, 3)
               /\ Map!Holds(r, e, 4)
      BY <3>4
    <3> QED
      BY <2>3, <3>1, <3>2, <3>3, <3>4
  <2>5. First(f)
    BY <2>4
  <2>6. Map!Get(r, e) = Entries[Map!Places(r, e)[f]]
    BY <2>3 DEF Map!Get
  <2> HIDE DEF b, f
  <2>7. CASE f = 1
    <3>1. Map!Holds(r, e, 1)
      BY <2>5, <2>7
    <3>2. b \in At(r, e)
      BY <1>1, <2>2, <3>1, BestIsFirst
    <3>3. Entries[<<r, e>>] = b.mode
      BY <3>2, EntryOfRow
    <3> QED
      BY <2>1, <2>6, <2>7, <3>3, FourPlaces
  <2>8. CASE f = 2
    <3>1. ~Map!Holds(r, e, 1) /\ Map!Holds(r, e, 2)
      BY <2>5, <2>8
    <3>2. b \in At(r, All)
      BY <1>1, <2>2, <3>1, BestIsFirst
    <3>3. Entries[<<r, All>>] = b.mode
      BY <1>0, <3>2, EntryOfRow
    <3> QED
      BY <2>1, <2>6, <2>8, <3>3, FourPlaces
  <2>9. CASE f = 3
    <3>1. ~Map!Holds(r, e, 1) /\ ~Map!Holds(r, e, 2) /\ Map!Holds(r, e, 3)
      BY <2>5, <2>9
    <3>2. b \in At("*", e)
      BY <1>1, <2>2, <3>1, BestIsFirst
    <3>3. Entries[<<"*", e>>] = b.mode
      BY <1>0, <3>2, EntryOfRow
    <3> QED
      BY <2>1, <2>6, <2>9, <3>3, FourPlaces
  <2>10. CASE f = 4
    <3>1. ~Map!Holds(r, e, 1) /\ ~Map!Holds(r, e, 2) /\ ~Map!Holds(r, e, 3)
      BY <2>5, <2>10
    <3>2. b \in At("*", All)
      BY <1>1, <2>2, <3>1, BestIsFirst
    <3>3. Entries[<<"*", All>>] = b.mode
      BY <1>0, <3>2, EntryOfRow
    <3> QED
      BY <2>1, <2>6, <2>10, <3>3, FourPlaces
  <2> QED
    BY <2>5, <2>7, <2>8, <2>9, <2>10
<1> QED
  BY <1>2, <1>3

\* Whatever the table is asked it answers as the map does.
LEMMA AnswersAgree ==
  ASSUME RowsInv
  PROVE  AnswersAsMap
<1>1. \A r \in Rule : \A e \in Scope : Get(r, e) = Map!Get(r, e)
  BY GetAgrees
<1>2. \A r \in Rule : Eligible(r) = Map!Eligible(r)
  BY EligibleAgrees DEF Eligible, Map!Eligible
<1> QED
  BY <1>1, <1>2 DEF AnswersAsMap

-----------------------------------------------------------------------------
(* The tenant's policies and schedules.                                      *)

\* What a step does to the table: one policy is saved, or none.
LEMMA StepSaves ==
  ASSUME [Next]_vars
  PROVE  \/ UNCHANGED rows
         \/ \E r \in Rule, e \in Scope, mode \in Mode : Upsert(r, e, mode)
<1>1. ASSUME NEW q \in Request, NEW r \in Rule, NEW e \in Scope, NEW mode \in Asked,
             SavePolicy(q, r, e, mode)
      PROVE  \E s \in Rule, f \in Scope, m \in Mode : Upsert(s, f, m)
  BY <1>1 DEF SavePolicy
<1>2. ASSUME SaveDefault
      PROVE  UNCHANGED rows \/ \E r \in Rule, e \in Scope, mode \in Mode : Upsert(r, e, mode)
  <2>1. "*" \in Rule /\ "" \in Scope /\ "open_pr" \in Mode
    BY PolicyModes DEF Rule, Scope
  <2> QED
    BY <1>2, <2>1 DEF SaveDefault
<1>3. ASSUME \/ UNCHANGED vars \/ \E q \in Request : EnsureRequested(q)
             \/ CheckGlobal \/ EnsureManaged \/ Restart \/ SyncRead \/ SyncEnsure
      PROVE  UNCHANGED rows
  BY <1>3 DEF vars, EnsureRequested, CheckGlobal, EnsureManaged, Restart, SyncRead, SyncEnsure
<1> QED
  BY <1>1, <1>2, <1>3 DEF Next

\* No step makes a second row of a key.
LEMMA StepKeepsRows ==
  ASSUME RowsInv, [Next]_vars
  PROVE  RowsInv'
<1>1. ASSUME UNCHANGED rows PROVE RowsInv'
  BY <1>1 DEF RowsInv
<1> QED
  BY <1>1, StepSaves, UpsertKeepsRows

\* The table never has two rows of a key.
THEOREM KeysUnique == Spec => []RowsInv
<1>1. Init => RowsInv
  BY EmptyMaps DEF Init
<1> QED
  BY <1>1, StepKeepsRows, PTL DEF Spec

\* The table implements the map (PGPolicies and MemoryPolicies): it starts empty,
\* and what it saves the map saves.
THEOREM TableIsMap == Spec => SavesAsMap
<1>1. Init => Map!Init
  BY EmptyMaps DEF Init
<1>2. RowsInv /\ [Next]_vars => [Map!Next]_Entries
  <2>1. ASSUME UNCHANGED rows PROVE UNCHANGED Entries
    BY <2>1 DEF Entries, ModesAt
  <2>2. ASSUME NEW r \in Rule, NEW e \in Scope, NEW mode \in Mode, RowsInv, Upsert(r, e, mode)
        PROVE  Map!Next
    <3>1. Map!Upsert(r, e, mode)
      BY <2>2, UpsertMaps DEF Map!Upsert
    <3> QED
      BY <3>1 DEF Map!Next, Map!Rule, Map!Scope, Rule, Scope
  <2> QED
    BY <2>1, <2>2, StepSaves
<1> QED
  BY <1>1, <1>2, KeysUnique, PTL DEF Spec, SavesAsMap, Map!Spec

\* Every question is answered alike (postgres.go:189-203, memory.go:134-153).
THEOREM AnswersAlike == Spec => []AnswersAsMap
BY KeysUnique, AnswersAgree, PTL

-----------------------------------------------------------------------------
(* Schedules.                                                              *)

Scheduled(r) ==
  (\E row \in rows : row.rule = r /\ Enabled(row.mode)) /\ ~Pending(r) /\ r \notin missed
    => r \in schedules

\* Ensuring the schedule of one rule loses that of no other.
LEMMA EnsureKeeps ==
  ASSUME NEW r, NEW s, EnsureSchedule(s), UNCHANGED rows, Scheduled(r),
         r # s => (Pending(r) => Pending(r)')
  PROVE  Scheduled(r)'
BY DEF EnsureSchedule, Scheduled

\* A saved policy is pending until its schedule is ensured, and the rows of other
\* rules are left alone.
LEMMA SaveKeeps ==
  ASSUME NEW r \in Rule, NEW q \in Request, NEW s \in Rule, NEW e \in Scope, NEW mode \in Asked,
         Scheduled(r), SavePolicy(q, s, e, mode), request \in [Request -> Rule \cup {"none"}]
  PROVE  Scheduled(r)'
<1>1. /\ request[q] = "none" /\ UNCHANGED schedules /\ Upsert(s, e, mode)
      /\ missed \subseteq missed'
      /\ \/ request' = [request EXCEPT ![q] = IF Enabled(mode) THEN s ELSE "none"]
         \/ UNCHANGED request /\ (Enabled(mode) => s \in missed')
  BY DEF SavePolicy
<1>2. r # "none"
  BY DEF Rule
<1>3. Pending(r) => Pending(r)'
  BY <1>1, <1>2 DEF Pending
<1>4. CASE s = r /\ Enabled(mode)
  BY <1>1, <1>4 DEF Pending, Scheduled
<1>5. CASE ~(s = r /\ Enabled(mode))
  <2>1. \A row \in rows' : row.rule = r /\ Enabled(row.mode) => row \in rows
    BY <1>1, <1>5 DEF Upsert
  <2> QED
    BY <1>1, <1>3, <2>1 DEF Scheduled
<1> QED
  BY <1>4, <1>5

\* Saving adds no row of another rule.
LEMMA SaveAddsOne ==
  ASSUME NEW r, NEW s, NEW e, NEW mode, r # s, Upsert(s, e, mode)
  PROVE  \A row \in rows' : row.rule = r => row \in rows
BY DEF Upsert

\* No step loses a schedule.
LEMMA StepKeepsScheduled ==
  ASSUME TypeOK, [Next]_vars, NEW r \in {"manifest", "drift"}, Scheduled(r)
  PROVE  Scheduled(r)'
<1>1. r \in Rule /\ r # "*" /\ r # "none" /\ request \in [Request -> Rule \cup {"none"}]
  BY DEF Rule, TypeOK
<1>2. ASSUME UNCHANGED <<rows, request, missed, schedules>> PROVE Scheduled(r)'
  BY <1>2 DEF Scheduled, Pending
<1>3. ASSUME NEW q \in Request, EnsureRequested(q) PROVE Scheduled(r)'
  <2>1. r # request[q] => (Pending(r) => Pending(r)')
    BY <1>1, <1>3 DEF EnsureRequested, Pending
  <2> QED
    BY <1>3, <2>1, EnsureKeeps DEF EnsureRequested
<1>4. ASSUME EnsureManaged \/ SyncEnsure PROVE Scheduled(r)'
  BY <1>4, EnsureKeeps DEF EnsureManaged, SyncEnsure, Pending
<1>5. ASSUME SaveDefault PROVE Scheduled(r)'
  <2>1. UNCHANGED rows \/ Upsert("*", "", "open_pr")
    BY <1>5 DEF SaveDefault
  <2>2. \A row \in rows' : row.rule = r => row \in rows
    BY <1>1, <2>1, SaveAddsOne
  <2>3. UNCHANGED <<request, missed, schedules>>
    BY <1>5 DEF SaveDefault
  <2> QED
    BY <2>2, <2>3 DEF Scheduled, Pending
<1>6. ASSUME Restart PROVE Scheduled(r)'
  BY <1>1, <1>6 DEF Restart, Scheduled
<1>7. ASSUME SyncRead PROVE Scheduled(r)'
  <2>1. UNCHANGED <<rows, request, schedules>> /\ missed \subseteq missed'
    BY <1>7 DEF SyncRead
  <2> QED
    BY <2>1 DEF Scheduled, Pending
<1>8. ASSUME CheckGlobal PROVE Scheduled(r)'
  BY <1>2, <1>8 DEF CheckGlobal
<1>9. ASSUME UNCHANGED vars PROVE Scheduled(r)'
  BY <1>2, <1>9 DEF vars
<1> QED
  BY <1>1, <1>3, <1>4, <1>5, <1>6, <1>7, <1>8, <1>9, SaveKeeps DEF Next

\* Every variable has its type.
THEOREM TypeCorrect == Spec => []TypeOK
<1>1. Init => TypeOK
  <2>1. Init => crossed \in BOOLEAN
    BY DEF Init
  <2>2. Init => rows \subseteq Row
    BY EmptyMaps DEF Init, RowsInv
  <2> QED
    BY <2>1, <2>2, MaxSavesAssumption DEF Init, TypeOK
<1>2. ASSUME TypeOK, RowsInv', [Next]_vars PROVE TypeOK'
  <2>1. rows' \subseteq Row
    BY <1>2 DEF RowsInv
  <2>2. ASSUME NEW q \in Request, NEW r \in Rule, NEW e \in Scope, NEW mode \in Asked,
               SavePolicy(q, r, e, mode)
        PROVE  TypeOK'
    <3>1. /\ UNCHANGED <<schedules, configure, sync>> /\ missed' \subseteq missed \cup {r}
          /\ saves < MaxSaves /\ saves' = saves + 1 /\ crossed' \in BOOLEAN
          /\ \/ request' = [request EXCEPT ![q] = IF Enabled(mode) THEN r ELSE "none"]
             \/ UNCHANGED request
      BY <2>2 DEF SavePolicy
    <3> QED
      BY <1>2, <2>1, <3>1, MaxSavesAssumption DEF TypeOK
  <2>3. ASSUME NEW q \in Request, EnsureRequested(q) PROVE TypeOK'
    <3>1. request[q] \in Rule
      BY <1>2, <2>3 DEF TypeOK, EnsureRequested
    <3> QED
      BY <1>2, <2>1, <2>3, <3>1 DEF TypeOK, EnsureRequested, EnsureSchedule
  <2>4. ASSUME CheckGlobal PROVE TypeOK'
    BY <1>2, <2>1, <2>4 DEF TypeOK, CheckGlobal
  <2>5. ASSUME SaveDefault PROVE TypeOK'
    <3>1. configure' = "ensure" /\ UNCHANGED <<schedules, request, sync, missed, crossed, saves>>
      BY <2>5 DEF SaveDefault
    <3> QED
      BY <1>2, <2>1, <3>1 DEF TypeOK
  <2>6. ASSUME EnsureManaged \/ SyncEnsure \/ SyncRead \/ Restart PROVE TypeOK'
    <3>1. "manifest" \in Rule
      BY DEF Rule
    <3>2. CASE EnsureManaged
      BY <1>2, <2>1, <3>1, <3>2 DEF TypeOK, EnsureManaged, EnsureSchedule
    <3>3. CASE SyncEnsure
      BY <1>2, <2>1, <3>1, <3>3 DEF TypeOK, SyncEnsure, EnsureSchedule
    <3>4. CASE SyncRead
      <4>1. /\ sync' \in {"ensure", "idle"} /\ missed' \subseteq missed \cup {"manifest"}
            /\ UNCHANGED <<rows, schedules, request, configure, crossed, saves>>
        BY <3>4 DEF SyncRead
      <4> QED
        BY <1>2, <2>1, <3>1, <4>1 DEF TypeOK
    <3>5. CASE Restart
      BY <1>2, <2>1, <3>1, <3>5 DEF TypeOK, Restart
    <3> QED
      BY <2>6, <3>2, <3>3, <3>4, <3>5
  <2>7. ASSUME UNCHANGED vars PROVE TypeOK'
    BY <1>2, <2>1, <2>7 DEF TypeOK, vars
  <2> QED
    BY <1>2, <2>2, <2>3, <2>4, <2>5, <2>6, <2>7 DEF Next
<1> QED
  BY <1>1, <1>2, KeysUnique, PTL DEF Spec

\* No enabled policy of a rule loses its schedule (handlers.go:284-290).
THEOREM ScheduleKept == Spec => []EnabledScheduled
<1> DEFINE Inv == \A r \in {"manifest", "drift"} : Scheduled(r)
<1>1. Init => Inv
  BY DEF Init, Empty, Scheduled
<1>2. TypeOK /\ Inv /\ [Next]_vars => Inv'
  BY StepKeepsScheduled
<1>3. Inv <=> EnabledScheduled
  BY DEF Scheduled, EnabledScheduled
<1> HIDE DEF Inv
<1> QED
  BY <1>1, <1>2, <1>3, TypeCorrect, PTL DEF Spec

-----------------------------------------------------------------------------
(* The default policy.                                                     *)

\* While a default is on its way there is no policy it would replace, unless one
\* was saved in the meantime.
DefaultInv == configure = "default" /\ ~crossed => Get("*", All) = "none"

\* What Get answers, by its candidates.
Answer(candidates) ==
  IF candidates = {} THEN "none"
  ELSE (CHOOSE row \in candidates :
          \A other \in candidates : Place(row, "*") <= Place(other, "*")).mode

\* What the global policy is depends on no row of another key.
LEMMA OtherKeysApart ==
  ASSUME RowsInv, NEW r \in Rule, NEW e \in Scope, NEW mode \in Mode,
         r # "*" \/ e # All, Upsert(r, e, mode)
  PROVE  Get("*", All)' = Get("*", All)
<1>1. \A row \in rows : row.rule = "*" /\ row.environment \in {All, Null}
                          => row.environment = Null
  BY EnvironmentAssumption, NullAssumption DEF RowsInv, Row, All
<1>2. Coalesce(Null) = All /\ (e # All => Nullable(e) = e /\ e # Null)
  BY AllIsNull DEF Coalesce, All
<1>3. Candidates("*", All)' = Candidates("*", All)
  BY <1>1, <1>2 DEF Candidates, Upsert, Conflicts
<1>4. Get("*", All) = Answer(Candidates("*", All))
  BY DEF Get, Candidates, Answer
<1>5. Get("*", All)' = Answer(Candidates("*", All)')
  BY DEF Get, Candidates, Answer
<1> QED
  BY <1>3, <1>4, <1>5

\* Only the default is saved without people saving, and only then is somebody
\* overruled who saved in the meantime.
LEMMA StepKeepsDefault ==
  ASSUME RowsInv, TypeOK, [Next]_vars, DefaultInv
  PROVE  /\ DefaultInv'
         /\ Get("*", All) \notin {"none", Get("*", All)'} /\ saves' = saves => crossed
<1> DEFINE Goal == /\ DefaultInv'
                   /\ Get("*", All) \notin {"none", Get("*", All)'} /\ saves' = saves => crossed
<1>0. ASSUME UNCHANGED rows PROVE Get("*", All)' = Get("*", All)
  BY <1>0 DEF Get
<1>1. ASSUME NEW q \in Request, NEW r \in Rule, NEW e \in Scope, NEW mode \in Asked,
             SavePolicy(q, r, e, mode)
      PROVE  Goal
  <2>1. mode \in Mode /\ Upsert(r, e, mode) /\ configure' = configure /\ saves' = saves + 1
    BY <1>1 DEF SavePolicy
  <2>2. crossed' = (crossed \/ (r = "*" /\ e = All /\ configure = "default"))
    BY <1>1 DEF SavePolicy, All
  <2>3. saves' # saves
    BY <2>1 DEF TypeOK
  <2>4. r # "*" \/ e # All => Get("*", All)' = Get("*", All)
    BY <2>1, OtherKeysApart
  <2> QED
    BY <2>1, <2>2, <2>3, <2>4 DEF DefaultInv
<1>2. ASSUME CheckGlobal PROVE Goal
  <2>1. configure' = "default" => Get("*", All) = "none"
    BY <1>2 DEF CheckGlobal, All
  <2>2. UNCHANGED rows
    BY <1>2 DEF CheckGlobal
  <2> QED
    BY <1>0, <2>1, <2>2 DEF DefaultInv
<1>3. ASSUME SaveDefault PROVE Goal
  <2>1. configure = "default" /\ configure' = "ensure"
    BY <1>3 DEF SaveDefault
  <2> QED
    BY <2>1 DEF DefaultInv
<1>4. ASSUME \/ UNCHANGED vars \/ \E q \in Request : EnsureRequested(q)
             \/ EnsureManaged \/ Restart \/ SyncRead \/ SyncEnsure
      PROVE  Goal
  <2>1. UNCHANGED <<rows, crossed>> /\ (configure' = configure \/ configure' = "idle")
    BY <1>4 DEF vars, EnsureRequested, EnsureManaged, Restart, SyncRead, SyncEnsure
  <2> QED
    BY <1>0, <2>1 DEF DefaultInv
<1> QED
  BY <1>1, <1>2, <1>3, <1>4 DEF Next

\* The default overrules only a policy saved between the check and the default
\* (handlers.go:500-509).
THEOREM DefaultYields == Spec => OverruledOnlyInWindow
<1>1. Init => DefaultInv
  BY DEF Init, DefaultInv
<1>2. RowsInv /\ TypeOK /\ DefaultInv /\ [Next]_vars => DefaultInv'
  BY StepKeepsDefault
<1>3. RowsInv /\ TypeOK /\ DefaultInv /\ [Next]_vars
        => [Get("*", "") \notin {"none", Get("*", "")'} /\ saves' = saves => crossed]_vars
  BY StepKeepsDefault DEF All
<1> QED
  BY <1>1, <1>2, <1>3, KeysUnique, TypeCorrect, PTL DEF Spec, OverruledOnlyInWindow
=============================================================================
