----------------------------- MODULE MCScanner -----------------------------
(* Two repositories, two workloads and two overlapping scans.  The first     *)
(* repository moves from no branch at all to one of its own, then renames    *)
(* its workload; the second from a definition that does not parse to one     *)
(* with a branch for prd, of the name that the first may have taken, and     *)
(* has it broken again.                                                      *)
EXTENDS Scanner, TLC

CONSTANTS r1, r2, n1, n2, s1, s2

Alone        == [path |-> "file"]
On(branch)   == [path |-> "file", branch |-> branch]

Versions ==
  (r1 :> << [name |-> n1, sound |-> TRUE, branch |-> "", paths |-> ("dev" :> Alone)],
            [name |-> n1, sound |-> TRUE, branch |-> "develop",
             paths |-> ("dev" :> On("") @@ "prd" :> On("main"))],
            [name |-> n2, sound |-> TRUE, branch |-> "develop", paths |-> ("dev" :> Alone)] >>)
  @@
  (r2 :> << [name |-> n2, sound |-> TRUE, branch |-> "develop",
             paths |-> ("dev" :> Alone @@ "qa" :> Alone)],
            [name |-> n2, sound |-> TRUE, branch |-> "",
             paths |-> ("hml" :> On("develop") @@ "prd" :> Alone)],
            [name |-> n2, sound |-> FALSE, branch |-> "", paths |-> ("prd" :> Alone)] >>)

Before == r1 :> [name |-> n1, paths |-> ("dev" :> Alone)]

Items == {NoPaths, "dev" :> Alone, "prd" :> On("develop")}
=============================================================================
