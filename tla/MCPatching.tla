----------------------------- MODULE MCPatching -----------------------------
(* Manifests of up to three documents, of a few HPAs that differ in what the *)
(* code compares, on both sides of the CPU floor.                            *)
EXTENDS Patching

D(k, s, a, b, m, c) == [kind |-> k, spec |-> s, min |-> a, max |-> b, metric |-> m, cpu |-> c]

Hpas ==
  { D("hpa", "mapping", 1, 2, TRUE, 50), D("hpa", "mapping", 2, 4, TRUE, 80),
    D("hpa", "mapping", 3, 3, FALSE, 0), D("hpa", "mapping", 1, 4, TRUE, 0),
    D("hpa", "mapping", 2, 4, TRUE, 20) }
Others ==
  { D("other", "mapping", 0, 0, FALSE, 0), D("broken", "absent", 0, 0, FALSE, 0),
    D("hpa", "absent", 0, 0, FALSE, 0), D("hpa", "other", 0, 0, FALSE, 0) }
Docs == Hpas \cup Others

SomeManifests ==
  {<< >>} \cup {<<d>> : d \in Docs} \cup {<<d, e>> : d, e \in Docs}
    \cup {<<o, d, e>> : o \in Others, d, e \in Hpas \ {D("hpa", "mapping", 1, 4, TRUE, 0)}}

SomeRecos ==
  [off : BOOLEAN, min : {0, 2}, max : {0, 4}, cpu : {0, 20, 60}]
=============================================================================
