----------------------------- MODULE MCCampaign -----------------------------
(* Campaigns of up to three items over three deployment names; one list      *)
(* names a deployment twice.                                                 *)
EXTENDS Campaign

CONSTANTS w1, w2, w3

It(w, r) == [name |-> w, reco |-> r]

SomeLists ==
  { << >>,
    <<It(w1, "given")>>,
    <<It(w1, "absent"), It(w2, "given")>>,
    <<It(w1, "given"), It(w1, "given")>>,
    <<It(w1, "skipped"), It(w2, "absent"), It(w3, "given")>>,
    <<It(w1, "given"), It(w2, "given"), It(w3, "absent")>> }
=============================================================================
