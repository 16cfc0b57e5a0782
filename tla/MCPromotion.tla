---------------------------- MODULE MCPromotion ----------------------------
(* Two promotions of a workload, one after the other, each of one of the     *)
(* kinds that differ in what the code does with them: all environments with  *)
(* every trigger and cascade, a mode that does not merge, no environment,    *)
(* and the environments of a definition that lacks one.                      *)
EXTENDS Promotion

Of(paths, modes, cascades) ==
  [paths : {paths}, mode : modes, cascade : cascades, manual : BOOLEAN]

SomePromotions ==
  Of(Deploy, {"auto_merge"}, {"unset", "hml", "prd"})
    \cup Of(Deploy, {"open_pr"}, {"hml"})
    \cup Of({"dev", "prd"}, {"auto_merge"}, {"hml"})
    \cup Of({}, {"auto_merge"}, {"prd"})
=============================================================================
