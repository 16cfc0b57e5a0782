--------------------------- MODULE MCComprehensive ---------------------------
(* Two workloads and caps on both sides of their number.                     *)
EXTENDS Comprehensive

CONSTANTS w1, w2
=============================================================================
