---------------------------- MODULE MCEnvDeploy ----------------------------
(* A small instance of EnvDeploy: one deployment of one manifest.            *)
EXTENDS EnvDeploy

CONSTANTS d1, f1

OneFile == [d \in Deploy |-> f1]
=============================================================================
