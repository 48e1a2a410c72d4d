------------------------------ MODULE MCDeploy ------------------------------
(***************************************************************************)
(* Instances of Deploy for TLC.                                            *)
(***************************************************************************)
EXTENDS Deploy, TLC

Alike == Permutations(Runs)

=============================================================================
