----------------------------- MODULE MCTenancy -----------------------------
(***************************************************************************)
(* An instance of Tenancy for TLC.                                         *)
(***************************************************************************)
EXTENDS Tenancy

=============================================================================
