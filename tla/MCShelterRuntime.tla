-------------------------- MODULE MCShelterRuntime --------------------------
(***************************************************************************)
(* Instances of ShelterRuntime for TLC.                                    *)
(***************************************************************************)
EXTENDS ShelterRuntime, TLC

\* Slots are interchangeable, and the properties checked are safety properties.
AnySlot == Permutations(Jobs)

=============================================================================
