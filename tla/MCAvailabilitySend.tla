-------------------------- MODULE MCAvailabilitySend --------------------------
(***************************************************************************)
(* A small instance of AvailabilitySend: a couple, one of whom is on and   *)
(* off the sheet, with an email address or without.                        *)
(***************************************************************************)
EXTENDS AvailabilitySend, TLC

CONSTANTS v1, v2, couple, j1, j2

MCAddressings == {{v1, v2}, {v1}}

MCGroup == [v \in Volunteers |-> couple]

JobSymmetry == Permutations(Jobs)
=============================================================================
