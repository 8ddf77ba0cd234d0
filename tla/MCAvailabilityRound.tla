------------------------- MODULE MCAvailabilityRound -------------------------
(***************************************************************************)
(* Small instances of AvailabilityRound: one Shift, since every Shift is   *)
(* answered for on its own, and two volunteers in a group.                 *)
(***************************************************************************)
EXTENDS AvailabilityRound, TLC

CONSTANTS v1, v2, s1, couple, u1, u2, m1, m2

MCGroup  == [v \in Volunteers |-> couple]
MCName   == [v \in Volunteers |-> v]
MCPinned == [s \in Shifts |-> {}]

RequestSymmetry == Permutations(Submits) \cup Permutations(Mints)
=============================================================================
