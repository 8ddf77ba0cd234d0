---------------------------- MODULE MCShiftEdits ----------------------------
(***************************************************************************)
(* Small instances of ShiftEdits: one rota of two Shifts, one of which is  *)
(* closed and reopened.                                                    *)
(***************************************************************************)
EXTENDS ShiftEdits, TLC

CONSTANTS r1, s1, s2, e1, e2, v1, x1, lead, team

MCRotaOf == [s \in Shifts |-> r1]

MCFirstDay == [s \in Shifts |-> IF s = s1 THEN 1 ELSE 2]

MCShapes ==
    {[k \in Roles |-> 0], [k \in Roles |-> 1],
     [k \in Roles |-> IF k = team THEN 2 ELSE 0]}

\* Nobody; and two people promised a Role with one Seat at most.
MCStanding ==
    {{}, {[shift |-> s2, role |-> lead, who |-> v1],
          [shift |-> s2, role |-> lead, who |-> x1]}}

EditorSymmetry == Permutations(Editors)
=============================================================================
