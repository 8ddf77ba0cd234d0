---------------------------- MODULE MCRotaChanges ----------------------------
(***************************************************************************)
(* Small instances of RotaChanges: two rotas of one Shift each, so that a  *)
(* swap crosses rotas.                                                     *)
(***************************************************************************)
EXTENDS RotaChanges, TLC

CONSTANTS r1, r2, s1, s2, c1, c2, v1, v2, x1, lead, team

MCRotaOf == [s \in Shifts |-> IF s = s1 THEN r1 ELSE r2]

MCFirstDate == [s \in Shifts |-> IF s = s1 THEN 1 ELSE 2]

\* Each Shift has one volunteer, in different Roles.
MCOneSeating ==
    [s \in Shifts |->
        IF s = s1 THEN {[Nobody EXCEPT ![v1] = <<lead>>]}
                  ELSE {[Nobody EXCEPT ![v2] = <<team>>]}]

ChangerSymmetry == Permutations(Changers)

\* A change of volunteers on the first Shift, alone or as a swap with the
\* second.  Nobody replaces themselves: that is always refused.
MCVolunteerAsks ==
    {a \in Ask : /\ Stated(a) /\ a.date = 1 /\ a.swap \in {None, 2}
                 /\ a.inCustom = None /\ a.outCustom = None /\ a.in # a.out
                 /\ a.role \in {None, team}}

\* A custom entry that comes in or goes out.
MCCustomAsks ==
    {a \in Ask : /\ Stated(a) /\ a.date = 1 /\ a.swap = None
                 /\ a.in = None /\ a.out = None /\ a.inCustom # a.outCustom}

MCAsks == MCVolunteerAsks \cup MCCustomAsks
=============================================================================
