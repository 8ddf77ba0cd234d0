-------------------------- MODULE MCRotaDefinition --------------------------
(***************************************************************************)
(* A small instance of RotaDefinition: two days, and a volunteer and a     *)
(* custom entry that can both be promised the second of them.              *)
(***************************************************************************)
EXTENDS RotaDefinition, TLC

CONSTANTS x, y, ann, scouts, d1, d2, s1, s2

MCPromises == {1, 2}
MCRanks == {1, 2}
MCDates == 1 .. 2
MCRules == {{1, 2}, {2}}
MCWeek == 1

\* The custom entry has one of the rules.
MCAsks == {promise \in Promised : promise.who = scouts => promise.rule = {2}}

Alike ==
    Permutations({d1, d2}) \cup Permutations({s1, s2}) \cup Permutations({x, y})
=============================================================================
