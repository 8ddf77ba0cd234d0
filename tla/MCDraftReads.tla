---------------------------- MODULE MCDraftReads ----------------------------
(***************************************************************************)
(* Small instances of DraftReads, with the constants of                    *)
(* MCDraftRotaAllocation.                                                  *)
(***************************************************************************)
EXTENDS DraftReads, TLC

CONSTANTS r1, r2, a1, a2

MCRotas1 == {r1}

MCStart == [r \in Rotas |-> 1]

MCReadOrder == [k \in Kinds |-> IF k = "roles" THEN 1 ELSE 2]

MCSeatings == {NoSeats} \cup {<<r, i>> : r \in Rotas, i \in Inputs}

\* One container, as deployed.
MCOneServer == [a \in Admins |-> CHOOSE s \in Servers : TRUE]

\* Every input changes the rota.
MCSolve == [r \in Rotas |-> [i \in Inputs |-> <<r, i>>]]

AdminSymmetry == Permutations(Admins)
=============================================================================
