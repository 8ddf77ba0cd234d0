------------------------ MODULE MCDraftRotaAllocation ------------------------
(***************************************************************************)
(* Small instances of DraftRotaAllocation.  A seating is named after the   *)
(* rota and the inputs it depends on: every stamped input matters.         *)
(***************************************************************************)
EXTENDS DraftRotaAllocation, TLC

CONSTANTS r1, r2, a1, a2, s1, s2

MCRotas1 == {r1}
MCRotas2 == {r1, r2}

\* r2 is minted for later dates than r1.
MCStart == [r \in Rotas |-> IF r = r1 THEN 1 ELSE 2]

MCReadOrder == [k \in Kinds |-> CASE k = "roles"  -> 1
                                  [] k = "roster" -> 2
                                  [] k = "pins"   -> 3]

MCSeatings == {NoSeats} \cup {<<r, i>> : r \in Rotas, i \in Inputs}

\* One container, as deployed.
MCOneServer == [a \in Admins |-> CHOOSE s \in Servers : TRUE]

\* A second container, with a slot of its own, for the second admin.
MCTwoServers == [a \in Admins |-> IF a = a1 THEN s1 ELSE s2]

\* Every input changes the rota.
MCSolve == [r \in Rotas |-> [i \in Inputs |-> <<r, i>>]]

\* With one combination of the inputs no rota is possible.
MCSolveOrNot ==
    [r \in Rotas |-> [i \in Inputs |->
        CASE \A k \in Kinds : i[k] = 1 -> Infeasible
          [] OTHER -> <<r, i>>]]

\* With one no rota is possible, and with another a step is missing.
MCSolveOrRefuse ==
    [r \in Rotas |-> [i \in Inputs |->
        CASE \A k \in Kinds : i[k] = 1 -> Infeasible
          [] \A k \in Kinds : i[k] = 0 -> Refused
          [] OTHER -> <<r, i>>]]

\* Any rota may be solved to nobody at all, and then hashes like every other
\* empty one.
MCSolveSomeEmpty ==
    [r \in Rotas |-> [i \in Inputs |->
        IF \A k \in Kinds : i[k] = 1 THEN NoSeats ELSE <<r, i>>]]

Symmetry == Permutations(Admins) \cup Permutations(Editors)
==============================================================================
