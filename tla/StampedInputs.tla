---------------------------- MODULE StampedInputs ----------------------------
(***************************************************************************)
(* What every edit of what a rota is solved from promises the draft        *)
(* (db/rotation.go:137-183, docs/adr/0008-draft-allocations.md): while a   *)
(* rota is unallocated its inputs only move together with its stamp, to a  *)
(* time no transaction stamps anything with again; once it is allocated    *)
(* they are the record of what it was made from, and only the days of its  *)
(* Shifts still move.                                                      *)
(*                                                                         *)
(* DraftRotaAllocation takes this for granted of its editors (BeginEdit,   *)
(* CommitOwnEdit); ShiftEdits implements it.                               *)
(***************************************************************************)
EXTENDS Naturals

CONSTANTS
    Rotas,
    Unborn      \* the rotas to be defined yet

VARIABLES
    rota,   \* the life of each rota
    stamp,  \* rotation.inputs_changed_at
    inputs, \* what the solver is asked about each rota
    days,   \* the days of its Shifts, an input too while it is unallocated
    clock,  \* the time of the last transaction begun
    open    \* the times of the transactions still open

vars == <<rota, stamp, inputs, days, clock, open>>

Init ==
    /\ rota = [r \in Rotas |-> IF r \in Unborn THEN "undefined" ELSE "unallocated"]
    /\ stamp = [r \in Rotas |-> 0]
    /\ inputs = [r \in Rotas |-> inputs[r]]
    /\ days = [r \in Rotas |-> days[r]]
    /\ clock = 0
    /\ open = {}

\* Everything but rota r is as it was.
OnlyOf(r) ==
    \A q \in Rotas \ {r} :
        /\ stamp'[q] = stamp[q]
        /\ inputs'[q] = inputs[q]
        /\ days'[q] = days[q]

Begin ==
    /\ clock' = clock + 1
    /\ open' = open \cup {clock + 1}
    /\ UNCHANGED <<rota, stamp, inputs, days>>

\* A transaction that ends without having edited a thing.
End(t) ==
    /\ open' = open \ {t}
    /\ UNCHANGED <<rota, stamp, inputs, days, clock>>

Edit(r, t) ==
    /\ rota[r] = "unallocated"
    /\ t \in open
    /\ stamp'[r] = t
    /\ OnlyOf(r)
    /\ open' = open \ {t}
    /\ UNCHANGED <<rota, clock>>

\* A Shift of a rota that is decided moves to another day.
Redate(r, t) ==
    /\ rota[r] = "allocated"
    /\ open' = open \ {t}
    /\ OnlyOf(r)
    /\ UNCHANGED <<rota, stamp, inputs, clock>>

Define(r) ==
    /\ rota[r] = "undefined"
    /\ rota' = [rota EXCEPT ![r] = "unallocated"]
    /\ OnlyOf(r)
    /\ UNCHANGED <<stamp, clock, open>>

Discard(r) ==
    /\ rota[r] = "unallocated"
    /\ rota' = [rota EXCEPT ![r] = "discarded"]
    /\ OnlyOf(r)
    /\ UNCHANGED <<stamp, clock, open>>

Allocate(r) ==
    /\ rota[r] = "unallocated"
    /\ rota' = [rota EXCEPT ![r] = "allocated"]
    /\ UNCHANGED <<stamp, inputs, days, clock, open>>

Next ==
    \/ Begin
    \/ \E t \in open : End(t)
    \/ \E r \in Rotas : Define(r) \/ Discard(r) \/ Allocate(r)
    \/ \E r \in Rotas, t \in open : Edit(r, t) \/ Redate(r, t)

Spec == Init /\ [][Next]_vars
=============================================================================
