---------------------------- MODULE ConfirmedRota ----------------------------
(***************************************************************************)
(* What allocating promises, with none of the machinery that keeps the     *)
(* promise (docs/adr/0008-draft-allocations.md and the comment of          *)
(* AllocateRotaInFlight): a rota is defined, is in flight for a while, and *)
(* then leaves flight exactly once.  It leaves either by being discarded,  *)
(* or by being allocated as the seating of its own Shifts that some admin  *)
(* was looking at, as a draft of that rota, when they confirmed it.  What  *)
(* was allocated never changes and is never discarded.                     *)
(*                                                                         *)
(* DraftRotaAllocation implements this specification.                      *)
(***************************************************************************)
CONSTANTS
    Admins,     \* the browser tabs of the administrators
    Rotas,      \* the rotations that may ever be defined
    SeatingsOf, \* who can be in which Seat of each rota
    NoSeats,    \* nobody in any Seat, which reads alike for every rota
    None        \* no rota, no draft, no allocation

VARIABLES
    rota,       \* the life of each rota
    allocation, \* the seating each rota was allocated as
    screen      \* the draft each admin was last shown: of which rota, and the Seats

vars == <<rota, allocation, screen>>

NoDraft == [rota |-> None, seats |-> None]

Init ==
    /\ rota = [r \in Rotas |-> "undefined"]
    /\ allocation = [r \in Rotas |-> None]
    /\ screen = [a \in Admins |-> NoDraft]

\* A rota is minted, unallocated.
Define(r) ==
    /\ rota[r] = "undefined"
    /\ rota' = [rota EXCEPT ![r] = "unallocated"]
    /\ UNCHANGED <<allocation, screen>>

\* An unallocated rota is destroyed, for good: rotation ids are never reused.
Discard(r) ==
    /\ rota[r] = "unallocated"
    /\ rota' = [rota EXCEPT ![r] = "discarded"]
    /\ UNCHANGED <<allocation, screen>>

\* An admin is shown a draft of a rota.
Show(a, r) ==
    /\ \E seats \in SeatingsOf[r] :
          screen' = [screen EXCEPT ![a] = [rota |-> r, seats |-> seats]]
    /\ UNCHANGED <<rota, allocation>>

\* An admin is shown a rota that nobody has solved for.
ShowNone(a) ==
    /\ screen' = [screen EXCEPT ![a] = NoDraft]
    /\ UNCHANGED <<rota, allocation>>

\* A draft of rota r is on the screen, or one that seats nobody on any rota.
ShownFor(a, r) == screen[a].rota = r \/ screen[a].seats = NoSeats

\* The draft an admin was shown for a rota becomes that rota.
Allocate(a, r) ==
    /\ rota[r] = "unallocated"
    /\ screen[a] # NoDraft /\ ShownFor(a, r)
    /\ rota' = [rota EXCEPT ![r] = "allocated"]
    /\ allocation' = [allocation EXCEPT ![r] = screen[a].seats]
    /\ UNCHANGED screen

Next ==
    \/ \E r \in Rotas : Define(r) \/ Discard(r)
    \/ \E a \in Admins, r \in Rotas : Show(a, r) \/ Allocate(a, r)
    \/ \E a \in Admins : ShowNone(a)

Spec == Init /\ [][Next]_vars
==============================================================================
