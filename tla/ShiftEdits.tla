------------------------------ MODULE ShiftEdits ------------------------------
(***************************************************************************)
(* Editing the Shifts of a rota (pkg/core/services/updateShift.go,         *)
(* shiftShape.go, preallocations.go): closing and reopening a Shift,       *)
(* moving it, saying what it asks for (its Shape), and pinning people to   *)
(* its Seats (Preallocations), beside the definition, the allocation and   *)
(* the discard of the rota.                                                *)
(*                                                                         *)
(* An edit is a request of three steps.  It looks its Shift up outside any *)
(* transaction, begins one, which fixes now(), waits for the rotation row, *)
(* and under that lock checks, writes and stamps.  What it saw at the look *)
(* up, it still believes under the lock.                                   *)
(***************************************************************************)
EXTENDS Naturals, FiniteSets

CONSTANTS
    Editors,    \* requests that edit
    Rotas,
    Unborn,     \* the rotas to be defined yet
    Shifts,
    RotaOf,     \* the rota each Shift is minted in
    Days,       \* the days a Shift can start on
    FirstDay,   \* the day each Shift is minted for
    Volunteers, \* the roster
    Customs,    \* custom entries: people the roster does not know
    Roles,
    Shapes,     \* what a Shift may be told to ask for
    Standing,   \* what standing preallocations may seed: sets of seeds
    Closable,   \* the Shifts an admin ever closes
    None,       \* a field left empty
    MaxPins,    \* bound: the pins ever made
    MaxClock    \* bound: the transactions ever begun

People == Volunteers \cup Customs
Shape  == [Roles -> Nat]
Seed   == [shift : Shifts, role : Roles, who : People]
Pin    == [id : 1 .. MaxPins, shift : Shifts, role : Roles, who : People,
           seeded : BOOLEAN]

ShiftsOf(r) == {s \in Shifts : RotaOf[s] = r}

ASSUME RotasAssumption ==
    /\ Unborn \subseteq Rotas
    /\ RotaOf \in [Shifts -> Rotas]
    /\ FirstDay \in [Shifts -> Days]
    /\ Closable \subseteq Shifts

ASSUME PeopleAssumption ==
    /\ Volunteers \cap Customs = {}
    /\ None \notin Days /\ None \notin BOOLEAN

ASSUME ShapesAssumption == Shapes \subseteq Shape

\* seedPreallocations collapses two seeds of one person on one Shift.
ASSUME StandingAssumption ==
    \A seeds \in Standing :
        /\ seeds \subseteq Seed
        /\ IsFiniteSet(seeds)
        /\ \A p, q \in seeds : p.shift = q.shift /\ p.who = q.who => p = q

ASSUME BoundsAssumption == MaxPins \in Nat /\ MaxClock \in Nat

VARIABLES
    rota,   \* rotation: its life
    stamp,  \* rotation.inputs_changed_at; 0 is what the definition leaves there:
            \* NULL, or its own now() if it seeds a pin, which no edit shares
    day,    \* the day each Shift starts on, or None while it does not exist
    closed, \* shift.closed
    shape,  \* shift_requirement: the Seats of each Role a Shift asks for
    pins,   \* preallocation
    minted, \* the pins made so far
    clock,  \* the time of the last transaction begun
    edit    \* how far each request has got

shifts == <<day, closed, shape>>
db     == <<rota, stamp, shifts, pins, minted>>
vars   == <<db, clock, edit>>

NoShape == [k \in Roles |-> 0]

\* The pins that promise a Role of a Shift.
PinsOf(s, k) == {p \in pins : p.shift = s /\ p.role = k}
Pinned(s, k) == Cardinality(PinsOf(s, k))

-----------------------------------------------------------------------------
(* Requests. *)

IdleEdit == [at |-> "idle", does |-> None, shift |-> None, closed |-> FALSE,
             what |-> None, time |-> 0]

\* The writes a request may ask for.
PinAsk    == [role : Roles, who : People]
UnpinAsk  == [pin : 1 .. MaxPins]
ShapeAsk  == [shape : Shapes]
UpdateAsk == [closed : BOOLEAN \cup {None}, day : Days \cup {None}]

Looked(e, does, s, what) ==
    edit' = [edit EXCEPT ![e] =
                [at |-> "found", does |-> does, shift |-> s,
                 closed |-> closed[s], what |-> what, time |-> 0]]

Exists(s) == day[s] # None

\* AddPreallocation: a closed Shift is refused here, and not asked again.
FindShiftToPin(e) ==
    /\ edit[e].at = "idle"
    /\ \E s \in Shifts, ask \in PinAsk :
          /\ Exists(s) /\ ~closed[s]
          /\ Looked(e, "pin", s, ask)
    /\ UNCHANGED <<db, clock>>

\* DeletePreallocation: the pin names its Shift.
FindPin(e) ==
    /\ edit[e].at = "idle"
    /\ \E p \in pins : Looked(e, "unpin", p.shift, [pin |-> p.id])
    /\ UNCHANGED <<db, clock>>

\* SaveShiftShape: whether the Shift is closed is remembered.
FindShiftToShape(e) ==
    /\ edit[e].at = "idle"
    /\ \E s \in Shifts, ask \in ShapeAsk :
          /\ Exists(s)
          /\ Looked(e, "shape", s, ask)
    /\ UNCHANGED <<db, clock>>

\* UpdateShift: something is stated.
FindShiftToUpdate(e) ==
    /\ edit[e].at = "idle"
    /\ \E s \in Shifts, ask \in UpdateAsk :
          /\ Exists(s)
          /\ ask.closed # None \/ ask.day # None
          /\ ask.closed = TRUE => s \in Closable
          /\ Looked(e, "update", s, ask)
    /\ UNCHANGED <<db, clock>>

\* BEGIN: from here on now() is fixed.  The lock is waited for afterwards.
BeginEdit(e) ==
    /\ edit[e].at = "found"
    /\ clock < MaxClock
    /\ clock' = clock + 1
    /\ edit' = [edit EXCEPT ![e].at = "begun", ![e].time = clock + 1]
    /\ UNCHANGED db

\* The edit is refused, fails, or its client leaves: nothing is written.
GiveUp(e) ==
    /\ edit[e].at # "idle"
    /\ edit' = [edit EXCEPT ![e] = IdleEdit]
    /\ UNCHANGED <<db, clock>>

-----------------------------------------------------------------------------
(* What a request does under the lock. *)

\* Mutant: a rotation row that is gone goes unnoticed.
LockNothing(r) == TRUE

\* The rotation row is there and RotaAllocated says no.
LockUnallocated(r) == rota[r] = "unallocated"

\* Mutant: the stamp is left where it was.
KeepStamp(r, t) == stamp

\* markRotaInputsChanged: only an unallocated rota is stamped.
Stamped(r, t) ==
    [stamp EXCEPT ![r] = IF rota[r] = "unallocated" THEN t ELSE @]

\* The Role has a Seat on the Shift that no pin has taken (seatsForRole).
SeatLeft(s, k) == Pinned(s, k) < shape[s][k]

\* Mutant: a volunteer is refused a second pin of the same Role only.
UnpinnedAs(s, k, who) ==
    ~\E p \in pins : p.shift = s /\ p.role = k /\ p.who = who /\ who \in Volunteers

\* A volunteer is promised a Shift once, a custom entry as often as it likes.
Unpinned(s, k, who) ==
    ~\E p \in pins : p.shift = s /\ p.who = who /\ who \in Volunteers

Ends(e) == edit' = [edit EXCEPT ![e] = IdleEdit]

Begun(e, does) == edit[e].at = "begun" /\ edit[e].does = does

CommitPin(e) ==
    LET s   == edit[e].shift
        ask == edit[e].what
    IN  /\ Begun(e, "pin")
        /\ LockUnallocated(RotaOf[s])
        /\ Unpinned(s, ask.role, ask.who)
        /\ SeatLeft(s, ask.role)
        /\ minted < MaxPins
        /\ minted' = minted + 1
        /\ pins' = pins \cup {[id |-> minted + 1, shift |-> s, role |-> ask.role,
                               who |-> ask.who, seeded |-> FALSE]}
        /\ stamp' = Stamped(RotaOf[s], edit[e].time)
        /\ Ends(e)
        /\ UNCHANGED <<rota, shifts, clock>>

CommitUnpin(e) ==
    LET s == edit[e].shift
    IN  /\ Begun(e, "unpin")
        /\ LockUnallocated(RotaOf[s])
        /\ \E p \in pins :
              /\ p.id = edit[e].what.pin
              /\ pins' = pins \ {p}
              /\ stamp' = Stamped(RotaOf[p.shift], edit[e].time)
        /\ Ends(e)
        /\ UNCHANGED <<rota, shifts, minted, clock>>

\* Mutant: only the Roles the new Shape names are compared with the pins.
HoldsNamed(s, new) == \A k \in Roles : new[k] > 0 => Pinned(s, k) <= new[k]

\* seatsHoldThePins.
HoldsThePins(s, new) == \A k \in Roles : Pinned(s, k) <= new[k]

CommitShape(e) ==
    LET s   == edit[e].shift
        new == edit[e].what.shape
    IN  /\ Begun(e, "shape")
        /\ LockUnallocated(RotaOf[s])
        /\ ~edit[e].closed => HoldsThePins(s, new)
        /\ shape' = [shape EXCEPT ![s] = new]
        /\ stamp' = Stamped(RotaOf[s], edit[e].time)
        /\ Ends(e)
        /\ UNCHANGED <<rota, day, closed, pins, minted, clock>>

\* One Shift starts on a day (the unique index of setShiftTimes).
DateFree(s, d) == \A t \in Shifts \ {s} : day[t] # d

\* The closing half freezes with the rota; the times do not, and stamp it only
\* when they move the Shift to another day.
CommitUpdate(e) ==
    LET s   == edit[e].shift
        ask == edit[e].what
        r   == RotaOf[s]
        closes == ask.closed # None
        moves  == ask.day # None
    IN  /\ Begun(e, "update")
        /\ Exists(s)
        /\ closes => LockUnallocated(r)
        /\ moves => DateFree(s, ask.day)
        /\ closed' = [closed EXCEPT ![s] = IF closes THEN ask.closed ELSE @]
        /\ day' = [day EXCEPT ![s] = IF moves THEN ask.day ELSE @]
        /\ stamp' = IF closes \/ (moves /\ ask.day # day[s])
                    THEN Stamped(r, edit[e].time) ELSE stamp
        /\ Ends(e)
        /\ UNCHANGED <<rota, shape, pins, minted, clock>>

-----------------------------------------------------------------------------
(* The rota. *)

\* The ids a definition gives to what it seeds.
Numbered(seeds) ==
    {num \in [seeds -> minted + 1 .. minted + Cardinality(seeds)] :
        \A p, q \in seeds : num[p] = num[q] => p = q}

\* DefineRota: Shifts on free days, all with the default Shape, and the pins the
\* standing preallocations seed, which nobody holds against the Shape.
Define(r) ==
    /\ rota[r] = "undefined"
    /\ \A s \in ShiftsOf(r), t \in Shifts : day[t] # FirstDay[s]
    /\ rota' = [rota EXCEPT ![r] = "unallocated"]
    /\ day' = [s \in Shifts |-> IF RotaOf[s] = r THEN FirstDay[s] ELSE day[s]]
    /\ \E new \in Shapes \ {NoShape} :
          shape' = [s \in Shifts |-> IF RotaOf[s] = r THEN new ELSE shape[s]]
    /\ \E seeds \in Standing :
          /\ \A p \in seeds : RotaOf[p.shift] = r
          /\ minted + Cardinality(seeds) <= MaxPins
          /\ minted' = minted + Cardinality(seeds)
          /\ \E num \in Numbered(seeds) :
                pins' = pins \cup
                    {[id |-> num[p], shift |-> p.shift, role |-> p.role,
                      who |-> p.who, seeded |-> TRUE] : p \in seeds}
    /\ UNCHANGED <<stamp, closed, clock, edit>>

\* InsertAllocationsAndSetAllocated.
Allocate(r) ==
    /\ rota[r] = "unallocated"
    /\ rota' = [rota EXCEPT ![r] = "allocated"]
    /\ UNCHANGED <<stamp, shifts, pins, minted, clock, edit>>

\* DiscardRota: the pins and the Shifts go with the rota, and a Shape with its
\* Shift.  Nobody reads the stamp of a rota that is gone.
Discard(r) ==
    /\ rota[r] = "unallocated"
    /\ rota' = [rota EXCEPT ![r] = "discarded"]
    /\ pins' = {p \in pins : RotaOf[p.shift] # r}
    /\ day' = [s \in Shifts |-> IF RotaOf[s] = r THEN None ELSE day[s]]
    /\ closed' = [s \in Shifts |-> RotaOf[s] # r /\ closed[s]]
    /\ shape' = [s \in Shifts |-> IF RotaOf[s] = r THEN NoShape ELSE shape[s]]
    /\ UNCHANGED <<stamp, minted, clock, edit>>

\* Before anything: the rotas there are have no edits behind them yet.
Init ==
    /\ rota = [r \in Rotas |-> IF r \in Unborn THEN "undefined" ELSE "unallocated"]
    /\ stamp = [r \in Rotas |-> 0]
    /\ day = [s \in Shifts |-> IF RotaOf[s] \in Unborn THEN None ELSE FirstDay[s]]
    /\ closed = [s \in Shifts |-> FALSE]
    /\ \E new \in Shapes \ {NoShape} :
          shape = [s \in Shifts |-> IF RotaOf[s] \in Unborn THEN NoShape ELSE new]
    /\ pins = {}
    /\ minted = 0
    /\ clock = 0
    /\ edit = [e \in Editors |-> IdleEdit]

Next ==
    \/ \E e \in Editors :
          \/ FindShiftToPin(e) \/ FindPin(e) \/ FindShiftToShape(e)
          \/ FindShiftToUpdate(e) \/ BeginEdit(e) \/ GiveUp(e)
          \/ CommitPin(e) \/ CommitUnpin(e) \/ CommitShape(e) \/ CommitUpdate(e)
    \/ \E r \in Rotas : Define(r) \/ Allocate(r) \/ Discard(r)

Spec == Init /\ [][Next]_vars

-----------------------------------------------------------------------------
(* Properties. *)

Requests ==
    [at : {"idle", "found", "begun"},
     does : {"pin", "unpin", "shape", "update", None},
     shift : Shifts \cup {None}, closed : BOOLEAN,
     what : PinAsk \cup UnpinAsk \cup ShapeAsk \cup UpdateAsk \cup {None},
     time : 0 .. MaxClock]

\* Every variable has its type, and no pin, Shape or closure is left behind by a
\* Shift that does not exist.
TypeOK ==
    /\ rota \in [Rotas -> {"undefined", "unallocated", "allocated", "discarded"}]
    /\ stamp \in [Rotas -> 0 .. MaxClock]
    /\ day \in [Shifts -> Days \cup {None}]
    /\ closed \in [Shifts -> BOOLEAN]
    /\ shape \in [Shifts -> Shape]
    /\ pins \subseteq Pin /\ IsFiniteSet(pins)
    /\ minted \in 0 .. MaxPins
    /\ clock \in 0 .. MaxClock
    /\ edit \in [Editors -> Requests]
    /\ \A p \in pins : p.id <= minted /\ Exists(p.shift)
    /\ \A s \in Shifts : Exists(s) <=> rota[RotaOf[s]] \in {"unallocated", "allocated"}

\* "A person fills at most one Seat" on a Shift (preallocations.go:176), however
\* requests and seeds overlap: no volunteer is pinned to a Shift twice.
PinnedOnce ==
    \A p, q \in pins :
        p.shift = q.shift /\ p.who = q.who /\ p.who \in Volunteers => p = q

\* A Shape and its pins are edited on two screens, and "the same rule a Shape
\* edit is held to from the other side" (preallocations.go:194) keeps them
\* together: on a Shift that is never closed a Role has more pins than Seats
\* only as the definition left it, when no request has added to them.
PinsFit ==
    \A s \in Shifts \ Closable, k \in Roles :
        Pinned(s, k) > shape[s][k] => \A p \in PinsOf(s, k) : p.seeded

\* A request under way has found its Shift, and asks what its kind asks.
RequestsInOrder ==
    \A e \in Editors : edit[e].at # "idle" =>
        /\ edit[e].shift \in Shifts
        /\ \/ edit[e].does = "pin"    /\ edit[e].what \in PinAsk
           \/ edit[e].does = "unpin"  /\ edit[e].what \in UnpinAsk
           \/ edit[e].does = "shape"  /\ edit[e].what \in ShapeAsk
           \/ edit[e].does = "update" /\ edit[e].what \in UpdateAsk

\* No two open transactions began at one time, and none in the future.
TimesDistinct ==
    \A e \in Editors : edit[e].at = "begun" =>
        /\ edit[e].time <= clock
        /\ \A f \in Editors : edit[f].at = "begun" /\ edit[f].time = edit[e].time => f = e

\* Only a Shift that is ever closed is closed, was seen closed or will be.
ClosableOnly ==
    /\ \A s \in Shifts : closed[s] => s \in Closable
    /\ \A e \in Editors : edit[e].at # "idle" =>
          /\ edit[e].closed => edit[e].shift \in Closable
          /\ edit[e].does = "update" /\ edit[e].what.closed = TRUE =>
                edit[e].shift \in Closable

\* A pin is known by its id, also to the request that is about to delete it.
PinsNamed ==
    /\ \A p, q \in pins : p.id = q.id => p = q
    /\ \A e \in Editors : edit[e].at # "idle" /\ edit[e].does = "unpin" =>
          /\ edit[e].what.pin <= minted
          /\ \A p \in pins : p.id = edit[e].what.pin => p.shift = edit[e].shift

\* The strengthening of the invariants that the steps keep.
IndInv ==
    /\ TypeOK
    /\ RequestsInOrder
    /\ TimesDistinct
    /\ ClosableOnly
    /\ PinsNamed
    /\ PinnedOnce
    /\ PinsFit

\* What the solver is asked of rota r, but for the days.
InputsOf(r) ==
    [s \in ShiftsOf(r) |-> <<closed[s], shape[s], {p \in pins : p.shift = s}>>]

Open == {edit[e].time : e \in {f \in Editors : edit[f].at = "begun"}}

Stamping == INSTANCE StampedInputs WITH
    inputs <- [r \in Rotas |-> InputsOf(r)],
    days   <- [r \in Rotas |-> [s \in ShiftsOf(r) |-> day[s]]],
    open   <- Open

\* No edit moves an input of an unallocated rota without stamping it, to a time
\* nothing else is stamped with, nor one of an allocated rota at all: this
\* module implements StampedInputs.
InputsSpec == Stamping!Spec
=============================================================================
