----------------------------- MODULE RotaChanges -----------------------------
(***************************************************************************)
(* Changing a published rota (pkg/core/services/changeRota.go): who comes  *)
(* in and who goes out of a Shift, or two Shifts for a swap, recorded as   *)
(* alterations beside the allocation and replayed over it in the order of  *)
(* their set_time (utils.ApplyAlterations).                                *)
(*                                                                         *)
(* A change is a request of several steps: it resolves its dates to Shifts *)
(* outside any transaction, begins one, waits for the rotation rows, and   *)
(* then reads, validates and inserts in one span.  set_time is the now()   *)
(* of that transaction, fixed when it began and not when it got the lock.  *)
(***************************************************************************)
EXTENDS Naturals, Sequences

CONSTANTS
    Changers,   \* requests recording a change
    Rotas,
    Shifts,
    RotaOf,     \* the rota each Shift was minted in
    Dates,      \* the days a Shift can start on
    FirstDate,  \* the day each Shift was minted for
    Volunteers, \* the roster
    Customs,    \* custom entries: people the roster does not know
    Roles,
    Seatings,   \* for each Shift, the seats an allocation may give it
    InFlight,   \* the rotas that have not been allocated to begin with
    Asks,       \* the changes an admin may send
    None,       \* a field left empty
    MaxClock    \* bound: the number of changes that ever begin

People == Volunteers \cup Customs

\* The allocations of a Shift: the Roles each person has on it, in their order.
\* Nothing asks how the allocations of two people are ordered.
Seats  == [People -> Seq(Roles \cup {None})]
Nobody == [who \in People |-> <<>>]

Row    == [time : 1 .. MaxClock, dir : {"remove", "add"}, who : People,
           role : Roles \cup {None}]
Ask ==
    [date : Dates, swap : Dates \cup {None},
     in : Volunteers \cup {None}, out : Volunteers \cup {None},
     inCustom : Customs \cup {None}, outCustom : Customs \cup {None},
     role : Roles \cup {None}]

\* How many seats of a Shift a volunteer or custom entry has.
Times(who, seats) == Len(seats[who])

ASSUME ShiftsAssumption ==
    /\ RotaOf \in [Shifts -> Rotas]
    /\ FirstDate \in [Shifts -> Dates]
    /\ \A s, t \in Shifts : FirstDate[s] = FirstDate[t] => s = t
    /\ InFlight \subseteq Rotas

ASSUME PeopleAssumption ==
    /\ Volunteers \cap Customs = {}
    /\ None \notin People \cup Roles \cup Dates \cup Shifts

\* The solver seats nobody twice on a Shift.
ASSUME SeatingsAssumption ==
    \A s \in Shifts :
        /\ Seatings[s] # {} /\ Seatings[s] \subseteq Seats
        /\ \A seats \in Seatings[s], v \in Volunteers : Times(v, seats) <= 1

ASSUME AsksAssumption == Asks \subseteq Ask /\ MaxClock \in Nat

VARIABLES
    rota,   \* rotation: allocated, not yet, or discarded
    date,   \* the day each Shift starts on, or None once it is deleted
    base,   \* allocation: the seats of each Shift as it was allocated
    ledger, \* alteration: the rows of each Shift, in the order of their insert
    clock,  \* the time of the last change transaction begun
    change  \* how far each request has got

db   == <<rota, date, base, ledger>>
vars == <<rota, date, base, ledger, clock, change>>

-----------------------------------------------------------------------------
(* The effective rota. *)

\* A removal takes every seat of that name, an addition makes one more.
Apply(seats, row) ==
    [seats EXCEPT ![row.who] =
        IF row.dir = "remove" THEN <<>> ELSE Append(@, row.role)]

\* The rows with one set_time, over the seats: the rows of one change, in the
\* order they were inserted in.
ApplyTime(seats, rows, time) ==
    LET after[i \in 0 .. Len(rows)] ==
            IF i = 0 THEN seats
            ELSE IF rows[i].time = time THEN Apply(after[i - 1], rows[i])
                                        ELSE after[i - 1]
    IN  after[Len(rows)]

\* Mutant: the newest alterations are replayed first.
NewestFirst(seats, rows) ==
    LET upTo[n \in 0 .. MaxClock] ==
            IF n = 0 THEN seats ELSE ApplyTime(upTo[n - 1], rows, MaxClock + 1 - n)
    IN  upTo[MaxClock]

\* All the rows, sorted by set_time.
Replay(seats, rows) ==
    LET upTo[time \in 0 .. MaxClock] ==
            IF time = 0 THEN seats ELSE ApplyTime(upTo[time - 1], rows, time)
    IN  upTo[MaxClock]

Effective(s)      == Replay(base[s], ledger[s])
EffectiveAfter(s) == Replay(base'[s], ledger'[s])

On(who, seats) == Times(who, seats) > 0

-----------------------------------------------------------------------------
(* One change. *)

IdleChange == [at |-> "idle", ask |-> None, shift |-> None, swap |-> None,
               time |-> 0]

\* Something must change; a volunteer coming in needs a Role, except on a swap,
\* where each inherits one.
Stated(ask) ==
    /\ \E f \in {"in", "out", "inCustom", "outCustom"} : ask[f] # None
    /\ ask.role # None <=> ask.in # None /\ ask.swap = None

\* Mutant: the volunteer coming in may be on the Shift already.
FitsOut(seats, in, out, outCustom) ==
    /\ out # None => On(out, seats)
    /\ outCustom # None => On(outCustom, seats)

\* validateDateChanges: who goes out is on the Shift, who comes in is not.
\* Custom entries may come in any number of times.
Fits(seats, in, out, outCustom) ==
    /\ out # None => On(out, seats)
    /\ in # None => ~On(in, seats)
    /\ outCustom # None => On(outCustom, seats)

\* roleOnShift: the first Role a volunteer has on a Shift, if any.
RoleOn(who, seats) ==
    LET named == {i \in 1 .. Len(seats[who]) : seats[who][i] # None}
    IN  IF who = None \/ named = {} THEN None
        ELSE seats[who][CHOOSE i \in named : \A j \in named : i <= j]

\* Mutant: a volunteer keeps the Role they had on the Shift they leave.
KeepRole(in, out, joining, leaving) ==
    IF RoleOn(in, leaving) # None THEN RoleOn(in, leaving)
                                  ELSE RoleOn(out, joining)

\* A volunteer who joins takes the Role of whom they replace, or else the one
\* they had on the Shift they leave.
RoleForIncoming(in, out, joining, leaving) ==
    IF RoleOn(out, joining) # None THEN RoleOn(out, joining)
                                   ELSE RoleOn(in, leaving)

\* Mutant: a row is written for a name that was left empty.
AnyName(who) == TRUE

Named(who) == who # None

\* One row, if there is anyone to write it for.
Line(time, dir, who, role) ==
    IF Named(who) THEN <<[time |-> time, dir |-> dir, who |-> who, role |-> role]>>
                  ELSE <<>>

\* buildAlterationsForShift: the rows of one Shift's half of a change.
Rows(time, in, out, inCustom, outCustom, role) ==
    Line(time, "remove", out, None) \o Line(time, "add", in, role)
    \o Line(time, "remove", outCustom, None) \o Line(time, "add", inCustom, None)

Init ==
    /\ rota = [r \in Rotas |-> IF r \in InFlight THEN "unallocated" ELSE "allocated"]
    /\ date = FirstDate
    /\ base \in {b \in [Shifts -> UNION {Seatings[s] : s \in Shifts} \cup {Nobody}] :
                    \A s \in Shifts :
                        IF RotaOf[s] \in InFlight THEN b[s] = Nobody
                                                  ELSE b[s] \in Seatings[s]}
    /\ ledger = [s \in Shifts |-> <<>>]
    /\ clock = 0
    /\ change = [c \in Changers |-> IdleChange]

\* A request arrives.  Its date is resolved to the Shift that starts on it.
ResolveDate(c) ==
    /\ change[c].at = "idle"
    /\ \E ask \in Asks, s \in Shifts :
          /\ Stated(ask)
          /\ date[s] = ask.date
          /\ change' = [change EXCEPT ![c] =
                [at |-> IF ask.swap \in {None, ask.date} THEN "resolved" ELSE "dated",
                 ask |-> ask, shift |-> s,
                 swap |-> IF ask.swap = ask.date THEN s ELSE None,
                 time |-> 0]]
    /\ UNCHANGED <<db, clock>>

\* The swap date is another statement.
ResolveSwapDate(c) ==
    /\ change[c].at = "dated"
    /\ \E s \in Shifts :
          /\ date[s] = change[c].ask.swap
          /\ change' = [change EXCEPT ![c].at = "resolved", ![c].swap = s]
    /\ UNCHANGED <<db, clock>>

\* BEGIN: from here on now() is fixed.  The locks are waited for afterwards.
BeginChange(c) ==
    /\ change[c].at = "resolved"
    /\ clock < MaxClock
    /\ clock' = clock + 1
    /\ change' = [change EXCEPT ![c].at = "begun", ![c].time = clock + 1]
    /\ UNCHANGED db

\* Mutant: the rotation rows are locked if they are there.
LockAnyRota(s) == TRUE

\* SELECT id FROM rotation ... FOR UPDATE: a row that is gone is an error.
LockRota(s) == rota[RotaOf[s]] # "discarded"

\* Under the locks: the effective rota is read, the change is validated against
\* it, and the rows of both halves are inserted.
CommitChange(c) ==
    LET ask     == change[c].ask
        s       == change[c].shift
        t       == change[c].swap
        isSwap  == t # None
        here    == Effective(s)
        there   == IF isSwap THEN Effective(t) ELSE here
        hereIn  == IF ask.in # None /\ ask.role = None
                   THEN RoleForIncoming(ask.in, ask.out, here, there) ELSE ask.role
        thereIn == RoleForIncoming(ask.out, ask.in, there, here)
        rows    == Rows(change[c].time, ask.in, ask.out,
                        ask.inCustom, ask.outCustom, hereIn)
        back    == Rows(change[c].time, ask.out, ask.in,
                        ask.outCustom, ask.inCustom, thereIn)
    IN  /\ change[c].at = "begun"
        /\ LockRota(s) /\ Fits(here, ask.in, ask.out, ask.outCustom)
        /\ isSwap => LockRota(t) /\ Fits(there, ask.out, ask.in, ask.inCustom)
        /\ ledger' = [x \in Shifts |->
                        ledger[x] \o (IF x = s THEN rows ELSE <<>>)
                                  \o (IF isSwap /\ x = t THEN back ELSE <<>>)]
        /\ change' = [change EXCEPT ![c] = IdleChange]
        /\ UNCHANGED <<rota, date, base, clock>>

\* The change is refused, fails, or its client leaves: nothing is recorded.
GiveUp(c) ==
    /\ change[c].at # "idle"
    /\ change' = [change EXCEPT ![c] = IdleChange]
    /\ UNCHANGED <<db, clock>>

-----------------------------------------------------------------------------
(* What else moves. *)

\* InsertAllocationsAndSetAllocated.
Allocate(r) ==
    /\ rota[r] = "unallocated"
    /\ rota' = [rota EXCEPT ![r] = "allocated"]
    /\ \E b \in [Shifts -> UNION {Seatings[s] : s \in Shifts} \cup {Nobody}] :
          /\ \A s \in Shifts : IF RotaOf[s] = r THEN b[s] \in Seatings[s]
                                                ELSE b[s] = base[s]
          /\ base' = b
    /\ UNCHANGED <<date, ledger, clock, change>>

\* DiscardRota.  Its Shifts go with it; a Shift with alterations cannot be
\* deleted, and then neither is anything else.
Discard(r) ==
    /\ rota[r] = "unallocated"
    /\ \A s \in Shifts : RotaOf[s] = r => ledger[s] = <<>>
    /\ rota' = [rota EXCEPT ![r] = "discarded"]
    /\ date' = [s \in Shifts |-> IF RotaOf[s] = r THEN None ELSE date[s]]
    /\ UNCHANGED <<base, ledger, clock, change>>

\* UpdateShift with new times: allowed at any age, onto a day nobody has.
Move(s, d) ==
    /\ date[s] # None
    /\ \A t \in Shifts \ {s} : date[t] # d
    /\ date' = [date EXCEPT ![s] = d]
    /\ UNCHANGED <<rota, base, ledger, clock, change>>

Next ==
    \/ \E c \in Changers :
          \/ ResolveDate(c) \/ ResolveSwapDate(c)
          \/ BeginChange(c) \/ CommitChange(c) \/ GiveUp(c)
    \/ \E r \in Rotas : Allocate(r) \/ Discard(r)
    \/ \E s \in Shifts, d \in Dates : Move(s, d)

Spec == Init /\ [][Next]_vars

-----------------------------------------------------------------------------
(* Properties. *)

\* Every variable has its type, and no row is from the future.
TypeOK ==
    /\ rota \in [Rotas -> {"unallocated", "allocated", "discarded"}]
    /\ date \in [Shifts -> Dates \cup {None}]
    /\ \A s \in Shifts :
          /\ base[s] \in Seats
          /\ ledger[s] \in Seq(Row)
          /\ \A i \in DOMAIN ledger[s] : ledger[s][i].time <= clock
    /\ clock \in 0 .. MaxClock
    /\ change \in
          [Changers ->
              [at : {"idle", "dated", "resolved", "begun"}, ask : Ask \cup {None},
               shift : Shifts \cup {None}, swap : Shifts \cup {None},
               time : 0 .. MaxClock]]

\* However changes overlap, and in whatever order they began and committed, the
\* effective rota never has a volunteer on a Shift twice: what
\* validateDateChanges is for.  A rota changed before it was allocated may.
NobodyTwice ==
    \A s \in Shifts, v \in Volunteers :
        RotaOf[s] \notin InFlight => Times(v, Effective(s)) <= 1

\* A discarded rota has no alterations: a change that resolved its Shift before
\* the discard is refused by the lock (WithRotaLock).
NothingOnDiscarded ==
    \A s \in Shifts : rota[RotaOf[s]] = "discarded" => ledger[s] = <<>>

\* The rest of the inductive invariant.  What each step of a change has settled:
\* a change that has begun has a time of the past, and a swap has both Shifts.
ChangesInOrder ==
    \A c \in Changers :
        /\ change[c].at # "idle" =>
              /\ change[c].ask \in Asks /\ Stated(change[c].ask)
              /\ change[c].shift \in Shifts
        /\ change[c].at = "dated" => change[c].ask.swap # None
        /\ change[c].at \in {"resolved", "begun"} =>
              (change[c].swap # None <=> change[c].ask.swap # None)
        /\ change[c].at = "begun" => change[c].time \in 1 .. clock

\* No rota comes into flight again.
InFlightOnly == \A r \in Rotas : rota[r] = "unallocated" => r \in InFlight

\* What every step of every request keeps: the safety of the effective rota and of
\* the ledger, with what each request carries on its way to the lock.
IndInv ==
    /\ TypeOK
    /\ ChangesInOrder
    /\ InFlightOnly
    /\ NobodyTwice
    /\ NothingOnDiscarded

\* The rows of Shift s are all older than those of the change c.
Newest(c, s) ==
    \A i \in DOMAIN ledger[s] : ledger[s][i].time < change[c].time

Commits(c) == change[c].at = "begun" /\ ledger' # ledger /\ change'[c].at = "idle"

\* The half of a change on Shift s did what was asked: who goes out is off it,
\* who comes in has one seat, a custom entry is off or on it, and every other
\* volunteer kept their seats and Roles.
TookEffect(s, in, out, inCustom, outCustom) ==
    /\ out # None => ~On(out, EffectiveAfter(s))
    /\ in # None => Times(in, EffectiveAfter(s)) = 1
    /\ outCustom \notin {None, inCustom} => ~On(outCustom, EffectiveAfter(s))
    /\ inCustom # None => On(inCustom, EffectiveAfter(s))
    /\ \A v \in Volunteers \ {in, out} : EffectiveAfter(s)[v] = Effective(s)[v]

\* A change that began after every change recorded on its Shift takes effect as
\* asked, and disturbs nobody else (ApplyAlterations over what was inserted).
LatestTakesEffect ==
    [][\A c \in Changers : Commits(c) =>
          LET ask == change[c].ask
              s   == change[c].shift
              t   == change[c].swap
          IN  /\ Newest(c, s) /\ t # s =>
                    TookEffect(s, ask.in, ask.out, ask.inCustom, ask.outCustom)
              /\ t \notin {None, s} /\ Newest(c, t) =>
                    TookEffect(t, ask.out, ask.in, ask.outCustom, ask.inCustom)]_vars

\* The seats of the volunteers are what they were with a and b interchanged.
Exchanged(a, b, before, after) ==
    \A v \in Volunteers :
        after[v] = before[IF v = a THEN b ELSE IF v = b THEN a ELSE v]

\* "A swap hands each Seat over intact" (changeRota.go:456): when two volunteers
\* who each have one seat, with a Role, change places, each has the seat and the
\* Role of the other, on both Shifts, and nobody else's seat is touched.
SwapKeepsSeats ==
    [][\A c \in Changers : Commits(c) =>
          LET ask == change[c].ask
              s   == change[c].shift
              t   == change[c].swap
          IN  /\ t \notin {None, s} /\ ask.in # None /\ ask.out # None
              /\ Newest(c, s) /\ Newest(c, t)
              /\ Times(ask.out, Effective(s)) = 1 /\ Times(ask.in, Effective(t)) = 1
              /\ RoleOn(ask.out, Effective(s)) # None
              /\ RoleOn(ask.in, Effective(t)) # None
              => /\ Exchanged(ask.in, ask.out, Effective(s), EffectiveAfter(s))
                 /\ Exchanged(ask.in, ask.out, Effective(t), EffectiveAfter(t))]_vars
==============================================================================
