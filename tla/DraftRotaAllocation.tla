------------------------- MODULE DraftRotaAllocation -------------------------
(***************************************************************************)
(* The draft of the rota in flight: how it is read, solved, stored, made   *)
(* stale by edits and finally confirmed (pkg/api/draftRotaAllocation.go,   *)
(* allocateRota.go and draftsolves.go, the services under them and the     *)
(* transactions of pkg/db).                                                *)
(*                                                                         *)
(* A request is one HTTP handler running in the server.  Its database      *)
(* statements are separate steps, because the code runs them outside any   *)
(* transaction; a transaction (storing a draft, committing an allocation,  *)
(* discarding a rota, an edit of one) is one step, because it locks the    *)
(* rotation row and commits whole.  An edit of the settings takes no such  *)
(* lock: it finds the rotas to stamp in one step and commits in a later    *)
(* one, and a rota that is defined in between is not stamped.              *)
(*                                                                         *)
(* A solve is a deterministic function of the inputs it read.  What it     *)
(* answers is abstract: a seating (what hashAllocations fingerprints),     *)
(* Infeasible, or Refused when the input assembly itself turns it away.    *)
(***************************************************************************)
EXTENDS Naturals

CONSTANTS
    Servers,     \* the processes of the app; deploy/compose.yaml runs one
    ServerOf,    \* the server each admin's requests reach
    Admins,      \* browser tabs, each with at most one request outstanding
    Editors,     \* requests editing an allocator input
    Definers,    \* requests defining a rota
    Rotas,       \* the rotations that may ever be minted
    Start,       \* the date each rota's first Shift falls on
    OwnKinds,    \* inputs of one rota: its Shapes, closures, pins, responses
    SharedKinds, \* inputs of every rota: Roles, settings, the roster, history
    Unstamped,   \* inputs whose writers stamp no rota: the roster, history
    ReadOrder,   \* the position at which a solve reads each kind of input
    Values,      \* the values one kind of input can take
    Seatings,    \* the rotas a solve can produce
    NoSeats,     \* the seating with nobody in it
    Solve,       \* the solver: Solve[r][inputs]
    Infeasible,  \* the solver's answer when no rota is possible
    Refused,     \* the assembly's answer when a step has not been taken yet
    Unread,      \* an input a solve has yet to read
    None,        \* an absent row, an absent hash
    Free,        \* the solve slot, held by nobody
    MaxClock     \* bound: the number of edit transactions that ever begin

Kinds   == OwnKinds \cup SharedKinds
Stamped == Kinds \ Unstamped
Inputs  == [Kinds -> Values]
Stamps  == 0 .. MaxClock        \* 0 is the stamp of a rota just defined
Drafts  == [stamp : Stamps, from : Inputs]

\* The rotas the solver can make of a rota's own Shifts.  A draft that seats
\* nobody, as every infeasible one, names no Shift.
SeatingsOf ==
    [r \in Rotas |-> {NoSeats} \cup ({Solve[r][i] : i \in Inputs} \cap Seatings)]

ASSUME KindsAssumption ==
    /\ OwnKinds \cap SharedKinds = {}
    /\ Unstamped \subseteq SharedKinds
    /\ ReadOrder \in [Kinds -> Nat]
    /\ \A j, k \in Kinds : ReadOrder[j] = ReadOrder[k] => j = k
    /\ Values # {} /\ Unread \notin Values

ASSUME SolveAssumption ==
    /\ Solve \in [Rotas -> [Inputs -> Seatings \cup {Infeasible, Refused}]]
    /\ NoSeats \in Seatings
    /\ Seatings \cap {None, Infeasible, Refused} = {}

\* Every line hashAllocations hashes names its Shift, and a Shift is of one rota.
ASSUME HashAssumption ==
    \A q, r \in Rotas : q # r => SeatingsOf[q] \cap SeatingsOf[r] = {NoSeats}

ASSUME RotasAssumption ==
    /\ Start \in [Rotas -> Nat]
    /\ None \notin Rotas /\ None \notin Drafts

ASSUME ClockAssumption == MaxClock \in Nat

ASSUME SlotAssumption == Free \notin Admins /\ ServerOf \in [Admins -> Servers]

VARIABLES
    rota,       \* rotation: is each rota defined, allocated, discarded?
    stamp,      \* rotation.inputs_changed_at
    own,        \* each rota's own inputs
    shared,     \* the inputs every rota shares
    draft,      \* draft_rota_allocation with its draft_allocation rows
    allocation, \* allocation: the seating a rota was allocated as
    clock,      \* the time of the last transaction begun by an editor
    txn,        \* the start time of each editor's open transaction, or 0
    found,      \* the rotas an edit of the settings is about to stamp, once read
    definer,    \* how far each DefineRota has got
    slot,       \* draftSolves.slot: the request holding each server's solve slot
    req,        \* the handler each admin's request is running
    screen,     \* the draft (rota and hash) each admin's browser was last shown
    missed      \* history: the kinds of input that moved since the solve of each
                \* rota's draft began, in edits that did not find the rota

db    == <<rota, stamp, own, shared, draft, allocation>>
edits == <<clock, txn, found, definer, missed>>
vars  == <<rota, stamp, own, shared, draft, allocation, clock, txn, found,
           definer, slot, req, screen, missed>>

-----------------------------------------------------------------------------
(* What is in the database. *)

Unallocated == {r \in Rotas : rota[r] = "unallocated"}
Minted      == {r \in Rotas : rota[r] \in {"unallocated", "allocated"}}

\* GetRotaInFlight: the earliest rota that has not been allocated.
InFlight(r) == r \in Unallocated /\ \A q \in Unallocated : Start[r] <= Start[q]

\* FindLatestRotation: the rota, allocated or not, that starts last.
Latest(r) == r \in Minted /\ \A q \in Minted : Start[q] <= Start[r]

Current(r) == [k \in Kinds |-> IF k \in OwnKinds THEN own[r][k] ELSE shared[k]]

\* An infeasible solve is stored with no Seats.
SeatsOf(answer) == IF answer \in Seatings THEN answer ELSE NoSeats

\* GetDraftAllocationsByShiftIDs: the rows on the rota's Shifts, if any.
StoredSeats(r) ==
    IF draft[r] = None THEN NoSeats ELSE SeatsOf(Solve[r][draft[r].from])

-----------------------------------------------------------------------------
(* The requests. *)

NothingRead == [k \in Kinds |-> Unread]

\* What a reader is told: the rota in flight, and the Seats (hash) drafted for it.
Status(r, seats) == [rota |-> r, seats |-> seats]

\* The status of a rota nobody has solved for carries no hash, and nobody can
\* confirm it.
NoDraft == Status(None, None)

\* "missed" is history too: what moved unannounced since a solve began.
IdleRequest ==
    [at |-> "idle", job |-> "none", rota |-> None, stamp |-> 0,
     seen |-> NothingRead, row |-> None, status |-> NoDraft, missed |-> {}]

\* The inputs of a rota that has no rows: nobody reads them.
Blank == [k \in OwnKinds |-> CHOOSE v \in Values : TRUE]

Solving == {"pick", "inputs", "search"}

Init ==
    /\ rota = [r \in Rotas |-> "undefined"]
    /\ stamp = [r \in Rotas |-> 0]
    /\ own = [r \in Rotas |-> Blank]
    /\ shared \in [SharedKinds -> Values]
    /\ draft = [r \in Rotas |-> None]
    /\ allocation = [r \in Rotas |-> None]
    /\ clock = 0
    /\ txn = [e \in Editors |-> 0]
    /\ found = [e \in Editors |-> None]
    /\ definer = [d \in Definers |-> "idle"]
    /\ slot = [s \in Servers |-> Free]
    /\ req = [a \in Admins |-> IdleRequest]
    /\ screen = [a \in Admins |-> NoDraft]
    /\ missed = [r \in Rotas |-> {}]

Holds(a) == slot[ServerOf[a]] = a

\* Mutant: an early return misses the release.
ReleaseAfterSolve(a) ==
    slot' = IF Holds(a) /\ req[a].at \in Solving
            THEN [slot EXCEPT ![ServerOf[a]] = Free] ELSE slot

\* Mutant: whoever leaves frees the slot, its own or not.
ReleaseAlways(a) == slot' = [slot EXCEPT ![ServerOf[a]] = Free]

Release(a) ==
    slot' = IF Holds(a) THEN [slot EXCEPT ![ServerOf[a]] = Free] ELSE slot

\* The handler returns; its deferred release gives back a slot it took.
Finish(a) == Release(a) /\ req' = [req EXCEPT ![a] = IdleRequest]

Show(a, status) == screen' = [screen EXCEPT ![a] = status]

\* GET the draft: the first status read is made outside the slot.
StartRead(a) ==
    /\ req[a].at = "idle"
    /\ req' = [req EXCEPT ![a].at = "rota", ![a].job = "read"]
    /\ UNCHANGED <<db, edits, slot, screen>>

\* POST a re-solve: straight to the queue.
StartSolve(a) ==
    /\ req[a].at = "idle"
    /\ req' = [req EXCEPT ![a].at = "queue", ![a].job = "solve"]
    /\ UNCHANGED <<db, edits, slot, screen>>

\* POST an allocation of the rota on the screen.  The empty hash is refused.
StartAllocate(a) ==
    /\ req[a].at = "idle"
    /\ screen[a].seats # None
    /\ req' = [req EXCEPT ![a].at = "queue", ![a].job = "allocate"]
    /\ UNCHANGED <<db, edits, slot, screen>>

\* acquire: the slot is a channel of capacity one.
Acquire(a) ==
    /\ req[a].at = "queue"
    /\ slot[ServerOf[a]] = Free
    /\ slot' = [slot EXCEPT ![ServerOf[a]] = a]
    /\ req' = [req EXCEPT ![a].at =
                   IF req[a].job = "solve" THEN "pick" ELSE "rota"]
    /\ UNCHANGED <<db, edits, screen>>

\* A request ends with nothing to show: its client left (in the queue or
\* later), or a statement of it failed and the error was reported.  Nothing is
\* written, and a slot it held is released.
Abandon(a) ==
    /\ req[a].at # "idle"
    /\ Finish(a)
    /\ UNCHANGED <<db, edits, screen>>

\* GetRotaInFlight, first statement of a status read and of the allocate gate.
ReadRota(a) ==
    /\ req[a].at = "rota"
    /\ \/ \E r \in Rotas :
            /\ InFlight(r)
            /\ req' = [req EXCEPT ![a].at = "row", ![a].rota = r,
                                  ![a].stamp = stamp[r]]
            /\ UNCHANGED slot
       \/ Unallocated = {} /\ Finish(a)
    /\ UNCHANGED <<db, edits, screen>>

\* A dirty draft is what a reader queues for, and what it solves once inside.
\* A status read inside the slot is kept to be shown if that solve fails.
QueueOrSolve(a, status) ==
    /\ req' = [req EXCEPT ![a] =
          IF Holds(a)
          THEN [IdleRequest EXCEPT !.at = "pick", !.job = "read", !.status = status]
          ELSE [IdleRequest EXCEPT !.at = "queue", !.job = "read"]]
    /\ UNCHANGED <<slot, screen>>

\* GetDraftRotaAllocation, in a status read.  An undrafted rota is dirty.
ReadRow(a) ==
    LET row == draft[req[a].rota]
    IN  /\ req[a].at = "row" /\ req[a].job = "read"
        /\ \/ row = None /\ QueueOrSolve(a, NoDraft)
           \/ /\ row # None
              /\ req' = [req EXCEPT ![a].at = "seats", ![a].row = row]
              /\ UNCHANGED <<slot, screen>>
        /\ UNCHANGED <<db, edits>>

\* GetDraftRotaAllocation, before the solve of an allocation: there must be one.
CheckDrafted(a) ==
    /\ req[a].at = "row" /\ req[a].job = "allocate"
    /\ \/ draft[req[a].rota] = None /\ Finish(a)
       \/ /\ draft[req[a].rota] # None
          /\ req' = [req EXCEPT ![a].at = "pick"]
          /\ UNCHANGED slot
    /\ UNCHANGED <<db, edits, screen>>

\* Mutant: "solved before the last change", a comparison of times.
CleanByClock(row, seenStamp) == row.stamp >= seenStamp

\* Dirty is the two stamps disagreeing, and nothing else.
Clean(row, seenStamp) == row.stamp = seenStamp

\* GetDraftAllocationsByShiftIDs: the Seats the hash is derived from.
ReadSeats(a) ==
    LET status == Status(req[a].rota, StoredSeats(req[a].rota))
    IN  /\ req[a].at = "seats"
        /\ \/ /\ Clean(req[a].row, req[a].stamp)
              /\ Show(a, status)
              /\ Finish(a)
           \/ /\ ~Clean(req[a].row, req[a].stamp)
              /\ QueueOrSolve(a, status)
        /\ UNCHANGED <<db, edits>>

-----------------------------------------------------------------------------
(* solveRotaInFlight, and what is done with its answer. *)

\* The solver asks for the latest rota, and reads its stamp before any input.
PickRota(a) ==
    /\ req[a].at = "pick"
    /\ \E r \in Rotas :
          /\ Latest(r)
          /\ r \in Unallocated
          /\ req' = [req EXCEPT ![a].at = "inputs", ![a].rota = r,
                                ![a].stamp = stamp[r]]
    /\ UNCHANGED <<db, edits, slot, screen>>

\* Mutant: the solver starts on the first input that arrives.
AnyRead(seen, k) == TRUE

\* With input k, everything has been read.
AllRead(seen, k) == \A j \in Kinds \ {k} : seen[j] # Unread

\* The inputs are read one after the other, outside any transaction.
ReadInput(a) ==
    /\ req[a].at = "inputs"
    /\ \E k \in Kinds :
          /\ req[a].seen[k] = Unread
          /\ \A j \in Kinds :
                ReadOrder[j] < ReadOrder[k] => req[a].seen[j] # Unread
          /\ req' = [req EXCEPT
                        ![a].seen[k] = Current(req[a].rota)[k],
                        ![a].at = IF AllRead(req[a].seen, k)
                                  THEN "search" ELSE "inputs"]
    /\ UNCHANGED <<db, edits, slot, screen>>

Answer(a) == Solve[req[a].rota][req[a].seen]

\* A solve that did not happen: refused, crashed, past its ceiling, or unable to
\* store its answer.  A GET shows the draft as it stood, with the error.
SolveFails(a) ==
    /\ req[a].at \in Solving
    /\ screen' = IF req[a].job = "read"
                 THEN [screen EXCEPT ![a] = req[a].status] ELSE screen
    /\ Finish(a)
    /\ UNCHANGED <<db, edits>>

\* SELECT allocated_datetime ... FOR UPDATE: a rota that is gone or allocated is
\* refused, and one that is not stays as it is until the transaction commits.
LockUnallocated(r) == rota[r] = "unallocated"

\* Mutant: the stamp is read when the answer is stored.
StampNow(a) == stamp[req[a].rota]

\* rotaSolve.draft: the stamp a draft carries was captured as its solve began.
StampCaptured(a) == req[a].stamp

\* storeSolveAsDraft, and under it the transaction ReplaceDraftRotaAllocation.
StoreSolve(a) ==
    /\ LockUnallocated(req[a].rota)
    /\ draft' = [draft EXCEPT ![req[a].rota] =
                     [stamp |-> StampCaptured(a), from |-> req[a].seen]]
    /\ missed' = [missed EXCEPT ![req[a].rota] = req[a].missed]
    /\ Finish(a)
    /\ UNCHANGED <<rota, stamp, own, shared, allocation, clock, txn, found,
                   definer>>

\* A client that left during the store never sees the draft it caused.
Heard(a, seats) == Show(a, Status(req[a].rota, seats)) \/ UNCHANGED screen

StoreDraft(a) ==
    /\ req[a].at = "search"
    /\ req[a].job \in {"read", "solve"}
    /\ Answer(a) # Refused
    /\ StoreSolve(a)
    /\ Heard(a, SeatsOf(Answer(a)))

\* Mutant: the fresh hash is compared with the stored draft's.
ConfirmedStored(a) == Answer(a) = StoredSeats(req[a].rota)

\* The fresh hash is compared with the one the client stated.  The request does
\* not say which rota that was the hash of.
ConfirmedShown(a) == Answer(a) = screen[a].seats

\* Mutant: the rota in flight is looked up again, and is not the one solved.
GateRota(a) == CHOOSE r \in Rotas : Unallocated # {} => InFlight(r)

SolvedRota(a) == req[a].rota

\* Mutant: the draft's rows outlive it.
KeepDraft(r) == UNCHANGED <<draft, missed>>

\* The draft and its Seats are deleted.
DropDraft(r) ==
    /\ draft' = [draft EXCEPT ![r] = None]
    /\ missed' = [missed EXCEPT ![r] = {}]

\* The fresh solve is not the rota confirmed: it becomes the draft, and is shown.
RefuseAllocation(a) ==
    /\ req[a].at = "search"
    /\ req[a].job = "allocate"
    /\ Answer(a) \in Seatings /\ ~ConfirmedShown(a)
    /\ StoreSolve(a)
    /\ Heard(a, Answer(a))

\* No rota is possible: the draft says so, and the reply is an error.
InfeasibleAllocation(a) ==
    /\ req[a].at = "search"
    /\ req[a].job = "allocate"
    /\ Answer(a) = Infeasible
    /\ StoreSolve(a)
    /\ UNCHANGED screen

\* InsertAllocationsAndSetAllocated, once the fresh hash is the confirmed one.
CommitAllocation(a) ==
    LET r == SolvedRota(a)
    IN  /\ req[a].at = "search"
        /\ req[a].job = "allocate"
        /\ Answer(a) \in Seatings /\ ConfirmedShown(a)
        /\ LockUnallocated(r)
        /\ rota' = [rota EXCEPT ![r] = "allocated"]
        /\ allocation' = [allocation EXCEPT ![r] = Answer(a)]
        /\ DropDraft(r)
        /\ Finish(a)
        /\ UNCHANGED <<stamp, own, shared, clock, txn, found, definer, screen>>

-----------------------------------------------------------------------------
(* Everything that moves under a draft. *)

\* An editor's transaction begins, which fixes its now().  It may then wait for
\* the rota's row lock, so transactions commit in any order.
BeginEdit(e) ==
    /\ txn[e] = 0
    /\ clock < MaxClock
    /\ clock' = clock + 1
    /\ txn' = [txn EXCEPT ![e] = clock + 1]
    /\ UNCHANGED <<db, found, definer, slot, req, screen, missed>>

EndEdit(e) ==
    /\ txn' = [txn EXCEPT ![e] = 0]
    /\ found' = [found EXCEPT ![e] = None]
    /\ UNCHANGED <<clock, definer>>

\* A pin, a Shape, a closure, a date or a response, with the stamp beside it.
CommitOwnEdit(e) ==
    /\ txn[e] # 0 /\ found[e] = None
    /\ \E r \in Unallocated, k \in OwnKinds, v \in Values :
          /\ own' = [own EXCEPT ![r][k] = v]
          /\ stamp' = [stamp EXCEPT ![r] = txn[e]]
    /\ EndEdit(e)
    /\ UNCHANGED <<rota, shared, draft, allocation, slot, req, screen, missed>>

\* A Role or a setting is written, and markAllRotaInputsChanged begins: the UPDATE
\* works on the rotas its snapshot shows.
FindRotas(e) ==
    /\ txn[e] # 0 /\ found[e] = None
    /\ found' = [found EXCEPT ![e] = Unallocated]
    /\ UNCHANGED <<db, clock, txn, definer, slot, req, screen, missed>>

\* It waits for the row of each, looks at allocated_datetime again, and keeps the
\* rows to the end of the transaction: so they are taken and stamped as it commits.
StampedBy(e) == found[e] \cap Unallocated

\* The rotas in flight that do not learn of the edit.
Overlooked(e) == Unallocated \ found[e]

\* A solve of rota r that has its stamp, and reads or has read its inputs.
Reading(a, r) == req[a].at \in {"inputs", "search"} /\ req[a].rota = r

\* The setting and the stamps become visible together.
CommitSharedEdit(e) ==
    /\ txn[e] # 0 /\ found[e] # None
    /\ \E k \in SharedKinds \ Unstamped, v \in Values :
          /\ shared' = [shared EXCEPT ![k] = v]
          /\ missed' = [r \in Rotas |->
                IF r \in Overlooked(e) /\ draft[r] # None
                THEN missed[r] \cup {k} ELSE missed[r]]
          /\ req' = [a \in Admins |->
                IF \E r \in Overlooked(e) : Reading(a, r)
                THEN [req[a] EXCEPT !.missed = @ \cup {k}] ELSE req[a]]
    /\ stamp' = [r \in Rotas |-> IF r \in StampedBy(e) THEN txn[e] ELSE stamp[r]]
    /\ EndEdit(e)
    /\ UNCHANGED <<rota, own, draft, allocation, slot, screen>>

\* The edit is refused, fails or is cancelled: the transaction rolls back.
RollBackEdit(e) ==
    /\ txn[e] # 0
    /\ EndEdit(e)
    /\ UNCHANGED <<db, slot, req, screen, missed>>

\* A roster sync, or an alteration of the previous rota: no stamp moves.
MoveUnstamped ==
    /\ \E k \in Unstamped, v \in Values : shared' = [shared EXCEPT ![k] = v]
    /\ UNCHANGED <<rota, stamp, own, draft, allocation, edits, slot, req, screen>>

\* DefineRota reads the rotations and refuses if one is in flight.
CheckDefine(d) ==
    /\ definer[d] = "idle"
    /\ Unallocated = {}
    /\ definer' = [definer EXCEPT ![d] = "checked"]
    /\ UNCHANGED <<db, clock, txn, found, slot, req, screen, missed>>

\* InsertDefinedRota: shapes and pins copied from the settings.  A rota that
\* starts with pins is stamped with the definition's own now(), which no edit
\* shares: it is the 0 of this rota as much as a NULL is.
InsertRota(d) ==
    /\ definer[d] = "checked"
    /\ \E r \in Rotas, inputs \in [OwnKinds -> Values] :
          /\ rota[r] = "undefined"
          /\ rota' = [rota EXCEPT ![r] = "unallocated"]
          /\ own' = [own EXCEPT ![r] = inputs]
    /\ definer' = [definer EXCEPT ![d] = "idle"]
    /\ UNCHANGED <<stamp, shared, draft, allocation, clock, txn, found, slot,
                   req, screen, missed>>

\* The insert is refused (a date is taken), fails, or its client leaves.
AbandonDefine(d) ==
    /\ definer[d] = "checked"
    /\ definer' = [definer EXCEPT ![d] = "idle"]
    /\ UNCHANGED <<db, clock, txn, found, slot, req, screen, missed>>

\* DiscardRota destroys an unallocated rota and what hangs off it.
DiscardRota(r) ==
    /\ LockUnallocated(r)
    /\ rota' = [rota EXCEPT ![r] = "discarded"]
    /\ stamp' = [stamp EXCEPT ![r] = 0]
    /\ own' = [own EXCEPT ![r] = Blank]
    /\ DropDraft(r)
    /\ UNCHANGED <<shared, allocation, clock, txn, found, definer, slot, req, screen>>

\* A server dies.  Its requests and its slot die with it; the database and the
\* browsers keep what they have.  A transaction it had open rolls back
\* (RollBackEdit), a definition it was making is abandoned (AbandonDefine).
Restart(s) ==
    /\ slot' = [slot EXCEPT ![s] = Free]
    /\ req' = [a \in Admins |-> IF ServerOf[a] = s THEN IdleRequest ELSE req[a]]
    /\ UNCHANGED <<db, edits, screen>>

-----------------------------------------------------------------------------
Request(a) ==
    \/ StartRead(a) \/ StartSolve(a) \/ StartAllocate(a)
    \/ Acquire(a) \/ Abandon(a)
    \/ ReadRota(a) \/ ReadRow(a) \/ CheckDrafted(a) \/ ReadSeats(a)
    \/ PickRota(a) \/ ReadInput(a) \/ SolveFails(a)
    \/ StoreDraft(a) \/ RefuseAllocation(a) \/ InfeasibleAllocation(a)
    \/ CommitAllocation(a)

Edit(e) ==
    \/ BeginEdit(e) \/ CommitOwnEdit(e) \/ RollBackEdit(e)
    \/ FindRotas(e) \/ CommitSharedEdit(e)

Next ==
    \/ \E a \in Admins : Request(a)
    \/ \E e \in Editors : Edit(e)
    \/ MoveUnstamped
    \/ \E d \in Definers : CheckDefine(d) \/ InsertRota(d) \/ AbandonDefine(d)
    \/ \E r \in Rotas : DiscardRota(r)
    \/ \E s \in Servers : Restart(s)

Spec == Init /\ [][Next]_vars

\* What makes a request end: statements return, a solve is cut off by its
\* ceiling (solveCeiling) if nothing else ends it, and the channel hands the
\* slot to whoever has waited longest, so nobody waits while it keeps passing.
\* Nothing obliges a solver to answer, an edit to commit or a client to stay.
Fairness ==
    \A a \in Admins :
        /\ WF_vars(ReadRota(a) \/ ReadRow(a) \/ CheckDrafted(a) \/ ReadSeats(a))
        /\ WF_vars(SolveFails(a))
        /\ SF_vars(Acquire(a))

FairSpec == Spec /\ Fairness

-----------------------------------------------------------------------------
(* Properties. *)

\* What is shown of a rota is a draft of its own Shifts, or that there is none.
Statuses ==
    {NoDraft} \cup {s \in [rota : Rotas, seats : Seatings] :
                      s.seats \in SeatingsOf[s.rota]}

Requests ==
    [at    : {"idle", "queue", "rota", "row", "seats"} \cup Solving,
     job   : {"none", "read", "solve", "allocate"},
     rota  : Rotas \cup {None},
     stamp : Stamps,
     seen  : [Kinds -> Values \cup {Unread}],
     row   : Drafts \cup {None},
     status : Statuses,
     missed : SUBSET SharedKinds]

OnRota == {"row", "seats", "inputs", "search"}

WellFormed(q) ==
    /\ q.at \in OnRota => q.rota \in Rotas
    /\ q.at = "seats" => q.row \in Drafts
    /\ q.at = "search" => q.seen \in Inputs

\* Every variable has its type; a request that works on a rota names one, and a
\* solver that has finished reading has read every input.
TypeOK ==
    /\ rota \in [Rotas -> {"undefined", "unallocated", "allocated", "discarded"}]
    /\ stamp \in [Rotas -> Stamps]
    /\ own \in [Rotas -> [OwnKinds -> Values]]
    /\ shared \in [SharedKinds -> Values]
    /\ draft \in [Rotas -> Drafts \cup {None}]
    /\ allocation \in [Rotas -> Seatings \cup {None}]
    /\ clock \in Stamps
    /\ txn \in [Editors -> Stamps]
    /\ found \in [Editors -> (SUBSET Rotas) \cup {None}]
    /\ definer \in [Definers -> {"idle", "checked"}]
    /\ slot \in [Servers -> Admins \cup {Free}]
    /\ req \in [Admins -> Requests]
    /\ screen \in [Admins -> Statuses]
    /\ missed \in [Rotas -> SUBSET SharedKinds]
    /\ \A a \in Admins : WellFormed(req[a])

\* One solve runs at a time in a server, whoever queued, left or failed: the
\* slot of draftSolves is never two requests', and never nobody's mid-solve.
OneSolveAtATime ==
    \A a, b \in Admins :
        /\ req[a].at \in Solving /\ req[b].at \in Solving
        /\ ServerOf[a] = ServerOf[b]
        => a = b

\* A draft that reads as clean was solved from the stamped inputs exactly as
\* they stand, whatever committed, in whatever order, while it was being solved
\* (rotaSolve.draft, DraftRotaAllocationInFlight).  Outside the promise are the
\* roster and the history, which stamp nothing, and a setting an edit moved, since
\* the solve began, that had looked for the rotas to stamp before this one was
\* defined (db/rotation.go:182).
CleanDraftSpeaks ==
    \A r \in Rotas :
        draft[r] # None /\ Clean(draft[r], stamp[r]) =>
            \A k \in Stamped \ missed[r] : draft[r].from[k] = Current(r)[k]

\* A draft exists only for a rota in flight: allocating consumes it, discarding
\* destroys it, and a solve that outlived either cannot bring it back.
DraftOnlyInFlight ==
    \A r \in Rotas : draft[r] # None => rota[r] = "unallocated"

\* The rest of the inductive invariant.  A request past the queue holds its slot
\* until it returns.
SlotHeld ==
    \A a \in Admins :
        \/ req[a].at \in Solving
        \/ req[a].job = "allocate" /\ req[a].at \in {"rota", "row"}
        => Holds(a)

\* A request that is not reading inputs has read none, and one that names a rota
\* names one that was minted.
RequestsInOrder ==
    \A a \in Admins :
        /\ req[a].at \notin {"inputs", "search"} => req[a].seen = NothingRead
        /\ req[a].at \in OnRota =>
              rota[req[a].rota] # "undefined"

\* The start of an open transaction is a stamp nobody has seen, and its own.
\* This is what makes equality of stamps as good as equality of inputs.
StampsFresh ==
    \A e \in Editors : txn[e] # 0 =>
        /\ txn[e] <= clock
        /\ \A f \in Editors \ {e} : txn[f] # txn[e]
        /\ \A r \in Rotas : stamp[r] # txn[e]
        /\ \A r \in Rotas : draft[r] # None => draft[r].stamp # txn[e]
        /\ \A a \in Admins : req[a].stamp # txn[e]

\* No stamp is ahead of the clock; a rota not yet defined has none.
StampsPast ==
    /\ \A r \in Rotas :
          /\ stamp[r] <= clock
          /\ rota[r] = "undefined" => stamp[r] = 0
          /\ draft[r] # None => draft[r].stamp <= clock
    /\ \A a \in Admins : req[a].stamp <= clock

\* While the stamp a solve captured is still the rota's, what it has read of the
\* stamped inputs is what they are, but for edits that did not find the rota.
SolveSeesCurrent ==
    \A a \in Admins :
        LET r == req[a].rota
        IN  /\ req[a].at \in {"inputs", "search"}
            /\ rota[r] = "unallocated"
            /\ req[a].stamp = stamp[r]
            => \A k \in Stamped \ req[a].missed :
                  req[a].seen[k] \in {Unread, Current(r)[k]}

IndInv ==
    /\ TypeOK
    /\ SlotHeld
    /\ RequestsInOrder
    /\ StampsFresh
    /\ StampsPast
    /\ SolveSeesCurrent
    /\ DraftOnlyInFlight
    /\ CleanDraftSpeaks

\* A rota is only ever allocated as what an admin was shown for it, once, for good:
\* this module implements ConfirmedRota.
Confirmed == INSTANCE ConfirmedRota
ConfirmedSpec == Confirmed!Spec

\* Every request is answered, whatever the solver does and however many edits
\* land: the slot is given back on every path, so the queue drains.
EveryRequestAnswered ==
    \A a \in Admins : (req[a].at # "idle") ~> (req[a].at = "idle")

\* "There is at most one, and that is a rule rather than an observation"
\* (rotation.go:22).  The code refutes it: two definitions may both find no rota
\* in flight before either inserts, and only overlapping dates stop the second.
OneRotaInFlight ==
    \A q, r \in Unallocated : q = r
==============================================================================
