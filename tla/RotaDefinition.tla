--------------------------- MODULE RotaDefinition ---------------------------
(***************************************************************************)
(* Defining a rota (pkg/core/services/defineRota.go) and the settings it   *)
(* is defined from: the shift times, the default Shape (defaultShape.go)   *)
(* and the Standing Preallocations (standingPreallocations.go).            *)
(*                                                                         *)
(* A definition takes no lock: it reads one table after the other and      *)
(* inserts the rota, with its Shifts, their Shapes and their pins, in one  *)
(* transaction.  Saves of the default Shape run beside it and beside each  *)
(* other, at READ COMMITTED: a row is gone, or there, once the transaction *)
(* that deletes or inserts it commits.                                     *)
(***************************************************************************)
EXTENDS Naturals, FiniteSets

CONSTANTS
    Roles,
    Ranks,      \* the order their Seats are filled in
    People,     \* volunteers a Standing Preallocation may promise
    Customs,    \* and other text it may pin
    Promises,   \* ids of Standing Preallocations
    Rules,      \* the recurrence rules, each the set of dates it lands on
    Asks,       \* the promises an admin may ask for
    Definers,   \* requests to define a rota, and the rota of each
    Savers,     \* requests to save the default Shape
    Dates,      \* the days there are
    Week,       \* how many of them pass from a Shift to the next
    None,
    MaxEdits    \* bound: edits of the Roles, the promises and the default Shape

ASSUME PromisesAssumption == Promises \subseteq Nat /\ Ranks \subseteq Nat

ASSUME DatesAssumption == Dates \subseteq Nat /\ Week \in Nat \ {0}

ASSUME RulesAssumption == Rules \subseteq SUBSET Dates

Promised == [who : People \cup Customs, role : Roles, rule : Rules]

ASSUME AsksAssumption == Asks \subseteq Promised

ASSUME EditsAssumption == MaxEdits \in Nat

ASSUME NoneAssumption ==
    /\ None \notin Ranks
    /\ None \notin Promised

VARIABLES
    roles,     \* role: the priority of each there is
    hours,     \* rota_defaults: are the shift times set?
    shape,     \* default_shape: its rows, and the save that wrote each
    standing,  \* standing_preallocation
    edits,     \* how many edits of the three before there were, with those under way
    save,      \* how far each save of the default Shape has got
    rota       \* each rota: its definition, and what became of it

vars == <<roles, hours, shape, standing, edits, save, rota>>

-----------------------------------------------------------------------------
(* Roles, shift times and Standing Preallocations: one statement each. *)

Known == {x \in Roles : roles[x] # None}

\* The bound, also of the saves that begin.
CountEdit == edits < MaxEdits /\ edits' = edits + 1

\* InsertRole and UpdateRole; a Role is never deleted.
SetRole ==
    /\ CountEdit
    /\ \E x \in Roles, rank \in Ranks : roles' = [roles EXCEPT ![x] = rank]
    /\ UNCHANGED <<hours, shape, standing, save, rota>>

\* SaveShiftTimeDefaults; nothing unsets them.
SaveTimes == hours' = TRUE /\ UNCHANGED <<roles, shape, standing, edits, save, rota>>

\* One rule twice for one volunteer is refused.
Duplicate(promise) ==
    /\ promise.who \in People
    /\ \E q \in Promises : standing[q] # None /\ standing[q].who = promise.who
                           /\ standing[q].rule = promise.rule

\* AddStandingPreallocation, of a Role that is known; an id is taken at random.
AddStanding(p) ==
    /\ CountEdit /\ standing[p] = None
    /\ \E promise \in Asks :
          /\ promise.role \in Known /\ ~Duplicate(promise)
          /\ standing' = [standing EXCEPT ![p] = promise]
    /\ UNCHANGED <<roles, hours, shape, save, rota>>

DeleteStanding(p) ==
    /\ CountEdit /\ standing[p] # None
    /\ standing' = [standing EXCEPT ![p] = None]
    /\ UNCHANGED <<roles, hours, shape, save, rota>>

-----------------------------------------------------------------------------
(* SaveDefaultShape: the rows that are there are deleted, then those stated are
   inserted, in one transaction. *)

IdleSave == [at |-> "idle", stated |-> {}, doomed |-> {}, left |-> {}, after |-> {}]

\* The saves that have committed.
Saved == {s \in Savers : save[s].at = "saved"}

Row(s, x) == [role |-> x, by |-> s]

\* What a save inserted so far.
Put(s) == {Row(s, x) : x \in save[s].stated \ save[s].left}

\* statedSeats: Roles that are known, each once.
Stated == SUBSET Known

\* The DELETE begins: the rows it sees.  (after, for the properties: the saves that
\* had committed.)
StartSave(s) ==
    /\ CountEdit /\ save[s].at = "idle"
    /\ \E stated \in Stated :
          save' = [save EXCEPT ![s] =
             [at |-> "clearing", stated |-> stated, doomed |-> shape, left |-> stated,
              after |-> Saved]]
    /\ UNCHANGED <<roles, hours, shape, standing, rota>>

\* It waits for rows another save has deleted, which may be gone then.
ClearShape(s) ==
    /\ save[s].at = "clearing"
    /\ \A t \in Savers \ {s} :
          save[t].at = "filling" => save[t].doomed \cap save[s].doomed \cap shape = {}
    /\ save' = [save EXCEPT ![s].at = "filling"]
    /\ UNCHANGED <<roles, hours, shape, standing, edits, rota>>

\* A save of which it is not certain yet whether there is a row of the Role.
Pending(t, x) ==
    /\ save[t].at = "filling"
    /\ \E row \in Put(t) \cup (save[t].doomed \cap shape) : row.role = x

\* Mutant: a Role may have two rows.
NoKey(s, x) == FALSE

\* A row of the Role that this save did not delete.
Taken(s, x) == \E row \in shape \ save[s].doomed : row.role = x

FillRow(s) ==
    /\ save[s].at = "filling"
    /\ \E x \in save[s].left :
          /\ \A t \in Savers \ {s} : ~Pending(t, x)
          /\ save' = IF Taken(s, x) THEN [save EXCEPT ![s] = IdleSave]
                     ELSE [save EXCEPT ![s].left = @ \ {x}]
    /\ UNCHANGED <<roles, hours, shape, standing, edits, rota>>

\* Mutant: what was there stays.
Added(s) == shape \cup Put(s)

Replaced(s) == (shape \ save[s].doomed) \cup Put(s)

CommitSave(s) ==
    /\ save[s].at = "filling" /\ save[s].left = {}
    /\ shape' = Replaced(s)
    /\ save' = [save EXCEPT ![s].at = "saved", ![s].doomed = {}]
    /\ UNCHANGED <<roles, hours, standing, edits, rota>>

\* A failed statement, a client that leaves, a restart.
RollBackSave(s) ==
    /\ save[s].at \in {"clearing", "filling"}
    /\ save' = [save EXCEPT ![s] = IdleSave]
    /\ UNCHANGED <<roles, hours, shape, standing, edits, rota>>

-----------------------------------------------------------------------------
(* DefineRota. *)

NoRota == [life |-> "idle", known |-> {}, asks |-> {}, dates |-> {},
           promised |-> [p \in Promises |-> None], ranks |-> [x \in Roles |-> None],
           pins |-> {}]

Living == {d \in Definers : rota[d].life \in {"unallocated", "allocated"}}

InFlight == {d \in Definers : rota[d].life = "unallocated"}

\* RotaDefaults with the shift times set, and DefaultShape's RoleTable.
BeginDefine(d) ==
    /\ rota[d].life = "idle" /\ hours
    /\ rota' = [rota EXCEPT ![d].life = "shape", ![d].known = Known]
    /\ UNCHANGED <<roles, hours, shape, standing, edits, save>>

\* Mutant: a row is there as soon as it is inserted.
Dirty == shape \cup UNION {Put(s) : s \in {t \in Savers : save[t].at = "filling"}}

Committed == shape

\* The rows of the default Shape: none, or one of a Role not read, is refused.
ReadShape(d) ==
    /\ rota[d].life = "shape" /\ Committed # {}
    /\ {row.role : row \in Committed} \subseteq rota[d].known
    /\ rota' = [rota EXCEPT ![d].life = "rotas", ![d].asks = Committed, ![d].known = {}]
    /\ UNCHANGED <<roles, hours, shape, standing, edits, save>>

\* GetRotations: no rota is in flight.
CheckRotas(d) ==
    /\ rota[d].life = "rotas" /\ InFlight = {}
    /\ rota' = [rota EXCEPT ![d].life = "standing"]
    /\ UNCHANGED <<roles, hours, shape, standing, edits, save>>

ReadStanding(d) ==
    /\ rota[d].life = "standing"
    /\ rota' = [rota EXCEPT ![d].life = "roles", ![d].promised = standing]
    /\ UNCHANGED <<roles, hours, shape, standing, edits, save>>

\* The Roles again, for the order of the promises: they may be others by now.
ReadRoles(d) ==
    /\ rota[d].life = "roles"
    /\ rota' = [rota EXCEPT ![d].life = "seeding", ![d].ranks = roles]
    /\ UNCHANGED <<roles, hours, shape, standing, edits, save>>

\* The dates of n Shifts, weekly.
Weekly(start, n) == {start + Week * i : i \in 0 .. n - 1}

\* The promises, of those read, of a subject on a date.
Landing(promised, who, date) ==
    {p \in Promises : promised[p] # None /\ promised[p].who = who
                      /\ date \in promised[p].rule}

\* Mutant: the Roles are not looked at.
ById(promised, ranks, p, q) == p <= q

\* Whether p comes no later than q: by rolePriority, then by id.
Before(promised, ranks, p, q) ==
    LET rank(i) == ranks[promised[i].role]
    IN  rank(p) < rank(q) \/ (rank(p) = rank(q) /\ p <= q)

\* A promise in a Role the table does not have fails the definition.
RolesThere(d) ==
    \A p \in Promises :
        rota[d].promised[p] # None => rota[d].ranks[rota[d].promised[p].role] # None

\* seedPreallocations: a pin for each date and subject some promise lands on, in the
\* Role of the first of them.
Seeds(promised, ranks, dates) ==
    {pin \in [date : dates, who : People \cup Customs, role : Roles] :
        LET on == Landing(promised, pin.who, pin.date)
        IN  \E p \in on : /\ pin.role = promised[p].role
                          /\ \A q \in on : Before(promised, ranks, p, q)}

\* Mutant: an index that does not know of transactions that are not at their end.
FreeOfCommitted(d, dates) == \A e \in Living \ {d} : rota[e].dates \cap dates = {}

\* The one-Shift-per-date index: dates of another rota, its definition at its end or
\* not.
Free(d, dates) == \A e \in Definers \ {d} : rota[e].dates \cap dates = {}

\* InsertDefinedRota, of the Shifts, their Shapes and the pins.  It waits for another
\* that has one of the dates, and is refused if that commits.
InsertRota(d) ==
    /\ rota[d].life = "seeding" /\ RolesThere(d)
    /\ \E start \in Dates, n \in Dates :
          LET dates == Weekly(start, n)
          IN  /\ dates \subseteq Dates /\ Free(d, dates)
              /\ rota' = [rota EXCEPT ![d] = [NoRota EXCEPT
                    !.life = "inserted", !.dates = dates,
                    !.pins = Seeds(rota[d].promised, rota[d].ranks, dates)]]
    /\ UNCHANGED <<roles, hours, shape, standing, edits, save>>

\* From here on its Shapes and pins are edited (ShiftEdits).
CommitRota(d) ==
    /\ rota[d].life = "inserted"
    /\ rota' = [rota EXCEPT ![d].life = "unallocated", ![d].pins = {}]
    /\ UNCHANGED <<roles, hours, shape, standing, edits, save>>

\* A refusal, a failed statement, a client that leaves, a restart: nothing is left.
EndDefine(d) ==
    /\ rota[d].life \in {"shape", "rotas", "standing", "roles", "seeding", "inserted"}
    /\ rota' = [rota EXCEPT ![d] = NoRota]
    /\ UNCHANGED <<roles, hours, shape, standing, edits, save>>

\* The rota is allocated, or discarded and its Shifts deleted.
EndRota(d) ==
    /\ rota[d].life = "unallocated"
    /\ rota' \in {[rota EXCEPT ![d].life = "allocated"],
                  [rota EXCEPT ![d] = [NoRota EXCEPT !.life = "discarded"]]}
    /\ UNCHANGED <<roles, hours, shape, standing, edits, save>>

-----------------------------------------------------------------------------
Init ==
    /\ roles \in [Roles -> Ranks \cup {None}]
    /\ hours = FALSE
    /\ shape = {}
    /\ standing = [p \in Promises |-> None]
    /\ edits = 0
    /\ save = [s \in Savers |-> IdleSave]
    /\ rota = [d \in Definers |-> NoRota]

Next ==
    \/ SetRole \/ SaveTimes
    \/ \E p \in Promises : AddStanding(p) \/ DeleteStanding(p)
    \/ \E s \in Savers : StartSave(s) \/ ClearShape(s) \/ FillRow(s) \/ CommitSave(s)
                         \/ RollBackSave(s)
    \/ \E d \in Definers : BeginDefine(d) \/ ReadShape(d) \/ CheckRotas(d)
                           \/ ReadStanding(d) \/ ReadRoles(d) \/ InsertRota(d)
                           \/ CommitRota(d) \/ EndDefine(d) \/ EndRota(d)

Spec == Init /\ [][Next]_vars

-----------------------------------------------------------------------------
(* Properties. *)

Rows == [role : Roles, by : Savers]

Saves ==
    [at : {"idle", "clearing", "filling", "saved"}, stated : SUBSET Roles,
     doomed : SUBSET Rows, left : SUBSET Roles, after : SUBSET Savers]

Pins == [date : Dates, who : People \cup Customs, role : Roles]

Rotas ==
    [life : {"idle", "shape", "rotas", "standing", "roles", "seeding", "inserted",
             "unallocated", "allocated", "discarded"},
     known : SUBSET Roles, asks : SUBSET Rows, dates : SUBSET Dates,
     promised : [Promises -> Promised \cup {None}],
     ranks : [Roles -> Ranks \cup {None}],
     pins : SUBSET Pins]

\* Every variable has its type, and the default Shape names a Role once.
TypeOK ==
    /\ roles \in [Roles -> Ranks \cup {None}] /\ hours \in BOOLEAN
    /\ shape \in SUBSET Rows
    /\ \A row1, row2 \in shape : row1.role = row2.role => row1 = row2
    /\ standing \in [Promises -> Promised \cup {None}] /\ edits \in 0 .. MaxEdits
    /\ save \in [Savers -> Saves]
    /\ rota \in [Definers -> Rotas]

\* "the one-Shift-per-date unique index refuses whichever of the two commits second
\* wherever their dates overlap" (defineRota.go:171): no two rotas run on one day,
\* whichever definitions, allocations and discards run beside each other.
OneShiftPerDate ==
    \A d, e \in Living : d # e => rota[d].dates \cap rota[e].dates = {}

\* What a definition copies onto its Shifts are the Seats of whole saves of the default
\* Shape, and never a part of one, whatever saves run beside it and fail half-way.
AsksWholeSaves ==
    \A d \in Definers : \A row \in rota[d].asks :
        \A x \in save[row.by].stated : Row(row.by, x) \in rota[d].asks

\* A save that no save replaced: none that committed began after it had.
Latest(s) == s \in Saved /\ \A t \in Saved : s \notin save[t].after

\* "replacing whatever was there" (db/defaultShape.go:54), as far as it goes at READ
\* COMMITTED: the default Shape is what was stated by the latest saves and nothing
\* else.  One save that ran after the others is the whole of it; two that overlapped,
\* neither of which saw the other's rows, are both in it.
ShapeOfLatestSaves ==
    shape = {row \in Rows : Latest(row.by) /\ row.role \in save[row.by].stated}

\* What a subject is pinned as on a date, and what they were promised.
Pinned(pins, date, who) ==
    {pin.role : pin \in {p \in pins : p.date = date /\ p.who = who}}

PromisedRoles(promised, date, who) ==
    {promised[p].role : p \in Landing(promised, who, date)}

KeepsPromises(pins, promised, ranks, date, who) ==
    LET pinned == Pinned(pins, date, who)
        on     == PromisedRoles(promised, date, who)
    IN  /\ pinned \subseteq on
        /\ on # {} => pinned # {}
        /\ who \in People =>
              \A x \in pinned, y \in pinned \cup on :
                 ranks[x] <= ranks[y] /\ (y \in pinned => x = y)

\* "one row per subject per Shift their rule lands on" (standingPreallocations.go:229),
\* of the promises and the Roles a definition read, each at a moment of its own: a
\* volunteer gets one pin on each date some promise to them lands on, in a Role
\* promised none of whose promises that day comes sooner; a custom entry is pinned on
\* those dates, in Roles promised; and there is no other pin.
SeedsKeepPromises ==
    [][\A d \in Definers :
          rota[d].life = "seeding" /\ rota'[d].life = "inserted" =>
             \A date \in rota'[d].dates, who \in People \cup Customs :
                KeepsPromises(rota'[d].pins, rota[d].promised, rota[d].ranks, date, who)]_vars
=============================================================================
