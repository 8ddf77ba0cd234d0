-------------------------- MODULE AvailabilityRound --------------------------
(***************************************************************************)
(* The availability round of one rota (pkg/core/services/availability.go,  *)
(* availabilityCoverage.go, pkg/db/availability_round.go): links are       *)
(* minted, volunteers answer behind them, and the answers are read by the  *)
(* admin's page and by the solver, while the roster changes, Shifts close, *)
(* and the rota is allocated or discarded.                                 *)
(*                                                                         *)
(* An answer looks its link up, validates, and only then begins the        *)
(* transaction that writes it.  That transaction holds the row of its link *)
(* and then wants the row of the rotation; a discard takes them in the     *)
(* opposite order.  submitted_at is the now() of the transaction.          *)
(***************************************************************************)
EXTENDS Naturals, FiniteSets

CONSTANTS
    Volunteers,
    Movers,     \* the volunteers whose place on the roster changes
    Group,      \* the group each volunteer is in on the sheet, or None
    Name,       \* the full name of each volunteer
    Shifts,
    Pinned,     \* the volunteers promised a Seat on each Shift
    Mints,      \* requests minting the round, each with a token per volunteer
    Submits,    \* requests answering
    None,       \* a field left empty
    MaxClock,   \* bound: the times ever handed out
    Second      \* the times in a second

ASSUME PeopleAssumption ==
    /\ Movers \subseteq Volunteers
    /\ Pinned \in [Shifts -> SUBSET Volunteers]
    /\ None \notin Mints \cup Volunteers

ASSUME BoundsAssumption == MaxClock \in Nat /\ Second \in Nat \ {0}

Times == 1 .. MaxClock

VARIABLES
    rota,      \* rotation: its life
    stamp,     \* rotation.inputs_changed_at
    allocated, \* rotation.allocated_datetime, 0 for NULL
    closed,    \* the Shifts that are closed
    active,    \* the volunteers the sheet has as active
    request,   \* availability_request: the mint whose token a volunteer holds
    response,  \* availability_response by submitted_at
    clock,     \* the last time handed out
    mint,      \* how far each request minting has got
    submit,    \* how far each request answering has got
    solve,     \* the solve that may become the allocation
    discarding \* a discard holds the row of the rotation

db   == <<rota, stamp, allocated, closed, request, response>>
vars == <<db, active, clock, mint, submit, solve, discarding>>

-----------------------------------------------------------------------------
(* What is on record, and how it is read. *)

NoResponse == [by |-> None, days |-> {}]

\* Mutant: the oldest generation is read.
EarliestAt(v, bound) ==
    LET said == {t \in Times : response[t].by = v /\ t <= bound}
    IN  IF said = {} THEN 0 ELSE CHOOSE t \in said : \A u \in said : t <= u

\* GetLatestAvailability: when the newest answer up to a bound was submitted, or
\* 0 when there is none.
LatestAt(v, bound) ==
    LET said == {t \in Times : response[t].by = v /\ t <= bound}
    IN  IF said = {} THEN 0 ELSE CHOOSE t \in said : \A u \in said : u <= t

\* Mutant: the answers are read without a cutoff.
NoCutoff == MaxClock

\* rotaCutoff: once allocated, up to the second of the allocation: the time goes
\* through RFC 3339, which has no fractions.
Cutoff == IF rota = "allocated" THEN allocated - (allocated % Second) ELSE MaxClock

ReadBackAt(v) == LatestAt(v, Cutoff)

ReadBack == [v \in Volunteers |-> ReadBackAt(v)]

Asked(v) == request[v] # None

\* The group rule: some member answered, and each who did said yes.
SaidYes(members, s, at) ==
    LET responders == {v \in members : at[v] # 0}
    IN  /\ responders # {}
        /\ \A v \in responders : s \in response[at[v]].days

\* Mutant: whoever was asked is on the page, also when they have stopped.
AllRequests == {v \in Volunteers : Asked(v)}

\* allocatableRequests: whose requests the page is about.
Allocatable == {v \in active : Asked(v)}

\* groupKey: somebody without a group is one of their own, by their id.
RoundKey(v) == IF Group[v] = None THEN v ELSE Group[v]

\* buildRound, buildAvailabilityGroups: the members of a volunteer's group.
RoundGroup(v) == {w \in Allocatable : RoundKey(w) = RoundKey(v)}

\* buildCoverage: whom the page counts as free for a Shift.
Counted(s) ==
    {v \in Allocatable \ Pinned[s] :
        s \notin closed /\ SaidYes(RoundGroup(v), s, ReadBack)}

\* GroupKeyFor: somebody without a group is one of their own, by their name.
SolverKey(v) == IF Group[v] = None THEN Name[v] ELSE Group[v]

SolverGroup(v) == {w \in active : SolverKey(w) = SolverKey(v)}

LastAt(v) == LatestAt(v, MaxClock)

Answers == [v \in Volunteers |-> LastAt(v)]

\* fetchGroupAvailability: what the solver's group of a volunteer said.
SaysYes(v, s) == SaidYes({w \in SolverGroup(v) : Asked(w)}, s, Answers)

\* withPreallocatedAvailability: a member promised a Seat speaks for the group.
Promised(v, s) == SolverGroup(v) \cap Pinned[s] # {}

\* InitShifts: whom the solver may seat on a Shift.
Seatable(s) == {v \in active : s \notin closed /\ (SaysYes(v, s) \/ Promised(v, s))}

\* buildForm: the ticks a volunteer's form opens with.
Form(v) ==
    IF ReadBackAt(v) = 0 THEN Shifts \ closed
                         ELSE response[ReadBackAt(v)].days \ closed

-----------------------------------------------------------------------------
(* Minting. *)

\* The rota is found unallocated.  (DefineRota mints without asking, right after
\* its insert.)
StartMint(m) ==
    /\ mint[m] = "idle" /\ rota = "unallocated"
    /\ mint' = [mint EXCEPT ![m] = "checked"]
    /\ UNCHANGED <<db, active, clock, submit, solve, discarding>>

\* Mutant: the newest token wins.
Retoken(v, m) == m

\* ON CONFLICT DO NOTHING: the token a volunteer has stays.
TokenOf(v, m) == IF Asked(v) THEN request[v] ELSE m

\* MintAvailabilityRequests, for the active roster, if it gets there.  The foreign
\* key waits for a discard, and fails once the rota is gone; an allocation is not
\* asked about again.
CommitMint(m) ==
    /\ mint[m] = "checked"
    /\ rota # "discarded" /\ ~discarding
    /\ request' = [v \in Volunteers |->
                      IF v \in active THEN TokenOf(v, m) ELSE request[v]]
    /\ mint' = [mint EXCEPT ![m] = "done"]
    /\ UNCHANGED <<rota, stamp, allocated, closed, response, active,
                   clock, submit, solve, discarding>>

-----------------------------------------------------------------------------
(* Answering. *)

IdleSubmit == [at |-> "idle", by |-> None, days |-> {}, seen |-> 0, time |-> 0]

\* resolveToken and validateAnswers: the link is one, its rota is not allocated,
\* and each tick is an open Shift.
Resolve(u) ==
    /\ submit[u].at = "idle" /\ rota = "unallocated"
    /\ \E v \in Volunteers, days \in SUBSET (Shifts \ closed) :
          /\ Asked(v)
          /\ submit' = [submit EXCEPT ![u] =
                [IdleSubmit EXCEPT !.at = "valid", !.by = v, !.days = days]]
    /\ UNCHANGED <<db, active, clock, mint, solve, discarding>>

\* Mutant: the link is not looked at again.
AnyRequest(u) == TRUE

\* The foreign key to the row of the link.
HasRequest(u) == Asked(submit[u].by)

\* InsertAvailabilityResponse begins, and holds the row of its link.
BeginAnswer(u) ==
    /\ submit[u].at = "valid" /\ clock < MaxClock
    /\ HasRequest(u)
    /\ clock' = clock + 1
    /\ submit' = [submit EXCEPT ![u].at = "begun", ![u].time = clock + 1,
                                ![u].seen = LastAt(submit[u].by)]
    /\ UNCHANGED <<db, active, mint, solve, discarding>>

\* Mutant: an answer leaves the stamp alone.
Unstamped(u) == stamp

\* Mutant: the stamp is the time the answer lands.
LateStamp(u) == clock + 1

\* Only an unallocated rota is stamped.
StampAfter(u) == IF rota = "unallocated" THEN submit[u].time ELSE stamp

\* The generation, its rows and the stamp land together.  The row of an
\* unallocated rotation is waited for; an allocated one is not touched.
LandAnswer(u) ==
    /\ submit[u].at = "begun"
    /\ ~discarding
    /\ response' = [response EXCEPT ![submit[u].time] =
                        [by |-> submit[u].by, days |-> submit[u].days]]
    /\ stamp' = StampAfter(u)
    /\ submit' = [submit EXCEPT ![u] = IdleSubmit]
    /\ UNCHANGED <<rota, allocated, closed, request, active, clock, mint,
                   solve, discarding>>

\* A failed statement, a client that leaves, a restart: the transaction, if there is
\* one, is rolled back.
FailAnswer(u) ==
    /\ submit[u].at \in {"valid", "begun"}
    /\ submit' = [submit EXCEPT ![u] = IdleSubmit]
    /\ UNCHANGED <<db, active, clock, mint, solve, discarding>>

-----------------------------------------------------------------------------
(* The solve that becomes the allocation (AllocateRotaInFlight). *)

IdleSolve == [at |-> "idle", stamp |-> 0, time |-> 0,
              answers |-> [v \in Volunteers |-> 0]]

\* A solve that fails leaves nothing behind, and another may begin.
PickRota ==
    /\ solve.at # "done" /\ rota = "unallocated"
    /\ solve' = [IdleSolve EXCEPT !.at = "picked", !.stamp = stamp]
    /\ UNCHANGED <<db, active, clock, mint, submit, discarding>>

\* fetchGroupAvailability reads the newest answer of everybody asked, and
\* refuses a rota nobody was asked about.
ReadAnswers ==
    /\ solve.at = "picked" /\ \E v \in Volunteers : Asked(v)
    /\ solve' = [solve EXCEPT !.at = "solved",
                              !.answers = Answers]
    /\ UNCHANGED <<db, active, clock, mint, submit, discarding>>

\* allocatedAt, read off the clock of the server before the transaction.
TimeAllocation ==
    /\ solve.at = "solved" /\ clock < MaxClock
    /\ clock' = clock + 1
    /\ solve' = [solve EXCEPT !.at = "timed", !.time = clock + 1]
    /\ UNCHANGED <<db, active, mint, submit, discarding>>

\* InsertAllocationsAndSetAllocated.
CommitAllocation ==
    /\ solve.at = "timed" /\ rota = "unallocated" /\ ~discarding
    /\ rota' = "allocated"
    /\ allocated' = solve.time
    /\ solve' = [IdleSolve EXCEPT !.at = "done", !.answers = solve.answers]
    /\ UNCHANGED <<stamp, closed, request, response, active, clock, mint,
                   submit, discarding>>

-----------------------------------------------------------------------------
(* What else happens to the rota. *)

\* UpdateShift, in short (ShiftEdits has it in full).
CloseOrReopen(s) ==
    /\ rota = "unallocated" /\ ~discarding /\ clock < MaxClock
    /\ closed' = IF s \in closed THEN closed \ {s} ELSE closed \cup {s}
    /\ clock' = clock + 1
    /\ stamp' = clock + 1
    /\ UNCHANGED <<rota, allocated, request, response, active, mint,
                   submit, solve, discarding>>

\* The sheet: somebody comes, stops, comes back, or is taken off it.
MoveOnRoster(v) ==
    /\ active' = IF v \in active THEN active \ {v} ELSE active \cup {v}
    /\ UNCHANGED <<db, clock, mint, submit, solve, discarding>>

\* DiscardRota takes the row of the rotation...
LockDiscard ==
    /\ rota = "unallocated" /\ ~discarding
    /\ discarding' = TRUE
    /\ UNCHANGED <<db, active, clock, mint, submit, solve>>

\* ...and can delete a link when nobody is writing an answer behind it.
LinksFree == \A u \in Submits : submit[u].at # "begun"

\* The answers, the links and the rota go, in one transaction.
CommitDiscard ==
    /\ discarding /\ LinksFree
    /\ rota' = "discarded"
    /\ request' = [v \in Volunteers |-> None]
    /\ response' = [t \in Times |-> NoResponse]
    /\ closed' = {}
    /\ discarding' = FALSE
    /\ UNCHANGED <<stamp, allocated, active, clock, mint, submit, solve>>

\* A failed statement, a client that leaves, a restart; and so may Postgres, when a
\* discard and an answer wait for each other: the answer's way out is FailAnswer.
RollBackDiscard ==
    /\ discarding /\ discarding' = FALSE
    /\ UNCHANGED <<db, active, clock, mint, submit, solve>>

-----------------------------------------------------------------------------
Init ==
    /\ rota = "unallocated" /\ stamp = 0 /\ allocated = 0 /\ clock = 0
    /\ closed = {} /\ discarding = FALSE
    /\ active \in {Volunteers, Volunteers \ Movers}
    /\ request = [v \in Volunteers |-> None]
    /\ response = [t \in Times |-> NoResponse]
    /\ mint = [m \in Mints |-> "idle"]
    /\ submit = [u \in Submits |-> IdleSubmit]
    /\ solve = IdleSolve

Next ==
    \/ \E m \in Mints : StartMint(m) \/ CommitMint(m)
    \/ \E u \in Submits :
          Resolve(u) \/ BeginAnswer(u) \/ LandAnswer(u) \/ FailAnswer(u)
    \/ PickRota \/ ReadAnswers \/ TimeAllocation \/ CommitAllocation
    \/ \E s \in Shifts : CloseOrReopen(s)
    \/ \E v \in Movers : MoveOnRoster(v)
    \/ LockDiscard \/ CommitDiscard \/ RollBackDiscard

Spec == Init /\ [][Next]_vars

-----------------------------------------------------------------------------
(* Properties. *)

\* Every variable has its type.
TypeOK ==
    /\ rota \in {"unallocated", "allocated", "discarded"}
    /\ stamp \in 0 .. MaxClock /\ allocated \in 0 .. MaxClock
    /\ clock \in 0 .. MaxClock
    /\ closed \subseteq Shifts
    /\ active \subseteq Volunteers
    /\ request \in [Volunteers -> Mints \cup {None}]
    /\ response \in [Times -> [by : Volunteers \cup {None}, days : SUBSET Shifts]]
    /\ mint \in [Mints -> {"idle", "checked", "done"}]
    /\ submit \in [Submits ->
          [at : {"idle", "valid", "begun"},
           by : Volunteers \cup {None}, days : SUBSET Shifts,
           seen : 0 .. MaxClock, time : 0 .. MaxClock]]
    /\ solve \in [at : {"idle", "picked", "solved", "timed", "done"},
                  stamp : 0 .. MaxClock, time : 0 .. MaxClock,
                  answers : [Volunteers -> 0 .. MaxClock]]
    /\ discarding \in BOOLEAN

\* "Re-tokening would silently break links already distributed"
\* (db/availability_round.go:21): the link a volunteer was given is theirs until
\* the rota is discarded, however often and concurrently the round is minted.
LinksKeepWorking ==
    [][rota' # "discarded" =>
          \A v \in Volunteers : Asked(v) => request'[v] = request[v]]_vars

\* No answer is on record behind a link that is gone, and none is being written:
\* a discard leaves nothing, also when an answer or a mint overtakes it.
AnswersHaveLinks ==
    /\ \A t \in Times : response[t].by # None => Asked(response[t].by)
    /\ \A u \in Submits : submit[u].at = "begun" => Asked(submit[u].by)
    /\ rota = "discarded" => \A v \in Volunteers : ~Asked(v)

\* "an answer landing makes the rota's draft stale"
\* (db/availability_round.go:301): while the stamp a solve picked the rota with
\* still stands, the answers it read are those on record.
StampTellsAnswers ==
    solve.at \in {"solved", "timed"} /\ solve.stamp = stamp /\ rota = "unallocated" =>
        solve.answers = Answers

\* "The numbers are only worth anything if they are the numbers the allocator
\* will work to" (availabilityCoverage.go:18): whoever the page counts as free
\* for a Shift, the solver may seat there, although the two bring the answers of
\* a group together each in its own way, and the form of no member who answered
\* says otherwise.
CountedCanBeSeated ==
    rota = "unallocated" => \A s \in Shifts :
        /\ Counted(s) \subseteq Seatable(s)
        /\ \A v \in Counted(s), w \in Allocatable :
              RoundKey(w) = RoundKey(v) /\ ReadBackAt(w) # 0 => s \in Form(w)

\* "latest-wins" (availability.go:282): an answer that lands beats every answer
\* that was on record when it began, so every one its sender had seen accepted.
NewAnswerSupersedes ==
    [][\A u \in Submits, v \in Volunteers :
          submit[u].by = v /\ response' # response /\ submit'[u] # submit[u]
          /\ rota' # "discarded" => LastAt(v)' > submit[u].seen]_vars

\* "once the rota is out, a changed answer cannot affect it"
\* (availability.go:372): what is read back of an allocated rota no longer
\* changes, when no transaction from before the allocation is left to land.
AllocatedRoundSettles ==
    [][rota = "allocated" /\ (\A u \in Submits :
            submit[u].at = "begun" => submit[u].time > allocated)
       => \A v \in Volunteers : ReadBackAt(v)' = ReadBackAt(v)]_vars
=============================================================================
