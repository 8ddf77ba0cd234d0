# ilford-drop-in in TLA+

ilford-drop-in plans the volunteers of a weekly drop-in.  An admin *defines* a
rota (a run of dated Shifts), volunteers *answer* which Shifts they can do, a
constraint solver *drafts* who works which, an admin *allocates* the draft they
are looking at, and afterwards admins record *changes* (swaps and covers).  The
server is one Go process (`pkg/api` over `pkg/core/services`) in front of
Postgres (`pkg/db`), with the solver as a Python subprocess (`pyallocator`).

This directory holds TLA+ models of that program, the TLC configurations that
check them, and TLAPS proofs about them.  Definitions carry the names of the
code they stand for; `PROJECT.json` lists the lines behind each.

## Inventory

| Part | State it keeps | Operations | What is hard | What makes it correct |
|---|---|---|---|---|
| Draft of the rota in flight (`draftRotaAllocation.go`, `draftsolves.go`, `allocateRota.go`, `solveRota.go`) | `draft_rota_allocation`, `draft_allocation`, `allocation`; the solve slot (memory); the hash a browser holds | GET the draft, POST a solve, POST an allocation | a solve takes 30 s outside any transaction while edits, other readers, discards and other allocations run; queueing, clients leaving, restarts | a clean draft speaks for the inputs; only what an admin saw is allocated, once; drafts die with their rota; every request ends |
| Rota lifecycle (`defineRota.go`, `rotaLifecycle.go`, `db/rotation.go`, `db/shift.go`) | `rotation`, `shift` | define, discard | the check and the insert of a definition are two transactions | one rota in flight, and it is the latest |
| Row lock and inputs stamp (`db/tx.go`, `db/rotation.go`) | `rotation.inputs_changed_at` | every edit of an allocator input | `now()` is the transaction's start, the lock is taken later | a moved input moves the stamp to a value nobody has captured |
| Rota changes (`changeRota.go`, `alterations.go`, `db/cover.go`) | `cover`, `alteration` | record a change or swap; read the effective rota | a ledger replayed by `set_time`, which is the start of the transaction and not the order of commits; swaps over two rotas | nobody is on a Shift twice; what was recorded takes effect; a swap keeps its Seats |
| Shift edits, Shapes, pins (`updateShift.go`, `shiftShape.go`, `preallocations.go`) | `shift`, `shift_requirement`, `preallocation` | close, move, reshape a Shift; pin and unpin | checks before and under the lock; what freezes when a rota is allocated | pins fit the Shape; nothing frozen moves |
| Roles and settings (`editRoles.go`, `rotaDefaults.go`, `defaultShape.go`, `standingPreallocations.go`) | `role`, `rota_defaults`, `standing_preallocation` | add, rename, reorder, save | edits of what every rota shares | names and priorities stay unique; stamps move |
| Availability round (`availability.go`, `db/availability_round.go`) | `availability_request`, `availability_response`, `shift_availability` | mint links, answer, read the latest answers | generations of answers, a cutoff, answers racing an allocation or a discard | the latest answer counts; nothing is lost |
| Availability send (`availabilitySend.go`, `sendjobs.go`, `gmailsend.go`) | `sent_at`; send jobs (memory) | start a send, poll it | crash between an email and its stamp, two sends at once, jobs swept | everyone asked is emailed, and seldom twice |
| Session (`auth.go`, `session.go`) | a signed cookie | sign in, sign out, each admin request | expiry | only an admin acts |
| Roster (`volunteercache.go`, `sync.go`, `sheetsclient`) | the volunteers, in memory | replace by a sync | no stamp moves | a solve uses one roster |
| Views (`publishRota.go`, `listShifts.go`, `volunteerCalendar.go`) | none | read | torn reads | they show the effective rota |
| Solver input and solver (`allocator/`, `pyallocator/`) | none | solve | pure | the constraints hold of the answer |
| Web frontend, CLI, configuration, migrations | browser state | - | - | - |

The parts meet in the database.  Everything that edits what a solve reads does
so in a transaction that locks the `rotation` row and moves its stamp in the
same transaction; an allocation, a discard, a stored draft and a rota change
take the same lock.  The solve itself, the status reads and the check of a
definition take none.

## Modules

| Module | What it is |
|---|---|
| `ConfirmedRota` | the abstract promise: a rota is defined, and either discarded or allocated, once, as a seating of its own Shifts that an admin was shown as its draft |
| `DraftRotaAllocation` | the draft protocol: requests, the solve slot, edits, definitions, discards, restarts; its properties; its refinement of `ConfirmedRota` |
| `DraftReads` | `DraftRotaAllocation` with a history of the inputs that stood during each request, for what a reader may be told |
| `StampedInputs` | the abstract promise every edit of an input makes to the draft: nothing the solver is asked about moves without the stamp, and nothing of it moves once the rota is allocated |
| `ShiftEdits` | closing, reopening, moving and reshaping Shifts, pinning and unpinning; its refinement of `StampedInputs` |
| `RotaChanges` | changes and swaps recorded on a rota, and the effective rota they are replayed into |
| `AvailabilityRound` | links, answers and their generations; the page's and the solver's reading of them; allocation, discard and the row locks they share |
| `AvailabilitySend` | emailing the links: the three modes, stamps, the send jobs and their register, timeouts, restarts |
| `Settings` | Roles and allocation rules, which every unallocated rota is stamped for, and the locks of a rename |
| `RotaLocks` | the rows of the rotations, taken one by one: who waits for whom |
| `RotaDefinition` | defining a rota from the shift times, the default Shape, the standing preallocations and the Roles, with its Shifts' dates |
| `MC...` | one module of constants for TLC beside each of these (`MCDraftRotaAllocation`, `MCDraftReads`, `MCShiftEdits`, `MCRotaChanges`, `MCAvailabilityRound`, `MCAvailabilitySend`, `MCSettings`, `MCRotaLocks`, `MCRotaDefinition`) |
| `...Proofs` | the theorems, one module beside each but `ConfirmedRota`, `StampedInputs` and `RotaLocks` (`DraftRotaAllocationProofs`, `DraftReadsProofs`, `ShiftEditsProofs`, `RotaChangesProofs`, `AvailabilityRoundProofs`, `AvailabilitySendProofs`, `SettingsProofs`, `RotaDefinitionProofs`) |

The modules are chained by what one promises another.  `DraftRotaAllocation`
takes its editors' word that an input moves with the stamp of its rota, in a
transaction whose time nobody else has; `ShiftEdits` is such an editor in full,
and that it keeps the word is its refinement of `StampedInputs`.  Two more kinds of
editor do not go through the lock of one rota, and each has a property of its
own that says what the stamp still tells: an answer (`StampTellsAnswers` of
`AvailabilityRound`) and a setting (`DraftTellsSettings` of `Settings`).
`RotaDefinition` hands what it inserts, Shapes and pins, to `ShiftEdits`;
`AvailabilityRound` hands links and answers to `AvailabilitySend`, which has the
round in short (`Mint`, `AnswerRequest`), as `AvailabilityRound` has closing a
Shift in short.

### DraftRotaAllocation

State.  `rota`, `stamp`, `own`, `shared`, `draft` and `allocation` are the
database; `slot` is `draftSolves.slot` of each server; `req[a]` is the handler
serving admin `a`, with its program counter and its locals; `screen[a]` is the
draft the browser of `a` was last shown: of which rota, and the seating (in the
code, its hash); `txn[e]` is the `now()` of an edit's open transaction, `found[e]`
the rotas its UPDATE saw if it is one of the settings, and `clock` the last
`now()` handed out; `definer[d]` is a `DefineRota` between its check and its
insert.  `missed[r]`, and `missed` of a request, are history: the settings that
moved since the draft's solve, or the request's, began, in edits that did not find
the rota.

Steps.  Each database statement of a handler is a step of its own, because the
code runs them outside a transaction.  A transaction that locks the rotation
row is one step.  An edit is two: its `BEGIN`, which fixes `now()`, and its
commit, since it may wait for the lock in between.  An edit of the settings is
three, for it takes no lock: its one UPDATE stamps the rotas it sees as it begins
(`FindRotas`), less those allocated or gone by the time it has their rows
(`StampedBy`), and setting and stamps show at the commit.  A rota defined in
between is `Overlooked`.

| Action | Code |
|---|---|
| `StartRead`, `ReadRota`, `ReadRow`, `ReadSeats` | `handleGetDraftRotaAllocation`, `DraftRotaAllocationInFlight`, before and after the queue |
| `StartSolve`, `StartAllocate`, `CheckDrafted` | the two POST handlers and the gates of `AllocateRotaInFlight` |
| `Acquire`, `Release`, `Abandon` | `draftsolves.go`; a client that leaves, in the queue or later |
| `PickRota`, `ReadInput`, `Answer`, `SolveFails` | `solveRotaInFlight` and the ceiling over it |
| `StoreDraft`, `RefuseAllocation`, `InfeasibleAllocation`, `CommitAllocation` | `storeSolveAsDraft`, `ReplaceDraftRotaAllocation`, `AllocateRotaInFlight`, `InsertAllocationsAndSetAllocated` |
| `BeginEdit`, `CommitOwnEdit`, `FindRotas`, `CommitSharedEdit`, `RollBackEdit` | every writer of an input, through the three functions that stamp a rotation |
| `MoveUnstamped` | the roster sync, and an alteration of an earlier rota (history): inputs that stamp nothing |
| `CheckDefine`, `InsertRota`, `AbandonDefine`, `DiscardRota` | the lifecycle |
| `Restart` | the slot and the requests are memory; the database and the browsers are not |

Abstractions.
- A solve is a function (`Solve`) of the rota and the inputs it read: CP-SAT is
  run with a fixed seed and one worker.  A seating stands for the hash of it.
  `hashAllocations` hashes a line for each Seat filled, with the id of its Shift, so
  hashes of two rotas differ (`HashAssumption`) unless nobody is seated in either.
- The inputs are a few kinds with a few values: those of one rota (`OwnKinds`)
  and those all rotas share (`SharedKinds`), of which some stamp nothing
  (`Unstamped`).
- Two transactions never begin in the same microsecond, so their `now()` are
  distinct.  This is the one assumption about time, and `CleanDraftSpeaks`
  needs it.
- Two rotas that start on the same date cannot both be stored (dates are
  unique), so ties in `InFlight` and `Latest` do not matter.
- `definer` ends its request without showing anything; a discard is one step.

### ShiftEdits

`rota`, `stamp`, `day`, `closed`, `shape` and `pins` are the columns and tables
`rotation`, `shift`, `shift_requirement` and `preallocation`; `edit[e]` is a
request: what it asks, the Shift it found, whether that was closed, and the
`now()` of its transaction.  A request has three steps: the look-up before any
transaction (`FindShiftToPin`, `FindPin`, `FindShiftToShape`,
`FindShiftToUpdate`), the `BEGIN` of `withRotaLockTx` (`BeginEdit`), and all it
does under the row lock (`CommitPin`, `CommitUnpin`, `CommitShape`,
`CommitUpdate`).  `GiveUp` is every refusal, failure and lost client, at any of
them.  Beside the requests, `Define` (`InsertDefinedRota` with what
`seedPreallocations` made), `Allocate` and `Discard`.

What a request remembers is what the code remembers: `AddPreallocation` asks
before the lock whether the Shift is closed, `SaveShiftShape` decides by that
answer whether it looks at the pins, and `DeletePreallocation` keeps the rota
of the pin.

Abstractions.
- The roster and the Roles are fixed: whether a volunteer is active and holds
  the Role is asked of the roster before the lock, and is left to the asks.
- Times within a day are left out: they are no input of a solve.
- What standing preallocations seed is one of a few sets (`Standing`), in which
  nobody is named twice for a Shift, as `seedPreallocations` sees to.
- Any Shift may be closed in the code.  `Closable` names those an instance
  closes, so that `PinsFit` can speak of the others.
- `Allocate` may come at any time: which rota may be allocated, and when, is
  what `DraftRotaAllocation` is about.
- A rota's first stamp is 0: NULL, or the definition's own time when it seeds
  pins, which no edit shares.

### RotaChanges

`base` is the `allocation` table, `ledger` the `alteration` table in the order
of its inserts, `change[c]` a `ChangeRota` request.  `ResolveDate` and
`ResolveSwapDate` are the lookups before the transaction, `BeginChange` the
`BEGIN` that fixes `set_time`, `CommitChange` everything under the row locks:
the effective rota is read, the change is validated against it on both Shifts
(`Fits`), Roles are inherited (`RoleForIncoming`), the rows inserted.  Beside
it, `Allocate`, `Discard` (refused by a foreign key while a Shift has
alterations) and `Move` (a Shift gets another day).  `Effective` is
`ApplyAlterations`: `Replay` takes the times one after the other, `ApplyTime` the
rows of one time in the order of their insert, `Apply` one row.  Both are
recursive functions, not operators, so that they can be proved about.

Abstractions.  The seats of a Shift are kept per person: the Roles each has on it,
in their order.  How the seats of two people are ordered in the slice is left out,
since `validateDateChanges` and `roleOnShift` ask only about one.  The rows of one change have one `set_time` and stay in the order
of their insert.  The code cuts `set_time` to the second and sorts with
`sort.Slice`, which keeps that order for up to twelve rows of a Shift, which is
what the instances reach; beyond that it may not.  The roster is fixed, so "not
in the roster" is an ask that never arrives.

### AvailabilityRound

`request` is the `availability_request` table (whose token a volunteer holds,
named by the request that minted it), `response` the `availability_response`
table by `submitted_at`, with its `shift_availability` rows; `active` is the
roster, `closed` a column of `shift`; `mint[m]`, `submit[u]` and `solve` are
requests on their way; `discarding` is the row of the rotation held by a
discard.

| Action | Code |
|---|---|
| `StartMint`, `CommitMint` | `MintAvailabilityRound`: the check, then one INSERT ... ON CONFLICT DO NOTHING for the active roster; `DefineRota` goes straight to the second |
| `Resolve`, `BeginAnswer`, `LandAnswer`, `FailAnswer` | `SubmitAvailability`: `resolveToken` and `validateAnswers` outside a transaction, then `InsertAvailabilityResponse`, which holds the row of the link from its INSERT on and wants the row of the rotation for the stamp |
| `PickRota`, `ReadAnswers`, `TimeAllocation`, `CommitAllocation` | a solve that becomes the allocation, with `allocatedAt` off the clock before the transaction |
| `LockDiscard`, `CommitDiscard`, `RollBackDiscard` | `DiscardRota`, which holds the rotation from its first statement and then wants the links |
| `CloseOrReopen`, `MoveOnRoster` | what else an answer is read against |

`Counted`, `Form` and `ReadBackAt` are what the admin's page and the volunteer's
form show; `Seatable` is what the solver is told; both are computed from the same
tables by different code (`buildCoverage`, `fetchGroupAvailability` with
`InitShifts`), which is what `CountedCanBeSeated` compares.

Abstractions.  Times are those of transactions that fix one, and distinct, as in
`DraftRotaAllocation`.  An answer that holds its link and a discard that holds the
rotation may wait for each other; that Postgres then rolls one back is `FailAnswer`
or `RollBackDiscard`, which may come at any time.  A solve that fails leaves nothing.  The solve, its queue
and its draft are `DraftRotaAllocation`'s.

### AvailabilitySend

`request` says of each link whether `sent_at` is set; `answered` and `roster`
are what the selection reads; `job[j]` is the goroutine of a send with its
locals, `page[j]` its entry in the register (`sendJobs`), read by the page that
polls it.  `invited`, `doubtful` and `overlapped` are history: what went out,
of whom no program can know, and whether two sends ever ran at once.

`StartSend` is the return from the consent screen, valid; `ResolveRota`,
`ReadRequests`, `SelectRecipients`, `RefuseSend` are `SendAvailability` up to
its loop; `NoAddress`, `Email`, `EmailFails`, `Stamp`, `StampFails` one turn of
it each; `FinishSend` its report.  `Expire` is the context of the job, which the
statements heed and `SendEmail` does not; `Age` is `sendJobRetention`;
`Restart` loses jobs and register and keeps the rest.

Abstractions.  The three reads of a reminder (requests, answers, roster) are two
steps, with the answers and the roster read in the second.  The text of an email
and the throttle are left out.

### Settings

`roles` and `rules` are `role` and the allocation settings of `rota_defaults`;
`write[w]` is a transaction that writes one of them, `edit[e]` one that holds
the row of a rota and then names a Role (a pin, a Shift's Shape), `solve` a
solve that read the stamp, then the Roles, then the rules.  A write is three
steps because it is three in Postgres: its row is written (`WriteRole`,
`WriteRules`), `markAllRotaInputsChanged` begins and sees the rotas of that
moment (`FindRotas`), and gets the last of their rows (`CommitWrite`).  A rename
changes a unique column, so it keeps foreign keys to the Role waiting
(`Renaming`) and waits for those that are there (`MayRename`).  With an edit that
holds a rotation and wants the Role it can wait in a circle; Postgres rolls one of
the two back, which `RollBackWrite` and `RollBackEdit` cover.

### RotaLocks

`flow[f]` is a transaction: what it is, the rotation rows it still wants in their
order, and those it holds.  `BeginChange` is `withRotaLockTx` of one rota or of the
two of a swap, whose ids it sorts (`LockOrder`); `BeginSolved` an allocation, a
draft or a discard; `BeginStamp` the UPDATE of `markAllRotaInputsChanged`, which
takes the rows it saw in any order.  `LockNext` takes a row once nobody else has it
(`Free`) and looks at the rota again, as the code does under the lock and as an
UPDATE does at READ COMMITTED (`StillThere`).

Abstractions.  What is done under the lock is left out, and so are rows of other
tables.  A rota is defined only while none is in flight: with two in flight the
stamp's UPDATE and a change that takes both do wait in a circle (see below).

### RotaDefinition

`roles`, `hours`, `shape` and `standing` are what a definition reads: priorities,
whether the shift times are set, `default_shape_requirement` (a row is known by
its Role and by the save that put it there) and `standing_preallocation`.
`rota[d]` is a definition with what it has read, and the rota it makes.
`BeginDefine`, `ReadShape`, `CheckRotas`, `ReadStanding`, `ReadRoles` are its reads
in their order, so the promises and the priorities they are sorted by are of two
moments, and the insert is of a third (a promise in a Role the second read does not
have fails, `RolesThere`); `InsertRota` is the transaction with the Shifts (the one-Shift-per-date
index is `Free`), their Shapes and the pins of `seedPreallocations` (`Seeds`),
`CommitRota` its end.  `save[s]` is `SaveDefaultShape`: a DELETE that works on
the rows it saw (`StartSave`), waits for those another save has deleted
(`ClearShape`), INSERTs one by one against the primary key (`FillRow`), commits
(`CommitSave`) or not (`RollBackSave`).  `after`, of a save, is history: the saves
that had committed when it began.

Abstractions.  A recurrence rule is the set of dates it lands on.  Whether a
volunteer promised is active and holds the Role is asked of the roster and left
out.  The number of Seats of a row is left out: which rows there are is the
question.  Rows within one waiting DELETE are taken at once; two saves that
lock rows in opposite orders deadlock and one rolls back, which `RollBackSave`
covers.

## Runs

Passing runs check every property they list to the end of the state space.

| Run | Instance | What it shows |
|---|---|---|
| `DraftSafety` | 1 rota, 2 admins, 1 server, edits | one solve at a time, a clean draft speaks for the stamped inputs but for settings whose edit did not find its rota, no draft without its rota, the inductive invariant with the types in it, and the refinement |
| `DraftTwoRotas` | 2 rotas, 2 containers with a slot each, solves that may be empty | no rota is allocated as what was shown of another, also when two definitions put both in flight; what the slot does not protect, the lock does |
| `DraftLiveness` | 2 admins, a solver that may refuse | every request ends |
| `DraftReads` | 2 admins, 1 server, edits of a setting | a draft read as clean never misses an edit that committed before the read began and had found its rota, and the inductive invariant that says why |
| `ShiftEdits` | 2 requests at a time, 2 transactions, 2 Shifts of one rota, 3 pins | types, no volunteer pinned to a Shift twice, no request leaves more pins than Seats on a Shift that stays open, and the refinement of `StampedInputs` |
| `RotaChanges` | 2 admins, 3 changes, a rota allocated and one in flight, a custom entry, Shifts that move | nobody is twice on a Shift although changes are replayed in another order than they were validated in; nothing is recorded on a discarded rota; the newest change takes effect and disturbs nobody else; a swap keeps the Seats of both Shifts; the inductive invariant with the types in it |
| `AvailabilityRound` | a couple who answer as a group, 1 Shift, 2 mints and 2 answers at a time, 3 times | no answer without its link; a solve that missed an answer sees another stamp; whom the page counts as free the solver may seat; a new answer supersedes what its sender saw; the round of an allocated rota settles; links keep working however often and concurrently a round is minted |
| `AvailabilitySend` | a couple, one on and off the sheet with an address or without, 2 sends, restarts | sends that do not overlap invite nobody twice; stamps are true at every point of a crash; the report and the page account for everybody; a reminder skips a group that had answered |
| `Settings` | 2 Roles, 2 names, 2 rules, 2 rotas of which one is defined later, 2 writers, 1 editor | no two Roles with one name; a draft with its rota's stamp was solved from the settings as they stand |
| `RotaLocks` | 3 rotas, 3 transactions that run again and again | no rotation row is held twice; transactions never wait for each other in a circle |
| `RotaDefinition` | 2 definitions and 2 saves at a time, 2 days, 2 promises, of a volunteer or a custom entry | one Shift per date; a rota copies whole saves of the default Shape; the default Shape is what the latest saves stated; a volunteer is pinned once on each date promised, in the Role that came first when the definition read the Roles |

`NobodyTwice` is asked of rotas allocated from the start: a change recorded
before an allocation can put the same volunteer on a Shift again.
`SwapKeepsSeats` is asked of volunteers who hold one Seat of their Shift.
`CountedCanBeSeated` is asked of volunteers with different names, and
`DraftTellsSettings` of rotas that were there from the start (see below).  For the
same reason `CleanDraftSpeaks`, `ReadIsFresh` and the invariants under them except
the settings a draft has missed (`missed`): an edit of the settings moved them, since
the solve began, after looking for rotas when this one was not there yet.  The
exception is no wider: it is about that draft and that kind of setting, and ends
with the draft.

`ConfirmedSpec` lets a draft that seats nobody be allocated to another rota than the
one it was shown of (`ShownFor`): the request states a hash and no rota, and all
empty rotas hash alike.

`ReadIsFresh` asks of each input by itself that it stood at some moment of the
read; that all of them stood at one is not so (see the torn reads below).

`ShapeOfLatestSaves` is as far as "replacing whatever was there" goes: two saves
that overlapped may both be in the default Shape.  `SeedsKeepPromises` asks for
exactly one pin of a volunteer; of a custom entry it asks that a date promised has a
pin, of a Role promised, and not how many, since the test and the code disagree (see
below).

One run refutes a sentence of the code's comments: `OneRotaInFlight`, "There is
at most one, and that is a rule" (`db/rotation.go:22`), since two definitions
pass the check before either inserts.  Other sentences the models contradict,
which no run is about:

| The sentence | What happens |
|---|---|
| "an identical hash means nothing that could change the rota has moved" (`services/allocateRota.go:41`) | an edit commits after the solve read its input and before the commit, which looks at `allocated_datetime` alone |
| "the rota in flight: the latest, and necessarily unallocated" (`services/solveRota.go:27`) | a rota defined to start before an allocated one is in flight and never solved |
| changes "serialise" (`services/changeRota.go:19`) | they serialise on the lock, and are replayed in the order they began |
| alterations "only exist for a rota that has been allocated" (`db/rotation.go:198`) | `ChangeRota` does not ask |
| "Shifts are immutable once minted" (`services/changeRota.go:117`) | `UpdateShift` moves them to other days; a change that had resolved its date lands on the Shift that moved away |
| refusing a Shape that does not hold its pins "means the admin reads the pin's name now, rather than an infeasible solve later" (`services/shiftShape.go:99`) | the pins of a closed Shift are not compared, and reopening does not compare them; it takes a close, a reshape and a reopening |
| "a draft can never be solved from settings nobody has recorded a change to" (`db/tx.go:26`) | the stamp is one UPDATE over the rotas there are; a rota whose definition commits between it and the commit of the settings gets none (`Overlooked`) |
| at most one rota is unallocated, and the UPDATE that stamps them all "does not rely on that" (`db/rotation.go:181`) | it takes rows in the order it finds them; with two in flight it and a change that locks both by id can each hold what the other wants |
| "replacing whatever was there" (`db/defaultShape.go:54`) | two saves at once that name different Roles leave the rows of both: the DELETE of the second does not see what the first inserts |
| "Naming it twice is two promises" (`db/standingPreallocation_integration_test.go:90`) | `seedPreallocations` keys pins by subject, so two promises of one custom entry on one date are one pin |
| a Seat naming an unknown Role: "The foreign key makes it unreachable" (`services/defaultShape.go:127`) | the Roles are read before the rows that name them; a Role created between fails the definition |
| "naming the wrong one would be worse than naming none" (`services/defineRota.go:329`) | `datesAlreadyTaken` names the first date inside another rota's span, also when that rota runs on other weekdays |
| the reply "answers with the settings as they now stand" (`api/rotaDefaults.go:132`) | the reply to a save of the shift times says that no rule is on |
| "what is read back is the answer that was in when it mattered" (`services/availability.go:650`) | the cutoff is cut to the second and taken after the solve has read the answers |
| "the numbers the allocator will work to" (`services/availabilityCoverage.go:19`) | who joins a group after the mint is seated with it and not counted; two ungrouped volunteers with one name are one unit for the solver (`allocator/init.go:13`) and two people on the page |
| "The timeout bounds it instead" (`api/gmailsend.go:281`) | `SendEmail` takes no context: the rest of the list is emailed, and not stamped, so it is emailed again by the next send |
| sends "always arrive one at a time" (`api/sendjobs.go:68`) | nothing keeps a second from starting, and both invite everybody |
| "Links stop working at allocation" (`services/availabilitySend.go:109`) | whether the rota is allocated is asked once, before minutes of emails |

Two torn reads are known and no property asks otherwise: a status read takes the
outcome and the Seats of a draft in two statements, and may pair an old outcome
with newer Seats; a solve reads its inputs one by one, and may reply with the
rota of a combination that never stood (the draft it stores then reads as
dirty).

Bounds.  `MaxClock` bounds the edits that ever begin.  Two are enough for the
hazards: one edit under a solve, and two that begin in one order and commit in
the other.  Two admins are enough for one to queue behind, overtake or replace
the draft of the other; two values of an input tell a stale read from a fresh
one.  A rota is defined once, and is discarded or allocated once.  The instance
of `DraftReads`, whose history makes many states of each, has one input, a
setting: it is the harder kind, which an edit may change without having found the
rota; `ReadIsFresh` asks about every input on its own.  The proofs are for every
value of these bounds.

In `RotaChanges`, three changes are enough for one to come back in after two
that committed out of order; two rotas of one Shift each make every swap cross
rotas.  The admins are interchangeable there (symmetry).

In `ShiftEdits`, two requests are enough for each race of a look-up or a check
with a commit; two transactions for two stamps out of order; three pins for the
last Seat of a Role to be taken while a seeded Shift is overfull; two Shifts for
one that is closed and one that is not, and for a clash of days.

In `AvailabilityRound`, one Shift is enough, since every Shift is answered for on
its own; two volunteers make one group that answers in part, and two answers at
a time land in another order than they began.  Three times let an answer, a
closure and an allocation follow each other; a second has three of them, so an
allocation may be cut to before an answer that counted (both in one second), or
not be cut at all.  Pins are left out of the
instance: they only take from `Counted` and add to `Seatable`.  Two mints are enough
for one to meet the links of the other.  In
`AvailabilitySend`, two sends are enough for one to follow or overtake the other,
and two volunteers for a batch that stops in the middle.  In `Settings`, two
transactions in all are enough for a rename and an edit that cross, and two
writes that cross a solve; the second rota is defined while a write is under way.
In `RotaLocks`, three rotas and three transactions are enough for a circle of two
and for one of three.  In `RotaDefinition`, two days hold two rotas side by side and
in each other's way; two promises of one volunteer, on one day, make the choice of a
Role.  Three edits in all (`MaxEdits`: of a Role, of the promises, and saves of the
default Shape that begin) are one save with two promises, or with one promise and a
priority moved after it was read, or two saves that overlap; a custom entry is
promised by a rule of one day.  Roles and requests are
interchangeable there (symmetry).

Deadlock is checked wherever the system goes on: a server can always restart, a
change can always give up.  In `ShiftEdits` a rota is defined once, and when it
is discarded nothing is left to edit; the same holds for the round, its sends,
settings without a rota and definitions, whose runs do not ask either.  In
`RotaLocks` it is: some transaction can always begin or roll back.

Fairness (`FairSpec`).  Status reads are weakly fair: a statement returns.  So
is `SolveFails`: whatever else the solver does, `solveCeiling` or the client
ends it (an allocation runs, commit included, under the same
ceiling).  `Acquire` is strongly fair: a Go channel serves its waiters in
order, so a waiter is not passed over forever.  Nothing else is fair: no solver
has to answer, no edit has to commit, no client has to stay or leave.  Nothing else
is asked to happen eventually.  Two pairs of transactions take their rows in opposite
orders (an answer and a discard; a rename and an edit that names the Role), and that
both end is Postgres's deadlock detector and no merit of the code; `NoWaitCycle` is
about the order the code does keep.

## Proofs

### DraftRotaAllocationProofs

Proved, for every value of the constants that
satisfies the named assumptions of `DraftRotaAllocation`:

- `TypeCorrect`: `TypeOK`;
- `Inductive`: `IndInv`, and from it
- `CleanDraft`: `CleanDraftSpeaks`,
- `DraftInFlight`: `DraftOnlyInFlight`,
- `OneSolve`: `OneSolveAtATime`;
- `Implements`: `Spec => ConfirmedSpec`.

`CleanDraftSpeaks` (with its exception, `missed`) is not inductive.  That equal
stamps mean equal inputs
depends on three facts of the other parts of the state: an open transaction's
`now()` is not the stamp of any rota, draft or solve (`StampsFresh`), which
needs that stamps are never ahead of the clock (`StampsPast`); and while the
stamp a solve captured still stands, what it has read is what stands
(`SolveSeesCurrent`, with the request's own `missed`, which the draft inherits).
`OneSolveAtATime` rests on `SlotHeld`: who is solving is
who holds the slot.  Each conjunct has one lemma for a step, with one case per
action that can disturb it; `Effect` groups the actions that leave a part of
the state alone.  The refinement maps every step to a step of `ConfirmedRota`
or to a stutter (`StepConfirms`); that what is confirmed is of the rota on the screen
is `HashAssumption`.

### DraftReadsProofs

`ReadsAddNothing`: the history is only history, `ReadSpec => Spec`, so all that is
proved of the draft holds of it.  Then, if `OneServer`:

- `ReadsInductive`: `ReadInv`, and from it
- `ReadsAreFresh`: `ReadIsFresh`.

`OneServer` says that all admins talk to one server process, as
`deploy/compose.yaml` runs one.  It is needed: given two servers, and so two solve
slots, TLC refutes `ReadIsFresh` (a trace of 21 states).

A status read is three statements: the rota with its stamp, the draft's row, the
draft's Seats.  `ReadInv` says what must be true between them of the draft there
is, and of every solve under way that may yet replace it.  Before the row is
read (`RowToCome`): a draft that would be found clean was solved from inputs that
stood, each on its own, since the request began (`Readable`, which leaves open the
settings the draft missed), and a solve has either read such inputs
(`ReadsStood`) or captured another stamp than the request's.  Once the row was
found clean (`SeatsToCome`): the draft is such a draft and every solve such a solve.
The step from one to the other is `SolvesInOrder`: a solve under way while the draft is
clean captured the stamp of that draft.  With one slot the solve began when the
last one had stored; with two it may have begun long before.

### ShiftEditsProofs

Proved, for every value of the constants that satisfies the named assumptions
of `ShiftEdits` (disjoint Volunteers and Customs, Shapes that are Shapes,
seeds without repetition, and that `RotaOf` and `FirstDay` are functions):

- `TypeCorrect`: `TypeOK`; `Inductive`: `IndInv`, and from it
- `OncePinned`: `PinnedOnce`,
- `PinsHaveSeats`: `PinsFit`;
- `Implements`: `Spec => InputsSpec`.

`PinnedOnce` and `PinsFit` hold step by step because the check and the write
share a lock, but not alone.  `PinsFit` needs that nobody who reshapes a Shift
outside `Closable` believes it closed (`ClosableOnly`), and that a pin is one
more than those counted (the pins are a finite set).  A definition must meet no
pins on its Shifts, which `TypeOK` says: a pin's Shift exists, and a Shift
exists exactly while its rota does.  The refinement needs two facts more: open
transactions have distinct times (`TimesDistinct`), so that a commit closes
exactly one; and the pin a request deletes is on the Shift it found
(`PinsNamed`), since the rota whose allocation it checks is that of the Shift
found, and the rota it stamps is that of the pin deleted.  `EditStamps` is the
common part of the four commits; an update that moves a Shift of an allocated
rota maps to `Redate`, one that states what already is to `End`.

### AvailabilityRoundProofs

Proved, for every value of the constants that satisfies the named assumptions of
`AvailabilityRound` (what is promised are Seats for volunteers, and `None` is
none of them):

- `TypeCorrect`: `TypeOK`; `Inductive`: `IndInv`, and from it
- `LinksOfAnswers`: `AnswersHaveLinks`,
- `MissedAnswersShow`: `StampTellsAnswers`;
- `LinksStay`: `LinksKeepWorking`, `NewAnswerWins`: `NewAnswerSupersedes`,
  `RoundSettles`: `AllocatedRoundSettles`, which are about steps;
- `PageCountsSeatable`: `CountedCanBeSeated`, if `KeysApart`: no two volunteers
  have one name and no group is called what somebody without a group goes by.
  The program does not see to that; the finding about `GroupKeyFor` is what
  happens without.

`StampTellsAnswers` needs that the time of an answer being written is nobody
else's: not the stamp that stands, not the stamp a solve goes by, and not that of
another answer (`OwnTimes`), for which all that is stamped must be in the past
(`Clocked`).  Then an answer that lands moves the stamp away from the one the
solve goes by.  `AnswersHaveLinks` goes through a discard because a discard waits
for whoever writes behind a link (`LinksFree`), and through a mint because a mint
leaves links alone (`MintKeepsLinks`).  `AllocatedRoundSettles` needs that nobody
discards an allocated rota (`DiscardsOpen`) and that cutting to the second does
not move the cutoff past the allocation (`CutoffAt`).  That there is a newest
answer at all (`TimesHaveMax`) is the well-foundedness of `<`.

### RotaChangesProofs

Proved, for every value of the constants that satisfies the named assumptions of
`RotaChanges` (in particular, an allocation seats no volunteer twice on a Shift):

- `TypeCorrect`: `TypeOK`; `Inductive`: `IndInv`, and from it
- `OneSeatEach`: `NobodyTwice`, `DiscardedStaysEmpty`: `NothingOnDiscarded`, and,
  about steps,
- `NewestTakesEffect`: `LatestTakesEffect`, `SwapsKeepSeats`: `SwapKeepsSeats`;
- `CommitOrderForgotten`, a fact about `Replay` alone: two changes of different
  times come to the same, whichever was committed first.  This is why a change that
  began first and committed second is validated against the other and replayed
  before it.

All but `DiscardedStaysEmpty` are about the replay, a recursive function over a
recursive function.  The library's induction takes an operator and cannot be used;
`Induction` is got from `WFMin` and `NatLessThanWellFounded` for a *set* of numbers
instead (the least number outside it), `Recursion` from it (a function defined by
iterating a step exists), and from that `ApplyTimeSteps` and `ReplaySteps`, the
equations of the two recursive functions of the model.  Everything else unfolds
those.

`NobodyTwice` is the deep one.  A change is validated against the effective rota,
and its rows then land somewhere in the middle of the replay, where nobody
has looked.  `ReplayBound` is the argument: adding rows of one time to a
ledger gives a volunteer at most as many seats more, at the end, as the rows gave
at their time, since whatever is replayed afterwards takes all seats or adds the
same to both (`ApplyBound`).  The rows of a change add at most one seat for who comes
in and nothing for anybody else (`HalfBound`); who comes in had no seat
(`Fits`), everybody else at most one, so nobody has two (`CommitNobodyTwice`).
Both halves of a swap of a Shift with itself are validated against the same rota, so
they can only be of custom entries: `MoreBound` and `GivesToNewcomers` have that
case too.
`LatestTakesEffect` and `SwapKeepsSeats` are about changes that are newest: their rows
are then replayed last (`ReplayLatest`), over the effective rota that was
validated.

### AvailabilitySendProofs

Proved, for every value of the constants that satisfies `PeopleAssumption` (the
volunteers are finitely many, for pages count them):

- `TypeCorrect`: `TypeOK`; `Inductive`: `IndInv`, and from it
- `StampsAreTrue`: `StampIsTrue`, `InvitesOnce`: `InvitedOnce`,
  `Accounts`: `ReportAccounts`, and, about steps,
- `RemindersSkip`: `ReminderSkipsAnswered`.

`InvitedOnce` and `StampIsTrue` need each other.  A send that reads `unsent`
must know that none of these was emailed, which `StampIsTrue` says unless
somebody is between an email and its stamp, and that is nobody while one send
runs (`Alone`); from there on the send carries it with its list (`InviteOK`).
`StampIsTrue` in turn survives a mint because a link that is gone leaves nobody
invited while the rota is there (`HasLinks`, `AskedOK`).  `ReportAccounts` adds
what the page said before the last email (`PageOK`), and that the lists grow by
one each time.  What every step leaves be or adds to is `Grows`; each step of a
send has a lemma for its own conjuncts (`Own`), and `Frame` is for the others.

### SettingsProofs

Proved, for every value of the constants that satisfies the named assumptions of
`Settings`:

- `TypeCorrect`: `TypeOK`, with no two Roles of one name;
- `Inductive`: `IndInv`, and from it `DraftTells`: `DraftTellsSettings`.

`DraftTellsSettings` goes as `CleanDraftSpeaks` does: the time of a transaction
is nobody else's (`Clocked`, `OwnTimes`), and what a solve has read stands while
its stamp does (`SolveTells`).  What is new is that one statement stamps many
rotas, those it saw: `FindsAll` says these are all that were there from the start
and are unallocated still.  It is false of those that are defined later, which is
the finding about `markAllRotaInputsChanged`.  Names are unique because no two
transactions hold one name (`NamesApart`).

### RotaDefinitionProofs

Proved, for every value of the constants that satisfies the named assumptions of
`RotaDefinition`:

- `TypeCorrect`: `TypeOK`, in which the default Shape names a Role once;
- `Inductive`: `IndInv`, and from it
- `ShiftsApart`: `OneShiftPerDate`, `CopiesWholeSaves`: `AsksWholeSaves`,
  `ShapeIsLatest`: `ShapeOfLatestSaves`, and, about steps,
- `SeedsKept`: `SeedsKeepPromises`.

That rows come in whole saves holds of the table, of what a save is about to
delete and of what a definition has copied (`WholeSaves`).  That a Role has one
row is not a matter of one save: what two of them have inserted so far must
differ, and differ from what neither deletes (`KeysApart`).  Dates are apart from
the insert on and not from the commit (`DatesApart`).  `ShapeOfLatestSaves` needs
that a save deletes whatever is there of the saves that committed before it began,
and nothing of any other (`SavesInOrder`).
`SeedsKeepPromises` needs that the Roles read have those promised (`RolesThere`, which
the code checks), so that their priorities are numbers; that one promise is the first
is the well-foundedness of `<`, taken once for the priorities and once for the ids
(`FirstPromise`).

### Only model-checked

Liveness (fairness and ENABLED are out of the prover's reach): `EveryRequestAnswered`.
The refutation, `OneRotaInFlight`.  And the two invariants of `RotaLocks`.  Every
other property of a run is a theorem.

## Not modelled

See `components` in `PROJECT.json` for each part.

- The session of an admin (a signed cookie) and the OAuth exchange: no state the
  server keeps.  What a send does with it is `StartSend`.
- Published rotas, listings and calendars read, and write nothing.
- The solver and the counts and rules handed to it are pure functions; here they
  are one, `Solve`.
- HTTP routing, the CLI, configuration and migrations are wiring.
- `InsertBackfilledAvailabilityResponse` has no caller, and `addCovers.go` no
  code.
- Of the parts modelled: the wording of errors, the order of rows on a screen, the
  round counts of `GetRotaInFlight`, the hours of a Shift within a day, rows of
  one Shift's ledger beyond the twelve Go's sort keeps in order, and locks other
  than those in `AvailabilityRound`, `Settings`, `RotaDefinition` and `RotaLocks`.
- A pin may land on a Shift closed since the request looked
  (`services/preallocations.go:152`): the solver is not told of it, so nothing is
  asked of it until the Shift reopens.

## Plan

1. The draft of the rota in flight, `RotaChanges`, `ShiftEdits`: done.
2. `AvailabilityRound`, `AvailabilitySend`, `Settings`, `RotaDefinition`, `RotaLocks`:
   done.
3. Proofs: every invariant, action property and refinement a run checks, but those
   of `RotaLocks`: done.  Left: `NoWaitCycle`, and that `DraftRotaAllocation` with
   its requests hidden implements `StampedInputs` for the inputs that do stamp.
4. Composition: `Settings` and answers as further editors that implement
   `StampedInputs`, for the rotas they see.
5. Algorithms against reference definitions: seat coverage, the override rules,
   Role order; the solver's constraints as a predicate.
