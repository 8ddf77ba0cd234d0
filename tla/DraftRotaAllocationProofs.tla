---------------------- MODULE DraftRotaAllocationProofs ----------------------
(***************************************************************************)
(* Proofs about DraftRotaAllocation, for any number of admins, servers,    *)
(* editors, definers, rotas and inputs.                                    *)
(***************************************************************************)
EXTENDS DraftRotaAllocation, TLAPS

\* A step leaves request a alone, but for adding to what it has missed.
SameRequest(a) ==
    /\ req'[a].at = req[a].at /\ req'[a].job = req[a].job
    /\ req'[a].rota = req[a].rota /\ req'[a].stamp = req[a].stamp
    /\ req'[a].seen = req[a].seen /\ req'[a].row = req[a].row
    /\ req'[a].status = req[a].status
    /\ req[a].missed \subseteq req'[a].missed

\* A clock that has not reached its bound ticks within the stamps.
LEMMA ClockTicks ==
    ASSUME clock \in Stamps, clock < MaxClock
    PROVE  clock + 1 \in Stamps
BY ClockAssumption DEF Stamps

\* The inputs of a rota are inputs.
LEMMA CurrentType ==
    ASSUME TypeOK, NEW r \in Rotas
    PROVE  Current(r) \in Inputs
BY DEF TypeOK, Current, Inputs, Kinds

\* What a solve that has read everything answers.
LEMMA AnswerType ==
    ASSUME TypeOK, NEW a \in Admins, req[a].at = "search"
    PROVE  Answer(a) \in Seatings \cup {Infeasible, Refused}
BY SolveAssumption DEF TypeOK, Answer, WellFormed, OnRota

\* Whatever is solved or stored for a rota, its Seats are a seating of that rota.
LEMMA SeatsType ==
    /\ \A r \in Rotas : SeatingsOf[r] \subseteq Seatings /\ NoSeats \in SeatingsOf[r]
    /\ \A r \in Rotas, i \in Inputs : SeatsOf(Solve[r][i]) \in SeatingsOf[r]
    /\ TypeOK => \A r \in Rotas : StoredSeats(r) \in SeatingsOf[r]
<1>1. \A r \in Rotas : SeatingsOf[r] \subseteq Seatings /\ NoSeats \in SeatingsOf[r]
  BY SolveAssumption DEF SeatingsOf
<1>2. ASSUME NEW r \in Rotas, NEW i \in Inputs PROVE SeatsOf(Solve[r][i]) \in SeatingsOf[r]
  BY SolveAssumption DEF SeatsOf, SeatingsOf
<1>3. ASSUME TypeOK, NEW r \in Rotas PROVE StoredSeats(r) \in SeatingsOf[r]
  <2>1. draft[r] # None => draft[r].from \in Inputs
    BY <1>3 DEF TypeOK, Drafts
  <2> QED
    BY <2>1, <1>1, <1>2 DEF StoredSeats
<1> QED
  BY <1>1, <1>2, <1>3

\* What a solve that has finished reading answers, as Seats.
LEMMA AnswerSeats ==
    ASSUME TypeOK, NEW a \in Admins, req[a].at = "search"
    PROVE  /\ req[a].rota \in Rotas
           /\ SeatsOf(Answer(a)) \in SeatingsOf[req[a].rota]
           /\ Answer(a) \in Seatings => Answer(a) \in SeatingsOf[req[a].rota]
<1>1. req[a].rota \in Rotas /\ req[a].seen \in Inputs
  BY DEF TypeOK, WellFormed, OnRota
<1>2. SeatsOf(Answer(a)) \in SeatingsOf[req[a].rota]
  BY <1>1, SeatsType DEF Answer
<1> QED
  BY <1>1, <1>2 DEF SeatsOf

\* What is shown of a rota is its own, or nothing.
LEMMA StatusType ==
    /\ NoDraft \in Statuses
    /\ \A r \in Rotas : \A seats \in SeatingsOf[r] : Status(r, seats) \in Statuses
BY SeatsType DEF Statuses, Status

LEMMA IdleRequestType == IdleRequest \in Requests
BY ClockAssumption, StatusType DEF IdleRequest, NothingRead, Requests, Stamps

LEMMA IdleRequestWellFormed == WellFormed(IdleRequest)
BY DEF WellFormed, IdleRequest, OnRota

\* A request that returns leaves a well-typed idle request and slot.
LEMMA FinishType ==
    ASSUME TypeOK, NEW a \in Admins, Finish(a)
    PROVE  /\ req' \in [Admins -> Requests]
           /\ slot' \in [Servers -> Admins \cup {Free}]
           /\ \A b \in Admins : req'[b] = IF b = a THEN IdleRequest ELSE req[b]
BY IdleRequestType, SlotAssumption DEF TypeOK, Finish, Release, Holds

LEMMA BlankType == Blank \in [OwnKinds -> Values]
<1>1. (CHOOSE v \in Values : TRUE) \in Values
  BY KindsAssumption
<1> QED
  BY <1>1 DEF Blank

\* Initially every variable has its type.
LEMMA TypeInit == Init => TypeOK
<1> SUFFICES ASSUME Init PROVE TypeOK
  OBVIOUS
<1>1. 0 \in Stamps
  BY ClockAssumption DEF Stamps
<1>2. own \in [Rotas -> [OwnKinds -> Values]]
  BY BlankType DEF Init
<1> QED
  <2>1. req \in [Admins -> Requests] /\ \A a \in Admins : WellFormed(req[a])
    BY IdleRequestType, IdleRequestWellFormed DEF Init
  <2>2. screen \in [Admins -> Statuses]
    BY StatusType DEF Init
  <2> QED
    BY <1>1, <1>2, <2>1, <2>2 DEF Init, TypeOK

\* A step that replaces one request by a well-formed one, and leaves the
\* database and the edits alone.
LEMMA RequestStepType ==
    ASSUME TypeOK, NEW a \in Admins, NEW q \in Requests, WellFormed(q),
           req' = [req EXCEPT ![a] = q], UNCHANGED db, UNCHANGED edits,
           slot' \in [Servers -> Admins \cup {Free}],
           screen' \in [Admins -> Statuses]
    PROVE  TypeOK'
<1>1. req' \in [Admins -> Requests]
  BY DEF TypeOK
<1>2. \A b \in Admins : WellFormed(req'[b])
  BY DEF TypeOK
<1> QED
  BY <1>1, <1>2 DEF TypeOK, db, edits, WellFormed

\* A request that waits or starts works on no rota.
LEMMA FreshRequestType ==
    \A at \in {"idle", "queue", "rota", "pick"}, s \in Statuses :
        LET q == [IdleRequest EXCEPT !.at = at, !.job = "read", !.status = s]
        IN  q \in Requests /\ WellFormed(q)
<1> TAKE at \in {"idle", "queue", "rota", "pick"}, s \in Statuses
<1> DEFINE q == [IdleRequest EXCEPT !.at = at, !.job = "read", !.status = s]
<1>1. q \in Requests
  BY IdleRequestType DEF Requests, Solving
<1>2. q.at = at
  BY IdleRequestType DEF Requests
<1> QED
  BY <1>1, <1>2 DEF WellFormed, OnRota

\* A step of a request keeps the types.
LEMMA TypeRequest ==
    ASSUME TypeOK, NEW a \in Admins, Request(a)
    PROVE  TypeOK'
<1>0. req[a] \in Requests /\ WellFormed(req[a])
  BY DEF TypeOK
<1>f. ASSUME UNCHANGED db, UNCHANGED edits, Finish(a),
             screen' \in [Admins -> Statuses]
      PROVE  TypeOK'
  BY <1>f, FinishType, IdleRequestType, IdleRequestWellFormed, RequestStepType DEF Finish
<1>q. ASSUME NEW status \in Statuses, QueueOrSolve(a, status),
             UNCHANGED db, UNCHANGED edits
      PROVE  TypeOK'
  <2> DEFINE pick == [IdleRequest EXCEPT !.at = "pick", !.job = "read", !.status = status]
             queue == [IdleRequest EXCEPT !.at = "queue", !.job = "read"]
  <2>1. pick \in Requests /\ WellFormed(pick)
    BY FreshRequestType
  <2>2. queue \in Requests /\ WellFormed(queue)
    BY FreshRequestType, IdleRequestType DEF Requests, WellFormed, OnRota
  <2>3. req' = [req EXCEPT ![a] = pick] \/ req' = [req EXCEPT ![a] = queue]
    BY <1>q DEF QueueOrSolve
  <2> HIDE DEF pick, queue
  <2>4. /\ slot' \in [Servers -> Admins \cup {Free}]
        /\ screen' \in [Admins -> Statuses]
    BY <1>q DEF QueueOrSolve, TypeOK
  <2> QED
    BY <1>q, <2>1, <2>2, <2>3, <2>4, RequestStepType
<1>s. ASSUME NEW q \in Requests, WellFormed(q), req' = [req EXCEPT ![a] = q],
             UNCHANGED <<db, edits, slot, screen>>
      PROVE  TypeOK'
  <2>1. /\ slot' \in [Servers -> Admins \cup {Free}]
        /\ screen' \in [Admins -> Statuses]
    BY <1>s DEF TypeOK
  <2> QED
    BY <1>s, <2>1, RequestStepType
<1>1. CASE StartRead(a)
  <2> DEFINE q == [req[a] EXCEPT !.at = "rota", !.job = "read"]
  <2>1. q \in Requests /\ WellFormed(q)
    BY <1>0 DEF Requests, WellFormed, OnRota
  <2>2. req' = [req EXCEPT ![a] = q]
    BY <1>1 DEF StartRead, TypeOK
  <2> QED
    BY <1>1, <2>1, <2>2, <1>s DEF StartRead
<1>2. CASE StartSolve(a)
  <2> DEFINE q == [req[a] EXCEPT !.at = "queue", !.job = "solve"]
  <2>1. q \in Requests /\ WellFormed(q)
    BY <1>0 DEF Requests, WellFormed, OnRota
  <2>2. req' = [req EXCEPT ![a] = q]
    BY <1>2 DEF StartSolve, TypeOK
  <2> QED
    BY <1>2, <2>1, <2>2, <1>s DEF StartSolve
<1>3. CASE StartAllocate(a)
  <2> DEFINE q == [req[a] EXCEPT !.at = "queue", !.job = "allocate"]
  <2>1. q \in Requests /\ WellFormed(q)
    BY <1>0 DEF Requests, WellFormed, OnRota
  <2>2. req' = [req EXCEPT ![a] = q]
    BY <1>3 DEF StartAllocate, TypeOK
  <2> QED
    BY <1>3, <2>1, <2>2, <1>s DEF StartAllocate
<1>4. CASE Acquire(a)
  <2> DEFINE q == [req[a] EXCEPT !.at = IF req[a].job = "solve" THEN "pick" ELSE "rota"]
  <2>1. q \in Requests /\ WellFormed(q)
    BY <1>0 DEF Requests, WellFormed, OnRota, Solving
  <2>2. req' = [req EXCEPT ![a] = q]
    BY <1>4 DEF Acquire, TypeOK
  <2>3. /\ slot' \in [Servers -> Admins \cup {Free}]
        /\ screen' \in [Admins -> Statuses]
    BY <1>4, SlotAssumption DEF Acquire, TypeOK
  <2> HIDE DEF q
  <2> QED
    BY <1>4, <2>1, <2>2, <2>3, RequestStepType DEF Acquire
<1>5. CASE Abandon(a)
  BY <1>5, <1>f DEF Abandon, TypeOK
<1>6. CASE ReadRota(a)
  <2>1. CASE Finish(a)
    BY <1>6, <2>1, <1>f DEF ReadRota, TypeOK
  <2>2. CASE \E r \in Rotas :
                /\ InFlight(r)
                /\ req' = [req EXCEPT ![a].at = "row", ![a].rota = r,
                                      ![a].stamp = stamp[r]]
                /\ UNCHANGED slot
    <3>1. PICK r \in Rotas :
                /\ InFlight(r)
                /\ req' = [req EXCEPT ![a].at = "row", ![a].rota = r,
                                      ![a].stamp = stamp[r]]
                /\ UNCHANGED slot
      BY <2>2
    <3> DEFINE q == [req[a] EXCEPT !.at = "row", !.rota = r, !.stamp = stamp[r]]
    <3>2. q \in Requests /\ WellFormed(q)
      BY <1>0 DEF Requests, WellFormed, OnRota, TypeOK
    <3>3. req' = [req EXCEPT ![a] = q]
      BY <3>1 DEF TypeOK
    <3> QED
      BY <1>6, <3>1, <3>2, <3>3, <1>s DEF ReadRota
  <2> QED
    BY <1>6, <2>1, <2>2 DEF ReadRota
<1>7. CASE ReadRow(a)
  <2> DEFINE row == draft[req[a].rota]
  <2>1. CASE row = None
    BY <1>7, <2>1, <1>q, StatusType DEF ReadRow
  <2>2. CASE row # None
    <3> DEFINE q == [req[a] EXCEPT !.at = "seats", !.row = row]
    <3>1. row \in Drafts
      BY <1>7, <1>0, <2>2 DEF ReadRow, TypeOK, WellFormed, OnRota
    <3>2. q \in Requests /\ WellFormed(q)
      BY <1>7, <1>0, <3>1 DEF ReadRow, Requests, WellFormed, OnRota
    <3>3. req' = [req EXCEPT ![a] = q]
      BY <1>7, <2>2 DEF ReadRow, TypeOK
    <3> QED
      BY <1>7, <2>2, <3>2, <3>3, <1>s DEF ReadRow
  <2> QED
    BY <2>1, <2>2
<1>8. CASE CheckDrafted(a)
  <2>1. CASE Finish(a)
    BY <1>8, <2>1, <1>f DEF CheckDrafted, TypeOK
  <2>2. CASE req' = [req EXCEPT ![a].at = "pick"] /\ UNCHANGED slot
    <3> DEFINE q == [req[a] EXCEPT !.at = "pick"]
    <3>1. q \in Requests /\ WellFormed(q)
      BY <1>0 DEF Requests, WellFormed, OnRota, Solving
    <3>2. req' = [req EXCEPT ![a] = q]
      BY <2>2 DEF TypeOK
    <3> QED
      BY <1>8, <2>2, <3>1, <3>2, <1>s DEF CheckDrafted
  <2> QED
    BY <1>8, <2>1, <2>2 DEF CheckDrafted
<1>9. CASE ReadSeats(a)
  <2> DEFINE status == Status(req[a].rota, StoredSeats(req[a].rota))
  <2>0. req[a].rota \in Rotas
    BY <1>0, <1>9 DEF ReadSeats, WellFormed, OnRota
  <2>1. status \in Statuses
    BY <2>0, SeatsType, StatusType
  <2>2. (Show(a, status) /\ Finish(a)) \/ QueueOrSolve(a, status)
    BY <1>9 DEF ReadSeats
  <2>3. UNCHANGED db /\ UNCHANGED edits
    BY <1>9 DEF ReadSeats
  <2> HIDE DEF status
  <2>4. CASE Show(a, status) /\ Finish(a)
    BY <2>1, <2>3, <2>4, <1>f DEF Show, TypeOK
  <2>5. CASE QueueOrSolve(a, status)
    BY <2>1, <2>3, <2>5, <1>q
  <2> QED
    BY <2>2, <2>4, <2>5
<1>10. CASE PickRota(a)
  <2>1. PICK r \in Rotas :
          req' = [req EXCEPT ![a].at = "inputs", ![a].rota = r, ![a].stamp = stamp[r]]
    BY <1>10 DEF PickRota
  <2> DEFINE q == [req[a] EXCEPT !.at = "inputs", !.rota = r, !.stamp = stamp[r]]
  <2>2. q \in Requests /\ WellFormed(q)
    BY <1>0 DEF Requests, WellFormed, OnRota, Solving, TypeOK
  <2>3. req' = [req EXCEPT ![a] = q]
    BY <2>1 DEF TypeOK
  <2> QED
    BY <1>10, <2>2, <2>3, <1>s DEF PickRota
<1>11. CASE ReadInput(a)
  <2>1. PICK k \in Kinds :
          req' = [req EXCEPT
                     ![a].seen[k] = Current(req[a].rota)[k],
                     ![a].at = IF AllRead(req[a].seen, k) THEN "search" ELSE "inputs"]
    BY <1>11 DEF ReadInput
  <2>2. req[a].rota \in Rotas
    BY <1>11, <1>0 DEF ReadInput, WellFormed, OnRota
  <2> DEFINE v == Current(req[a].rota)[k]
             next == IF AllRead(req[a].seen, k) THEN "search" ELSE "inputs"
             q == [req[a] EXCEPT !.seen[k] = v, !.at = next]
  <2>3. v \in Values
    BY <2>2, CurrentType DEF Inputs
  <2>4. req' = [req EXCEPT ![a] = q]
    BY <2>1 DEF TypeOK
  <2> HIDE DEF v
  <2>5. /\ q.at = next /\ q.rota = req[a].rota
        /\ q.seen = [req[a].seen EXCEPT ![k] = v]
    BY <1>0 DEF Requests
  <2>6. next = "search" => [req[a].seen EXCEPT ![k] = v] \in Inputs
    BY <1>0, <2>3 DEF Requests, Inputs, AllRead
  <2>7. q \in Requests
    BY <1>0, <2>3 DEF Requests, Solving
  <2>8. WellFormed(q)
    BY <2>2, <2>5, <2>6 DEF WellFormed
  <2> QED
    BY <1>11, <2>4, <2>7, <2>8, <1>s DEF ReadInput
<1>12. CASE SolveFails(a)
  BY <1>12, <1>f, <1>0 DEF SolveFails, Requests, TypeOK
<1>13. ASSUME StoreSolve(a), req[a].at = "search",
              screen' \in [Admins -> Statuses]
       PROVE  TypeOK'
  <2>1. [stamp |-> req[a].stamp, from |-> req[a].seen] \in Drafts
    BY <1>0, <1>13 DEF Drafts, Requests, WellFormed
  <2>2. draft' \in [Rotas -> Drafts \cup {None}]
    BY <1>13, <2>1 DEF StoreSolve, StampCaptured, TypeOK
  <2>3. /\ req' \in [Admins -> Requests]
        /\ slot' \in [Servers -> Admins \cup {Free}]
        /\ \A b \in Admins : WellFormed(req'[b])
    BY <1>13, FinishType, IdleRequestWellFormed DEF StoreSolve, TypeOK
  <2>4. missed' \in [Rotas -> SUBSET SharedKinds]
    BY <1>0, <1>13 DEF StoreSolve, TypeOK, Requests
  <2> QED
    BY <1>13, <2>2, <2>3, <2>4 DEF StoreSolve, TypeOK
<1>14. CASE StoreDraft(a)
  <2>1. /\ Heard(a, SeatsOf(Answer(a)))
        /\ Status(req[a].rota, SeatsOf(Answer(a))) \in Statuses
    BY <1>14, AnswerSeats, StatusType DEF StoreDraft
  <2>2. screen' \in [Admins -> Statuses]
    BY <2>1 DEF Heard, Show, TypeOK
  <2> QED
    BY <1>14, <1>13, <2>2 DEF StoreDraft
<1>15. CASE RefuseAllocation(a)
  <2>1. Status(req[a].rota, Answer(a)) \in Statuses
    BY <1>15, AnswerSeats, StatusType DEF RefuseAllocation
  <2>2. screen' \in [Admins -> Statuses]
    BY <1>15, <2>1 DEF RefuseAllocation, Heard, Show, TypeOK
  <2> QED
    BY <1>15, <1>13, <2>2 DEF RefuseAllocation
<1>16. CASE InfeasibleAllocation(a)
  BY <1>16, <1>13 DEF InfeasibleAllocation, TypeOK
<1>17. CASE CommitAllocation(a)
  <2>1. /\ req' \in [Admins -> Requests]
        /\ slot' \in [Servers -> Admins \cup {Free}]
        /\ \A b \in Admins : WellFormed(req'[b])
    BY <1>17, FinishType, IdleRequestWellFormed DEF CommitAllocation, TypeOK
  <2>2. /\ rota' \in [Rotas -> {"undefined", "unallocated", "allocated", "discarded"}]
        /\ draft' \in [Rotas -> Drafts \cup {None}]
        /\ missed' \in [Rotas -> SUBSET SharedKinds]
        /\ allocation' \in [Rotas -> Seatings \cup {None}]
    BY <1>17 DEF CommitAllocation, DropDraft, TypeOK
  <2> QED
    BY <1>17, <2>1, <2>2 DEF CommitAllocation, TypeOK
<1> QED
  BY <1>1, <1>2, <1>3, <1>4, <1>5, <1>6, <1>7, <1>8, <1>9, <1>10, <1>11, <1>12,
     <1>14, <1>15, <1>16, <1>17 DEF Request

\* An edit of the settings leaves every request as it is, but for what the request
\* has missed, and moves one kind of input; whoever works on a rota it did not find
\* has missed it.
LEMMA SharedEdit ==
    ASSUME TypeOK, NEW e \in Editors, CommitSharedEdit(e)
    PROVE  /\ req' \in [Admins -> Requests]
           /\ \A a \in Admins : SameRequest(a)
           /\ \E k \in SharedKinds :
                 /\ \A j \in SharedKinds \ {k} : shared'[j] = shared[j]
                 /\ \A r \in Overlooked(e) :
                       /\ draft[r] # None => k \in missed'[r]
                       /\ \A a \in Admins : Reading(a, r) => k \in req'[a].missed
<1>0. req \in [Admins -> Requests] /\ Overlooked(e) \subseteq Rotas
  BY DEF TypeOK, Overlooked, Unallocated
<1>1. PICK k \in SharedKinds \ Unstamped, v \in Values :
        /\ shared' = [shared EXCEPT ![k] = v]
        /\ missed' = [r \in Rotas |->
              IF r \in Overlooked(e) /\ draft[r] # None
              THEN missed[r] \cup {k} ELSE missed[r]]
        /\ req' = [a \in Admins |->
              IF \E r \in Overlooked(e) : Reading(a, r)
              THEN [req[a] EXCEPT !.missed = @ \cup {k}] ELSE req[a]]
  BY DEF CommitSharedEdit
<1>2. ASSUME NEW a \in Admins
      PROVE  /\ req'[a] \in Requests /\ SameRequest(a)
             /\ (\E r \in Overlooked(e) : Reading(a, r)) => k \in req'[a].missed
  <2>1. CASE ~ \E r \in Overlooked(e) : Reading(a, r)
    BY <1>0, <1>1, <2>1 DEF SameRequest
  <2>2. CASE \E r \in Overlooked(e) : Reading(a, r)
    <3> DEFINE q == [req[a] EXCEPT !.missed = @ \cup {k}]
    <3>1. req'[a] = q
      BY <1>1, <2>2
    <3>2. req[a] \in Requests
      BY <1>0
    <3>3. q \in Requests
      BY <3>2 DEF Requests
    <3>4. /\ q.at = req[a].at /\ q.job = req[a].job /\ q.rota = req[a].rota
          /\ q.stamp = req[a].stamp /\ q.seen = req[a].seen /\ q.row = req[a].row
          /\ q.status = req[a].status /\ q.missed = req[a].missed \cup {k}
      BY <3>2 DEF Requests
    <3> HIDE DEF q
    <3> QED
      BY <3>1, <3>3, <3>4 DEF SameRequest
  <2> QED
    BY <2>1, <2>2
<1>3. DOMAIN req' = Admins /\ req' = [a \in Admins |-> req'[a]]
  BY <1>1
<1>4. \A j \in SharedKinds \ {k} : shared'[j] = shared[j]
  BY <1>1 DEF TypeOK
<1>5. \A r \in Overlooked(e) : draft[r] # None => k \in missed'[r]
  BY <1>0, <1>1
<1>6. \A r \in Overlooked(e), a \in Admins : Reading(a, r) => k \in req'[a].missed
  BY <1>2
<1> QED
  BY <1>1, <1>2, <1>3, <1>4, <1>5, <1>6

\* So does everything that moves under a draft.
LEMMA TypeEdit ==
    ASSUME TypeOK, NEW e \in Editors, Edit(e)
    PROVE  TypeOK'
<1>0. 0 \in Stamps
  BY ClockAssumption DEF Stamps
<1> USE DEF TypeOK, WellFormed
<1>1. CASE BeginEdit(e)
  BY <1>1, ClockTicks DEF BeginEdit, db
<1>2. CASE CommitOwnEdit(e)
  <2>1. PICK r \in Unallocated, k \in OwnKinds, v \in Values :
          /\ own' = [own EXCEPT ![r][k] = v]
          /\ stamp' = [stamp EXCEPT ![r] = txn[e]]
    BY <1>2 DEF CommitOwnEdit
  <2>2. r \in Rotas
    BY DEF Unallocated
  <2>3. own' \in [Rotas -> [OwnKinds -> Values]]
    BY <2>1, <2>2
  <2>4. stamp' \in [Rotas -> Stamps]
    BY <2>1, <2>2
  <2> QED
    BY <1>0, <1>2, <2>3, <2>4 DEF CommitOwnEdit, EndEdit
<1>3. CASE CommitSharedEdit(e)
  <2>1. shared' \in [SharedKinds -> Values]
    BY <1>3 DEF CommitSharedEdit
  <2>2. stamp' \in [Rotas -> Stamps]
    BY <1>3 DEF CommitSharedEdit
  <2>3. req' \in [Admins -> Requests] /\ \A a \in Admins : WellFormed(req'[a])
    BY <1>3, SharedEdit DEF SameRequest
  <2>4. missed' \in [Rotas -> SUBSET SharedKinds]
    BY <1>3 DEF CommitSharedEdit
  <2>5. /\ txn' \in [Editors -> Stamps]
        /\ found' \in [Editors -> (SUBSET Rotas) \cup {None}]
        /\ UNCHANGED <<clock, definer, rota, own, draft, allocation, slot, screen>>
    BY <1>0, <1>3 DEF CommitSharedEdit, EndEdit
  <2> QED
    BY <2>1, <2>2, <2>3, <2>4, <2>5
<1>4. CASE RollBackEdit(e)
  BY <1>0, <1>4 DEF RollBackEdit, EndEdit, db
<1>5. CASE FindRotas(e)
  BY <1>5 DEF FindRotas, Unallocated, db
<1> QED
  BY <1>1, <1>2, <1>3, <1>4, <1>5 DEF Edit

LEMMA TypeRest ==
    ASSUME TypeOK,
           \/ MoveUnstamped
           \/ \E d \in Definers : CheckDefine(d) \/ InsertRota(d) \/ AbandonDefine(d)
           \/ \E r \in Rotas : DiscardRota(r)
           \/ \E s \in Servers : Restart(s)
    PROVE  TypeOK'
<1>0. 0 \in Stamps
  BY ClockAssumption DEF Stamps
<1> USE DEF TypeOK, WellFormed
<1>1. CASE MoveUnstamped
  BY <1>1, KindsAssumption DEF MoveUnstamped, edits
<1>2. ASSUME NEW d \in Definers, CheckDefine(d) PROVE TypeOK'
  BY <1>2 DEF CheckDefine, db
<1>3. ASSUME NEW d \in Definers, InsertRota(d) PROVE TypeOK'
  <2>1. PICK r \in Rotas, inputs \in [OwnKinds -> Values] :
          /\ rota' = [rota EXCEPT ![r] = "unallocated"]
          /\ own' = [own EXCEPT ![r] = inputs]
    BY <1>3 DEF InsertRota
  <2>2. /\ rota' \in [Rotas -> {"undefined", "unallocated", "allocated", "discarded"}]
        /\ own' \in [Rotas -> [OwnKinds -> Values]]
        /\ definer' \in [Definers -> {"idle", "checked"}]
    BY <1>3, <2>1 DEF InsertRota
  <2> QED
    BY <1>3, <2>2 DEF InsertRota
<1>4. ASSUME NEW d \in Definers, AbandonDefine(d) PROVE TypeOK'
  BY <1>4 DEF AbandonDefine, db
<1>5. ASSUME NEW r \in Rotas, DiscardRota(r) PROVE TypeOK'
  <2>1. /\ rota' \in [Rotas -> {"undefined", "unallocated", "allocated", "discarded"}]
        /\ stamp' \in [Rotas -> Stamps]
        /\ own' \in [Rotas -> [OwnKinds -> Values]]
        /\ draft' \in [Rotas -> Drafts \cup {None}]
        /\ missed' \in [Rotas -> SUBSET SharedKinds]
    BY <1>0, <1>5, BlankType DEF DiscardRota, DropDraft
  <2> QED
    BY <1>5, <2>1 DEF DiscardRota
<1>6. ASSUME NEW s \in Servers, Restart(s) PROVE TypeOK'
  BY <1>6, IdleRequestType, IdleRequestWellFormed DEF Restart, db, edits
<1> QED
  BY <1>1, <1>2, <1>3, <1>4, <1>5, <1>6

LEMMA TypeNext == TypeOK /\ [Next]_vars => TypeOK'
<1>1. ASSUME TypeOK, Next PROVE TypeOK'
  BY <1>1, TypeRequest, TypeEdit, TypeRest DEF Next
<1>2. ASSUME TypeOK, UNCHANGED vars PROVE TypeOK'
  BY <1>2 DEF TypeOK, vars, WellFormed
<1> QED
  BY <1>1, <1>2

\* Type correctness: no step of a handler, an edit, a definition, a discard or a
\* restart gives a variable a value outside its type.
THEOREM TypeCorrect == Spec => []TypeOK
BY TypeInit, TypeNext, PTL DEF Spec

-----------------------------------------------------------------------------
(* What a step of a request can change, once and for all. *)

\* It leaves the stamps, the inputs and the other requests alone; the only stamp
\* it can pick up is a rota's; the only draft it can write is its own solve's,
\* on an unallocated rota; the only rota it can change is one it allocates.
Effect(a) ==
    /\ UNCHANGED <<stamp, own, shared, clock, txn, definer>>
    /\ \A b \in Admins \ {a} : req'[b] = req[b]
    /\ \/ req'[a].stamp \in {0, req[a].stamp}
       \/ \E r \in Rotas : req'[a].stamp = stamp[r]
    /\ \A r \in Rotas :
          \/ draft'[r] = None
          \/ draft'[r] = draft[r] /\ missed'[r] = missed[r]
          \/ /\ draft'[r] = [stamp |-> req[a].stamp, from |-> req[a].seen]
             /\ missed'[r] = req[a].missed
             /\ req[a].at = "search" /\ req[a].rota = r
             /\ rota[r] = "unallocated" /\ rota'[r] = "unallocated"
    /\ \A r \in Rotas :
          \/ rota'[r] = rota[r]
          \/ rota[r] = "unallocated" /\ rota'[r] = "allocated" /\ draft'[r] = None
    /\ ReadInput(a) \/ req'[a].seen = NothingRead
    /\ req'[a].at = "search" => ReadInput(a)
    /\ req'[a].at \in OnRota =>
          req'[a].rota \in Rotas /\ rota[req'[a].rota] # "undefined"

LEMMA RequestEffect ==
    ASSUME TypeOK, RequestsInOrder, NEW a \in Admins, Request(a)
    PROVE  Effect(a)
<1>0. req \in [Admins -> Requests] /\ req[a] \in Requests /\ WellFormed(req[a])
  BY DEF TypeOK
<1>i. /\ IdleRequest.at = "idle" /\ IdleRequest.stamp = 0
      /\ IdleRequest.seen = NothingRead
  BY DEF IdleRequest
<1>f. ASSUME UNCHANGED db, UNCHANGED edits, Finish(a) PROVE Effect(a)
  BY <1>0, <1>f, <1>i DEF Finish, db, edits, OnRota, Effect
<1>q. ASSUME NEW q, req' = [req EXCEPT ![a] = q], UNCHANGED db, UNCHANGED edits,
             \/ q.stamp \in {0, req[a].stamp}
             \/ \E r \in Rotas : q.stamp = stamp[r],
             ReadInput(a) \/ q.seen = NothingRead,
             q.at = "search" => ReadInput(a),
             q.at \in OnRota => rota[q.rota] # "undefined" /\ q.rota \in Rotas
      PROVE  Effect(a)
  BY <1>0, <1>q DEF db, edits, Effect
<1>1. CASE StartRead(a) \/ StartSolve(a) \/ StartAllocate(a) \/ Acquire(a)
  <2>1. PICK at \in {"rota", "queue", "pick"},
             job \in {"none", "read", "solve", "allocate"} :
          req' = [req EXCEPT ![a].at = at, ![a].job = job]
    <3>1. CASE StartRead(a)
      BY <3>1 DEF StartRead
    <3>2. CASE StartSolve(a)
      BY <3>2 DEF StartSolve
    <3>3. CASE StartAllocate(a)
      BY <3>3 DEF StartAllocate
    <3>4. CASE Acquire(a)
      <4>1. req' = [req EXCEPT ![a].at = IF req[a].job = "solve" THEN "pick" ELSE "rota",
                               ![a].job = req[a].job]
        BY <1>0, <3>4 DEF Acquire, Requests
      <4>2. req[a].job \in {"none", "read", "solve", "allocate"}
        BY <1>0 DEF Requests
      <4> QED
        BY <4>1, <4>2
    <3> QED
      BY <1>1, <3>1, <3>2, <3>3, <3>4
  <2> DEFINE q == [req[a] EXCEPT !.at = at, !.job = job]
  <2>2. req' = [req EXCEPT ![a] = q]
    BY <1>0, <2>1
  <2>3. q.stamp = req[a].stamp /\ q.seen = req[a].seen /\ q.at = at
    BY <1>0 DEF Requests
  <2>4. req[a].seen = NothingRead
    BY <1>1 DEF RequestsInOrder, StartRead, StartSolve, StartAllocate, Acquire
  <2>5. UNCHANGED db /\ UNCHANGED edits
    BY <1>1 DEF StartRead, StartSolve, StartAllocate, Acquire
  <2>6. at \notin OnRota /\ at # "search"
    BY DEF OnRota
  <2> HIDE DEF q
  <2> QED
    BY <2>2, <2>3, <2>4, <2>5, <2>6, <1>q
<1>2. CASE Abandon(a) \/ SolveFails(a)
  BY <1>2, <1>f DEF Abandon, SolveFails
<1>3. CASE ReadRota(a)
  <2>1. CASE Finish(a)
    BY <1>3, <2>1, <1>f DEF ReadRota
  <2>2. CASE \E r \in Rotas :
                /\ InFlight(r)
                /\ req' = [req EXCEPT ![a].at = "row", ![a].rota = r,
                                      ![a].stamp = stamp[r]]
                /\ UNCHANGED slot
    <3>1. PICK r \in Rotas :
                /\ InFlight(r)
                /\ req' = [req EXCEPT ![a].at = "row", ![a].rota = r,
                                      ![a].stamp = stamp[r]]
      BY <2>2
    <3> DEFINE q == [req[a] EXCEPT !.at = "row", !.rota = r, !.stamp = stamp[r]]
    <3>2. req' = [req EXCEPT ![a] = q]
      BY <1>0, <3>1
    <3>3. /\ q.at = "row" /\ q.rota = r /\ q.stamp = stamp[r]
          /\ q.seen = req[a].seen
      BY <1>0 DEF Requests
    <3>4. req[a].seen = NothingRead
      BY <1>3 DEF ReadRota, RequestsInOrder
    <3>5. rota[r] # "undefined"
      BY <3>1 DEF InFlight, Unallocated
    <3>6. UNCHANGED db /\ UNCHANGED edits
      BY <1>3 DEF ReadRota
    <3> HIDE DEF q
    <3> QED
      BY <3>2, <3>3, <3>4, <3>5, <3>6, <1>q
  <2> QED
    BY <1>3, <2>1, <2>2 DEF ReadRota
<1>4. ASSUME NEW status, QueueOrSolve(a, status), UNCHANGED db, UNCHANGED edits
      PROVE  Effect(a)
  <2> DEFINE pick == [IdleRequest EXCEPT !.at = "pick", !.job = "read", !.status = status]
             queue == [IdleRequest EXCEPT !.at = "queue", !.job = "read"]
  <2>1. /\ pick.at = "pick" /\ pick.stamp = 0 /\ pick.seen = NothingRead
        /\ queue.at = "queue" /\ queue.stamp = 0 /\ queue.seen = NothingRead
    BY DEF IdleRequest
  <2>2. req' = [req EXCEPT ![a] = pick] \/ req' = [req EXCEPT ![a] = queue]
    BY <1>4 DEF QueueOrSolve
  <2> HIDE DEF pick, queue
  <2> QED
    BY <1>4, <2>1, <2>2, <1>q DEF OnRota
<1>5. CASE ReadRow(a)
  <2> DEFINE row == draft[req[a].rota]
             q == [req[a] EXCEPT !.at = "seats", !.row = row]
  <2>1. UNCHANGED db /\ UNCHANGED edits
    BY <1>5 DEF ReadRow
  <2>2. QueueOrSolve(a, NoDraft) \/ req' = [req EXCEPT ![a] = q]
    BY <1>0, <1>5 DEF ReadRow
  <2>3. /\ q.at = "seats" /\ q.rota = req[a].rota /\ q.stamp = req[a].stamp
        /\ q.seen = req[a].seen
    BY <1>0 DEF Requests
  <2>4. /\ req[a].seen = NothingRead
        /\ req[a].rota \in Rotas /\ rota[req[a].rota] # "undefined"
    BY <1>0, <1>5 DEF ReadRow, RequestsInOrder, OnRota, WellFormed
  <2> HIDE DEF q
  <2> QED
    BY <2>1, <2>2, <2>3, <2>4, <1>4, <1>q
<1>6. CASE CheckDrafted(a)
  <2>1. CASE Finish(a)
    BY <1>6, <2>1, <1>f DEF CheckDrafted
  <2>2. CASE req' = [req EXCEPT ![a].at = "pick"]
    <3> DEFINE q == [req[a] EXCEPT !.at = "pick"]
    <3>1. q.at = "pick" /\ q.stamp = req[a].stamp /\ q.seen = req[a].seen
      BY <1>0 DEF Requests
    <3>2. req' = [req EXCEPT ![a] = q]
      BY <1>0, <2>2
    <3>3. req[a].seen = NothingRead /\ UNCHANGED db /\ UNCHANGED edits
      BY <1>6 DEF CheckDrafted, RequestsInOrder
    <3> HIDE DEF q
    <3> QED
      BY <3>1, <3>2, <3>3, <1>q DEF OnRota
  <2> QED
    BY <1>6, <2>1, <2>2 DEF CheckDrafted
<1>7. CASE ReadSeats(a)
  <2>1. UNCHANGED db /\ UNCHANGED edits
    BY <1>7 DEF ReadSeats
  <2>2. \/ Finish(a)
        \/ QueueOrSolve(a, Status(req[a].rota, StoredSeats(req[a].rota)))
    BY <1>7 DEF ReadSeats
  <2> QED
    BY <2>1, <2>2, <1>f, <1>4
<1>8. CASE PickRota(a)
  <2>1. PICK r \in Rotas :
          /\ r \in Unallocated
          /\ req' = [req EXCEPT ![a].at = "inputs", ![a].rota = r, ![a].stamp = stamp[r]]
    BY <1>8 DEF PickRota
  <2> DEFINE q == [req[a] EXCEPT !.at = "inputs", !.rota = r, !.stamp = stamp[r]]
  <2>2. req' = [req EXCEPT ![a] = q]
    BY <1>0, <2>1
  <2>3. /\ q.at = "inputs" /\ q.rota = r /\ q.stamp = stamp[r]
        /\ q.seen = req[a].seen
    BY <1>0 DEF Requests
  <2>4. req[a].seen = NothingRead /\ UNCHANGED db /\ UNCHANGED edits
    BY <1>8 DEF PickRota, RequestsInOrder
  <2>5. rota[r] # "undefined"
    BY <2>1 DEF Unallocated
  <2> HIDE DEF q
  <2> QED
    BY <2>2, <2>3, <2>4, <2>5, <1>q
<1>9. CASE ReadInput(a)
  <2>1. PICK k \in Kinds :
          req' = [req EXCEPT
                     ![a].seen[k] = Current(req[a].rota)[k],
                     ![a].at = IF AllRead(req[a].seen, k) THEN "search" ELSE "inputs"]
    BY <1>9 DEF ReadInput
  <2> DEFINE q == [req[a] EXCEPT
                     !.seen[k] = Current(req[a].rota)[k],
                     !.at = IF AllRead(req[a].seen, k) THEN "search" ELSE "inputs"]
  <2>2. req' = [req EXCEPT ![a] = q]
    BY <1>0, <2>1
  <2>3. q.rota = req[a].rota /\ q.stamp = req[a].stamp
    BY <1>0 DEF Requests
  <2>4. req[a].rota \in Rotas /\ rota[req[a].rota] # "undefined"
    BY <1>0, <1>9 DEF ReadInput, RequestsInOrder, OnRota, WellFormed
  <2>5. UNCHANGED db /\ UNCHANGED edits
    BY <1>9 DEF ReadInput
  <2> HIDE DEF q
  <2> QED
    BY <1>9, <2>2, <2>3, <2>4, <2>5, <1>q
<1>10. ASSUME StoreSolve(a), req[a].at = "search" PROVE Effect(a)
  <2>1. /\ UNCHANGED <<rota, stamp, own, shared, clock, txn, definer>>
        /\ rota[req[a].rota] = "unallocated"
        /\ draft' = [draft EXCEPT ![req[a].rota] =
                        [stamp |-> req[a].stamp, from |-> req[a].seen]]
        /\ missed' = [missed EXCEPT ![req[a].rota] = req[a].missed]
        /\ req' = [req EXCEPT ![a] = IdleRequest]
    BY <1>10 DEF StoreSolve, LockUnallocated, StampCaptured, Finish
  <2>2. /\ draft \in [Rotas -> Drafts \cup {None}]
        /\ missed \in [Rotas -> SUBSET SharedKinds]
    BY DEF TypeOK
  <2>3. \A r \in Rotas :
          \/ draft'[r] = draft[r] /\ missed'[r] = missed[r]
          \/ /\ draft'[r] = [stamp |-> req[a].stamp, from |-> req[a].seen]
             /\ missed'[r] = req[a].missed
             /\ req[a].at = "search" /\ req[a].rota = r
             /\ rota[r] = "unallocated" /\ rota'[r] = "unallocated"
    BY <1>10, <2>1, <2>2
  <2> QED
    BY <1>0, <1>i, <2>1, <2>3 DEF Effect, OnRota
<1>11. CASE StoreDraft(a) \/ RefuseAllocation(a) \/ InfeasibleAllocation(a)
  BY <1>10, <1>11 DEF StoreDraft, RefuseAllocation, InfeasibleAllocation
<1>12. CASE CommitAllocation(a)
  <2>1. /\ UNCHANGED <<stamp, own, shared, clock, txn, definer>>
        /\ rota[req[a].rota] = "unallocated"
        /\ rota' = [rota EXCEPT ![req[a].rota] = "allocated"]
        /\ draft' = [draft EXCEPT ![req[a].rota] = None]
        /\ missed' = [missed EXCEPT ![req[a].rota] = {}]
        /\ req' = [req EXCEPT ![a] = IdleRequest]
    BY <1>12 DEF CommitAllocation, SolvedRota, LockUnallocated, DropDraft, Finish
  <2>2. /\ draft \in [Rotas -> Drafts \cup {None}]
        /\ missed \in [Rotas -> SUBSET SharedKinds]
        /\ DOMAIN rota = Rotas
        /\ rota = [r \in Rotas |-> rota[r]]
    BY DEF TypeOK
  <2>3. \A r \in Rotas :
          \/ rota'[r] = rota[r]
          \/ rota[r] = "unallocated" /\ rota'[r] = "allocated" /\ draft'[r] = None
    BY <2>1, <2>2
  <2> QED
    BY <1>0, <1>i, <2>1, <2>2, <2>3 DEF Effect, OnRota
<1> QED
  BY <1>1, <1>2, <1>3, <1>5, <1>6, <1>7, <1>8, <1>9, <1>11, <1>12 DEF Request

-----------------------------------------------------------------------------
(* The parts of the inductive invariant, one lemma each. *)

\* A step of a request leaves every other request, and its hold on the slot, alone.
LEMMA OthersHold ==
    ASSUME TypeOK, NEW a \in Admins, Request(a), NEW b \in Admins \ {a}
    PROVE  req'[b] = req[b] /\ (Holds(b) => Holds(b)')
<1>0. /\ b # Free /\ ServerOf[b] \in Servers /\ ServerOf[a] \in Servers
      /\ slot \in [Servers -> Admins \cup {Free}]
      /\ req \in [Admins -> Requests]
  BY SlotAssumption DEF TypeOK
<1>1. ASSUME Finish(a) PROVE req'[b] = req[b] /\ (Holds(b) => Holds(b)')
  BY <1>0, <1>1 DEF Finish, Release, Holds
<1>2. CASE StartRead(a) \/ StartSolve(a) \/ StartAllocate(a)
  BY <1>0, <1>2 DEF StartRead, StartSolve, StartAllocate, Holds
<1>3. CASE Acquire(a)
  BY <1>0, <1>3 DEF Acquire, Holds
<1>4. CASE ReadRota(a) \/ CheckDrafted(a)
  BY <1>0, <1>1, <1>4 DEF ReadRota, CheckDrafted, Holds
<1>5. CASE ReadRow(a)
  BY <1>0, <1>5 DEF ReadRow, QueueOrSolve, Holds
<1>6. CASE ReadSeats(a)
  BY <1>0, <1>1, <1>6 DEF ReadSeats, QueueOrSolve, Holds
<1>7. CASE PickRota(a) \/ ReadInput(a)
  BY <1>0, <1>7 DEF PickRota, ReadInput, Holds
<1>8. CASE Abandon(a) \/ SolveFails(a) \/ CommitAllocation(a)
  BY <1>1, <1>8 DEF Abandon, SolveFails, CommitAllocation
<1>9. CASE StoreDraft(a) \/ RefuseAllocation(a) \/ InfeasibleAllocation(a)
  BY <1>1, <1>9 DEF StoreDraft, RefuseAllocation, InfeasibleAllocation, StoreSolve
<1> QED
  BY <1>2, <1>3, <1>4, <1>5, <1>6, <1>7, <1>8, <1>9 DEF Request

\* A request that works in the slot took it, and has not left it.
LEMMA OwnHold ==
    ASSUME TypeOK, SlotHeld, NEW a \in Admins, Request(a),
           \/ req'[a].at \in Solving
           \/ req'[a].job = "allocate" /\ req'[a].at \in {"rota", "row"}
    PROVE  Holds(a)'
<1>0. /\ ServerOf[a] \in Servers
      /\ slot \in [Servers -> Admins \cup {Free}]
      /\ req \in [Admins -> Requests] /\ req[a] \in Requests
  BY SlotAssumption DEF TypeOK
<1>1. ~Finish(a)
  BY <1>0 DEF Finish, IdleRequest, Solving
<1>2. ASSUME UNCHANGED slot, Holds(a) PROVE Holds(a)'
  BY <1>2 DEF Holds
<1>3. CASE StartRead(a) \/ StartSolve(a) \/ StartAllocate(a)
  BY <1>0, <1>3 DEF StartRead, StartSolve, StartAllocate, Requests, Solving
<1>4. CASE Acquire(a)
  BY <1>0, <1>4 DEF Acquire, Holds
<1>5. CASE ReadRota(a) \/ CheckDrafted(a)
  <2>1. UNCHANGED slot
    BY <1>1, <1>5 DEF ReadRota, CheckDrafted
  <2>2. CASE ReadRota(a)
    <3>1. PICK r \in Rotas :
            req' = [req EXCEPT ![a].at = "row", ![a].rota = r, ![a].stamp = stamp[r]]
      BY <1>1, <2>2 DEF ReadRota
    <3> DEFINE q == [req[a] EXCEPT !.at = "row", !.rota = r, !.stamp = stamp[r]]
    <3>2. q.job = req[a].job /\ q.at = "row"
      BY <1>0 DEF Requests
    <3>3. req' = [req EXCEPT ![a] = q]
      BY <1>0, <3>1
    <3>4. req[a].at = "rota"
      BY <2>2 DEF ReadRota
    <3> HIDE DEF q
    <3>5. req[a].job = "allocate"
      BY <1>0, <3>2, <3>3 DEF Solving
    <3> QED
      BY <1>2, <2>1, <3>4, <3>5 DEF SlotHeld
  <2>3. CASE CheckDrafted(a)
    BY <1>2, <2>1, <2>3 DEF CheckDrafted, SlotHeld
  <2> QED
    BY <1>5, <2>2, <2>3
<1>6. ASSUME NEW status, QueueOrSolve(a, status) PROVE Holds(a)'
  <2>1. CASE Holds(a)
    BY <1>2, <1>6, <2>1 DEF QueueOrSolve
  <2>2. CASE ~Holds(a)
    BY <1>0, <1>6, <2>2 DEF QueueOrSolve, IdleRequest, Solving
  <2> QED
    BY <2>1, <2>2
<1>7. CASE ReadRow(a)
  BY <1>0, <1>6, <1>7 DEF ReadRow, Requests, Solving
<1>8. CASE ReadSeats(a)
  BY <1>1, <1>6, <1>8 DEF ReadSeats
<1>9. CASE PickRota(a) \/ ReadInput(a)
  BY <1>2, <1>9 DEF PickRota, ReadInput, SlotHeld, Solving
<1>10. ~(Abandon(a) \/ SolveFails(a) \/ CommitAllocation(a))
  BY <1>1 DEF Abandon, SolveFails, CommitAllocation
<1>11. ~(StoreDraft(a) \/ RefuseAllocation(a) \/ InfeasibleAllocation(a))
  BY <1>1 DEF StoreDraft, RefuseAllocation, InfeasibleAllocation, StoreSolve
<1> QED
  BY <1>3, <1>4, <1>5, <1>7, <1>8, <1>9, <1>10, <1>11 DEF Request

LEMMA SlotHeldNext ==
    ASSUME TypeOK, SlotHeld, [Next]_vars
    PROVE  SlotHeld'
<1>1. ASSUME NEW a \in Admins, Request(a) PROVE SlotHeld'
  BY <1>1, OthersHold, OwnHold DEF SlotHeld
<1>2. ASSUME UNCHANGED <<slot, req>> PROVE SlotHeld'
  BY <1>2 DEF SlotHeld, Holds
<1>3. ASSUME NEW s \in Servers, Restart(s) PROVE SlotHeld'
  BY <1>3, SlotAssumption DEF Restart, SlotHeld, Holds, IdleRequest, Solving, TypeOK
<1>4. ASSUME NEW e \in Editors, Edit(e) PROVE SlotHeld'
  <2>1. CASE CommitSharedEdit(e)
    <3>1. UNCHANGED slot
      BY <2>1 DEF CommitSharedEdit
    <3>2. \A a \in Admins : req'[a].at = req[a].at /\ req'[a].job = req[a].job
      BY <2>1, SharedEdit DEF SameRequest
    <3> QED
      BY <3>1, <3>2 DEF SlotHeld, Holds
  <2> QED
    BY <1>2, <1>4, <2>1 DEF Edit, BeginEdit, CommitOwnEdit, FindRotas, RollBackEdit
<1>5. CASE MoveUnstamped
  BY <1>2, <1>5 DEF MoveUnstamped
<1>6. ASSUME NEW d \in Definers, CheckDefine(d) \/ InsertRota(d) \/ AbandonDefine(d)
      PROVE  SlotHeld'
  BY <1>2, <1>6 DEF CheckDefine, InsertRota, AbandonDefine
<1>7. ASSUME NEW r \in Rotas, DiscardRota(r) PROVE SlotHeld'
  BY <1>2, <1>7 DEF DiscardRota
<1>8. CASE UNCHANGED vars
  BY <1>2, <1>8 DEF vars
<1> QED
  BY <1>1, <1>3, <1>4, <1>5, <1>6, <1>7, <1>8 DEF Next

\* A request that has read nothing, or has not started to solve, says so.
LEMMA RequestsInOrderNext ==
    ASSUME TypeOK, RequestsInOrder, [Next]_vars
    PROVE  RequestsInOrder'
<1>0. req \in [Admins -> Requests]
  BY DEF TypeOK
<1>1. ASSUME NEW a \in Admins, Request(a) PROVE RequestsInOrder'
  <2>1. Effect(a)
    BY <1>1, RequestEffect
  <2>2. ReadInput(a) => req'[a].at \in {"inputs", "search"}
    BY <1>0 DEF ReadInput, Requests
  <2>3. \A r \in Rotas : rota[r] # "undefined" => rota'[r] # "undefined"
    BY <2>1 DEF Effect
  <2>4. \A b \in Admins : req[b].at \in OnRota => req[b].rota \in Rotas
    BY DEF TypeOK, WellFormed
  <2> QED
    BY <2>1, <2>2, <2>3, <2>4 DEF Effect, RequestsInOrder
<1>2. ASSUME \A b \in Admins : /\ req'[b].at = req[b].at /\ req'[b].seen = req[b].seen
                                 /\ req'[b].rota = req[b].rota,
             \A r \in Rotas : rota[r] # "undefined" => rota'[r] # "undefined"
      PROVE  RequestsInOrder'
  <2>1. \A b \in Admins : req[b].at \in OnRota => req[b].rota \in Rotas
    BY DEF TypeOK, WellFormed
  <2> QED
    BY <1>2, <2>1 DEF RequestsInOrder
<1>3. ASSUME UNCHANGED <<rota, req>> PROVE RequestsInOrder'
  BY <1>2, <1>3
<1>4. ASSUME NEW e \in Editors, Edit(e) PROVE RequestsInOrder'
  <2>1. CASE CommitSharedEdit(e)
    <3>1. UNCHANGED rota
      BY <2>1 DEF CommitSharedEdit
    <3> QED
      BY <1>2, <2>1, <3>1, SharedEdit DEF SameRequest
  <2> QED
    BY <1>3, <1>4, <2>1 DEF Edit, BeginEdit, CommitOwnEdit, FindRotas, RollBackEdit, db
<1>5. CASE MoveUnstamped
  BY <1>3, <1>5 DEF MoveUnstamped
<1>6. ASSUME NEW d \in Definers, CheckDefine(d) \/ AbandonDefine(d)
      PROVE  RequestsInOrder'
  BY <1>3, <1>6 DEF CheckDefine, AbandonDefine, db
<1>7. ASSUME NEW d \in Definers, InsertRota(d) PROVE RequestsInOrder'
  BY <1>2, <1>7 DEF InsertRota, TypeOK
<1>8. ASSUME NEW r \in Rotas, DiscardRota(r) PROVE RequestsInOrder'
  BY <1>2, <1>8 DEF DiscardRota, TypeOK
<1>9. ASSUME NEW s \in Servers, Restart(s) PROVE RequestsInOrder'
  BY <1>0, <1>9 DEF Restart, RequestsInOrder, db, IdleRequest, OnRota
<1>10. CASE UNCHANGED vars
  BY <1>3, <1>10 DEF vars
<1> QED
  BY <1>1, <1>4, <1>5, <1>6, <1>7, <1>8, <1>9, <1>10 DEF Next

\* A draft exists only for an unallocated rota: a store locks the rota, and
\* whatever takes the rota out of flight takes the draft with it.
LEMMA DraftOnlyInFlightNext ==
    ASSUME TypeOK, RequestsInOrder, DraftOnlyInFlight, [Next]_vars
    PROVE  DraftOnlyInFlight'
<1>0. /\ rota \in [Rotas -> {"undefined", "unallocated", "allocated", "discarded"}]
      /\ draft \in [Rotas -> Drafts \cup {None}]
  BY DEF TypeOK
<1>1. ASSUME NEW a \in Admins, Request(a) PROVE DraftOnlyInFlight'
  BY <1>1, RequestEffect DEF Effect, DraftOnlyInFlight
<1>2. ASSUME UNCHANGED <<rota, draft>> PROVE DraftOnlyInFlight'
  BY <1>2 DEF DraftOnlyInFlight
<1>3. ASSUME NEW e \in Editors, Edit(e) PROVE DraftOnlyInFlight'
  BY <1>2, <1>3 DEF Edit, BeginEdit, CommitOwnEdit, CommitSharedEdit, FindRotas, RollBackEdit, db
<1>4. CASE MoveUnstamped
  BY <1>2, <1>4 DEF MoveUnstamped
<1>5. ASSUME NEW d \in Definers, CheckDefine(d) \/ AbandonDefine(d)
      PROVE  DraftOnlyInFlight'
  BY <1>2, <1>5 DEF CheckDefine, AbandonDefine, db
<1>6. ASSUME NEW d \in Definers, InsertRota(d) PROVE DraftOnlyInFlight'
  BY <1>0, <1>6 DEF InsertRota, DraftOnlyInFlight
<1>7. ASSUME NEW r \in Rotas, DiscardRota(r) PROVE DraftOnlyInFlight'
  BY <1>0, <1>7 DEF DiscardRota, DropDraft, DraftOnlyInFlight
<1>8. ASSUME NEW s \in Servers, Restart(s) PROVE DraftOnlyInFlight'
  BY <1>2, <1>8 DEF Restart, db
<1>9. CASE UNCHANGED vars
  BY <1>2, <1>9 DEF vars
<1> QED
  BY <1>1, <1>3, <1>4, <1>5, <1>6, <1>7, <1>8, <1>9 DEF Next

-----------------------------------------------------------------------------
(* Stamps: an open transaction's start is nobody's stamp until it commits. *)

LEMMA StampsAreNumbers ==
    ASSUME TypeOK
    PROVE  /\ clock \in Nat
           /\ \A e \in Editors : txn[e] \in Nat
           /\ \A r \in Rotas : stamp[r] \in Nat
           /\ \A r \in Rotas : draft[r] # None =>
                 draft[r].stamp \in Nat /\ draft[r].from \in Inputs
           /\ \A a \in Admins : req[a].stamp \in Nat
BY ClockAssumption DEF TypeOK, Stamps, Drafts, Requests

LEMMA StampsFreshNext ==
    ASSUME TypeOK, RequestsInOrder, StampsFresh, StampsPast, [Next]_vars
    PROVE  StampsFresh'
<1>0. /\ txn \in [Editors -> Stamps] /\ stamp \in [Rotas -> Stamps]
      /\ draft \in [Rotas -> Drafts \cup {None}] /\ req \in [Admins -> Requests]
  BY DEF TypeOK
<1>1. ASSUME NEW a \in Admins, Request(a) PROVE StampsFresh'
  <2>1. Effect(a)
    BY <1>1, RequestEffect
  <2>2. /\ UNCHANGED <<clock, txn, stamp>>
        /\ \A b \in Admins \ {a} : req'[b] = req[b]
        /\ \/ req'[a].stamp \in {0, req[a].stamp}
           \/ \E r \in Rotas : req'[a].stamp = stamp[r]
        /\ \A r \in Rotas : draft'[r] # None =>
              draft'[r] = draft[r] \/ draft'[r].stamp = req[a].stamp
    BY <2>1 DEF Effect
  <2>3. SUFFICES ASSUME NEW e \in Editors, txn[e] # 0
        PROVE  /\ \A r \in Rotas : draft'[r] # None => draft'[r].stamp # txn[e]
               /\ \A b \in Admins : req'[b].stamp # txn[e]
    BY <2>2 DEF StampsFresh
  <2> QED
    BY <2>2, <2>3 DEF StampsFresh
<1>2. ASSUME UNCHANGED <<clock, txn, stamp>>,
             \A r \in Rotas : draft'[r] \in {draft[r], None},
             \A a \in Admins : req'[a].stamp \in {0, req[a].stamp}
      PROVE  StampsFresh'
  BY <1>2 DEF StampsFresh
<1>3. ASSUME NEW e \in Editors, BeginEdit(e) PROVE StampsFresh'
  <2>1. /\ clock' = clock + 1 /\ txn' = [txn EXCEPT ![e] = clock + 1]
        /\ UNCHANGED <<stamp, draft, req>>
    BY <1>3 DEF BeginEdit, db
  <2> QED
    BY <1>0, <2>1, StampsAreNumbers DEF StampsFresh, StampsPast
<1>4. ASSUME NEW e \in Editors, CommitOwnEdit(e) \/ CommitSharedEdit(e)
      PROVE  StampsFresh'
  <2>1. /\ txn[e] # 0 /\ txn' = [txn EXCEPT ![e] = 0]
        /\ UNCHANGED <<clock, draft>>
        /\ \A r \in Rotas : stamp'[r] \in {stamp[r], txn[e]}
    BY <1>0, <1>4 DEF CommitOwnEdit, CommitSharedEdit, EndEdit
  <2>2. \A a \in Admins : req'[a].stamp = req[a].stamp
    BY <1>4, SharedEdit DEF CommitOwnEdit, SameRequest
  <2> QED
    BY <1>0, <2>1, <2>2, StampsAreNumbers DEF StampsFresh
<1>5. ASSUME NEW e \in Editors, RollBackEdit(e) PROVE StampsFresh'
  <2>1. txn' = [txn EXCEPT ![e] = 0] /\ UNCHANGED <<clock, stamp, draft, req>>
    BY <1>5 DEF RollBackEdit, EndEdit, db
  <2> QED
    BY <1>0, <2>1 DEF StampsFresh
<1>5f. ASSUME NEW e \in Editors, FindRotas(e) PROVE StampsFresh'
  BY <1>2, <1>5f DEF FindRotas, db
<1>6. CASE MoveUnstamped
  BY <1>2, <1>6 DEF MoveUnstamped, edits
<1>7. ASSUME NEW d \in Definers, CheckDefine(d) \/ InsertRota(d) \/ AbandonDefine(d)
      PROVE  StampsFresh'
  BY <1>2, <1>7 DEF CheckDefine, InsertRota, AbandonDefine, db
<1>8. ASSUME NEW r \in Rotas, DiscardRota(r) PROVE StampsFresh'
  <2>1. /\ UNCHANGED <<clock, txn, req>>
        /\ \A q \in Rotas : stamp'[q] \in {0, stamp[q]}
        /\ \A q \in Rotas : draft'[q] \in {draft[q], None}
    BY <1>0, <1>8 DEF DiscardRota, DropDraft
  <2> QED
    BY <2>1 DEF StampsFresh
<1>9. ASSUME NEW s \in Servers, Restart(s) PROVE StampsFresh'
  BY <1>0, <1>2, <1>9 DEF Restart, db, edits, IdleRequest
<1>10. CASE UNCHANGED vars
  BY <1>2, <1>10 DEF vars
<1> QED
  BY <1>1, <1>3, <1>4, <1>5, <1>5f, <1>6, <1>7, <1>8, <1>9, <1>10 DEF Next, Edit

LEMMA StampsPastNext ==
    ASSUME TypeOK, RequestsInOrder, StampsFresh, StampsPast, [Next]_vars
    PROVE  StampsPast'
<1>0. /\ txn \in [Editors -> Stamps] /\ stamp \in [Rotas -> Stamps]
      /\ rota \in [Rotas -> {"undefined", "unallocated", "allocated", "discarded"}]
      /\ draft \in [Rotas -> Drafts \cup {None}] /\ req \in [Admins -> Requests]
  BY DEF TypeOK
<1>1. ASSUME NEW a \in Admins, Request(a) PROVE StampsPast'
  <2>1. Effect(a)
    BY <1>1, RequestEffect
  <2>2. /\ UNCHANGED <<clock, stamp>>
        /\ \A b \in Admins \ {a} : req'[b] = req[b]
        /\ \/ req'[a].stamp \in {0, req[a].stamp}
           \/ \E r \in Rotas : req'[a].stamp = stamp[r]
        /\ \A r \in Rotas : draft'[r] # None =>
              draft'[r] = draft[r] \/ draft'[r].stamp = req[a].stamp
        /\ \A r \in Rotas : rota'[r] = "undefined" => rota[r] = "undefined"
    BY <2>1 DEF Effect
  <2>3. req'[a].stamp <= clock
    BY <2>2, StampsAreNumbers DEF StampsPast
  <2>4. \A r \in Rotas : draft'[r] # None => draft'[r].stamp <= clock
    BY <2>2 DEF StampsPast
  <2> QED
    BY <2>2, <2>3, <2>4 DEF StampsPast
<1>2. ASSUME UNCHANGED <<clock, stamp>>,
             \A r \in Rotas : rota'[r] = "undefined" => rota[r] = "undefined",
             \A r \in Rotas : draft'[r] \in {draft[r], None},
             \A a \in Admins : req'[a].stamp \in {0, req[a].stamp}
      PROVE  StampsPast'
  BY <1>2, StampsAreNumbers DEF StampsPast
<1>3. ASSUME NEW e \in Editors, BeginEdit(e) PROVE StampsPast'
  <2>1. clock' = clock + 1 /\ UNCHANGED <<rota, stamp, draft, req>>
    BY <1>3 DEF BeginEdit, db
  <2> QED
    BY <2>1, StampsAreNumbers DEF StampsPast
<1>4. ASSUME NEW e \in Editors, CommitOwnEdit(e) \/ CommitSharedEdit(e)
      PROVE  StampsPast'
  <2>1. txn[e] <= clock /\ UNCHANGED <<clock, rota, draft>>
    BY <1>4 DEF CommitOwnEdit, CommitSharedEdit, EndEdit, StampsFresh
  <2>2. \A r \in Rotas :
          stamp'[r] = stamp[r] \/ (stamp'[r] = txn[e] /\ rota[r] = "unallocated")
    BY <1>0, <1>4 DEF CommitOwnEdit, CommitSharedEdit, StampedBy, Unallocated
  <2>3. \A a \in Admins : req'[a].stamp = req[a].stamp
    BY <1>4, SharedEdit DEF CommitOwnEdit, SameRequest
  <2> QED
    BY <2>1, <2>2, <2>3 DEF StampsPast
<1>5. ASSUME NEW e \in Editors, RollBackEdit(e) PROVE StampsPast'
  BY <1>2, <1>5 DEF RollBackEdit, EndEdit, db
<1>5f. ASSUME NEW e \in Editors, FindRotas(e) PROVE StampsPast'
  BY <1>2, <1>5f DEF FindRotas, db
<1>6. CASE MoveUnstamped
  BY <1>2, <1>6 DEF MoveUnstamped, edits
<1>7. ASSUME NEW d \in Definers, CheckDefine(d) \/ AbandonDefine(d)
      PROVE  StampsPast'
  BY <1>2, <1>7 DEF CheckDefine, AbandonDefine, db
<1>8. ASSUME NEW d \in Definers, InsertRota(d) PROVE StampsPast'
  BY <1>0, <1>2, <1>8 DEF InsertRota
<1>9. ASSUME NEW r \in Rotas, DiscardRota(r) PROVE StampsPast'
  <2>1. /\ UNCHANGED <<clock, req>>
        /\ \A q \in Rotas : stamp'[q] \in {0, stamp[q]}
        /\ \A q \in Rotas : draft'[q] \in {draft[q], None}
        /\ \A q \in Rotas : rota'[q] = "undefined" => rota[q] = "undefined"
    BY <1>0, <1>9 DEF DiscardRota, DropDraft
  <2> QED
    BY <2>1, StampsAreNumbers DEF StampsPast
<1>10. ASSUME NEW s \in Servers, Restart(s) PROVE StampsPast'
  BY <1>0, <1>2, <1>10 DEF Restart, db, edits, IdleRequest
<1>11. CASE UNCHANGED vars
  BY <1>2, <1>11 DEF vars
<1> QED
  BY <1>1, <1>3, <1>4, <1>5, <1>5f, <1>6, <1>7, <1>8, <1>9, <1>10, <1>11 DEF Next, Edit

-----------------------------------------------------------------------------
(* Stamps and inputs: as long as the stamps agree, so do the inputs. *)

\* Whoever works on rota r, or drafted it, has missed a move of input k.
Unannounced(r, k) ==
    /\ draft[r] # None => k \in missed'[r]
    /\ \A a \in Admins : Reading(a, r) => k \in req'[a].missed

\* A stamped input of an unallocated rota moves with the rota's stamp, or in an edit
\* that did not find the rota, and then the rota's draft and every solve of it have
\* missed that input.  A new stamp is one that neither a solve in progress nor a draft
\* can carry.
LEMMA InputsMoveWithStamp ==
    ASSUME TypeOK, StampsFresh,
           \/ \E e \in Editors : Edit(e)
           \/ MoveUnstamped
           \/ \E d \in Definers : CheckDefine(d) \/ InsertRota(d) \/ AbandonDefine(d)
           \/ \E r \in Rotas : DiscardRota(r)
           \/ \E s \in Servers : Restart(s)
           \/ UNCHANGED vars,
           NEW r \in Rotas, rota'[r] = "unallocated"
    PROVE  \/ rota[r] = "undefined"
           \/ /\ rota[r] = "unallocated" /\ stamp'[r] = stamp[r]
              /\ \A k \in Stamped :
                    Current(r)'[k] = Current(r)[k] \/ Unannounced(r, k)
           \/ /\ \A a \in Admins : req[a].stamp # stamp'[r]
              /\ draft[r] # None => draft[r].stamp # stamp'[r]
<1>0. /\ rota \in [Rotas -> {"undefined", "unallocated", "allocated", "discarded"}]
      /\ stamp \in [Rotas -> Stamps]
      /\ own \in [Rotas -> [OwnKinds -> Values]] /\ shared \in [SharedKinds -> Values]
  BY DEF TypeOK
<1> DEFINE Goal ==
      \/ rota[r] = "undefined"
      \/ /\ rota[r] = "unallocated" /\ stamp'[r] = stamp[r]
         /\ \A k \in Stamped :
               Current(r)'[k] = Current(r)[k] \/ Unannounced(r, k)
      \/ /\ \A a \in Admins : req[a].stamp # stamp'[r]
         /\ draft[r] # None => draft[r].stamp # stamp'[r]
<1>1. ASSUME UNCHANGED <<rota, stamp>>, own'[r] = own[r], UNCHANGED shared
      PROVE  Goal
  BY <1>1 DEF Current
<1>2. ASSUME NEW e \in Editors, Edit(e) PROVE Goal
  <2>1. CASE BeginEdit(e) \/ FindRotas(e) \/ RollBackEdit(e)
    BY <1>1, <2>1 DEF BeginEdit, FindRotas, RollBackEdit, db
  <2>2. ASSUME stamp'[r] = txn[e], txn[e] # 0 PROVE Goal
    BY <2>2 DEF StampsFresh
  <2>3. CASE CommitOwnEdit(e)
    <3>1. PICK q \in Unallocated, k \in OwnKinds, v \in Values :
            own' = [own EXCEPT ![q][k] = v] /\ stamp' = [stamp EXCEPT ![q] = txn[e]]
      BY <2>3 DEF CommitOwnEdit
    <3>2. txn[e] # 0 /\ rota' = rota /\ shared' = shared
      BY <2>3 DEF CommitOwnEdit
    <3>3. CASE q = r
      BY <1>0, <2>2, <3>1, <3>2, <3>3
    <3>4. CASE q # r
      <4>1. own'[r] = own[r] /\ stamp'[r] = stamp[r]
        BY <1>0, <3>1, <3>4 DEF Unallocated
      <4> QED
        BY <3>2, <4>1 DEF Current
    <3> QED
      BY <3>3, <3>4
  <2>4. CASE CommitSharedEdit(e)
    <3>1. /\ r \in Unallocated /\ rota[r] = "unallocated"
          /\ own'[r] = own[r] /\ txn[e] # 0
          /\ stamp'[r] = IF r \in StampedBy(e) THEN txn[e] ELSE stamp[r]
      BY <2>4 DEF CommitSharedEdit, Unallocated
    <3>2. CASE r \in StampedBy(e)
      BY <2>2, <3>1, <3>2
    <3>3. CASE r \notin StampedBy(e)
      <4>1. r \in Overlooked(e)
        BY <3>1, <3>3 DEF StampedBy, Overlooked
      <4>2. PICK k \in SharedKinds :
              /\ \A j \in SharedKinds \ {k} : shared'[j] = shared[j]
              /\ Unannounced(r, k)
        BY <2>4, <4>1, SharedEdit DEF Unannounced
      <4>3. \A j \in Stamped : Current(r)'[j] = Current(r)[j] \/ j = k
        BY <3>1, <4>2 DEF Current, Stamped, Kinds
      <4> QED
        BY <3>1, <3>3, <4>2, <4>3
    <3> QED
      BY <3>2, <3>3
  <2> QED
    BY <1>2, <2>1, <2>3, <2>4 DEF Edit
<1>3. CASE MoveUnstamped
  <2>1. PICK j \in Unstamped, v \in Values : shared' = [shared EXCEPT ![j] = v]
    BY <1>3 DEF MoveUnstamped
  <2>2. UNCHANGED <<rota, stamp, own>>
    BY <1>3 DEF MoveUnstamped
  <2>3. \A k \in Stamped : k \in SharedKinds => shared'[k] = shared[k]
    BY <1>0, <2>1 DEF Stamped
  <2> QED
    BY <2>2, <2>3 DEF Current, Stamped, Kinds
<1>4. ASSUME NEW d \in Definers, CheckDefine(d) \/ AbandonDefine(d) PROVE Goal
  BY <1>1, <1>4 DEF CheckDefine, AbandonDefine, db
<1>5. ASSUME NEW d \in Definers, InsertRota(d) PROVE Goal
  <2>1. PICK q \in Rotas, inputs \in [OwnKinds -> Values] :
          /\ rota[q] = "undefined"
          /\ rota' = [rota EXCEPT ![q] = "unallocated"]
          /\ own' = [own EXCEPT ![q] = inputs]
    BY <1>5 DEF InsertRota
  <2>2. stamp' = stamp /\ shared' = shared
    BY <1>5 DEF InsertRota
  <2>3. CASE q = r
    BY <2>1, <2>3
  <2>4. CASE q # r
    <3>1. own'[r] = own[r] /\ rota[r] = "unallocated"
      BY <1>0, <2>1, <2>4
    <3> QED
      BY <2>2, <3>1 DEF Current
  <2> QED
    BY <2>3, <2>4
<1>6. ASSUME NEW q \in Rotas, DiscardRota(q) PROVE Goal
  <2>1. q # r
    BY <1>0, <1>6 DEF DiscardRota
  <2>2. /\ rota[r] = "unallocated" /\ stamp'[r] = stamp[r]
        /\ own'[r] = own[r] /\ shared' = shared
    BY <1>0, <1>6, <2>1 DEF DiscardRota
  <2> QED
    BY <2>2 DEF Current
<1>7. ASSUME NEW s \in Servers, Restart(s) PROVE Goal
  BY <1>1, <1>7 DEF Restart, db
<1>8. CASE UNCHANGED vars
  BY <1>1, <1>8 DEF vars
<1> QED
  BY <1>2, <1>3, <1>4, <1>5, <1>6, <1>7, <1>8

\* No step but a request's own changes what it has read, except by ending it; and
\* what has been missed is missed for as long as the draft stands.
LEMMA RequestsStandStill ==
    ASSUME TypeOK,
           \/ \E e \in Editors : Edit(e)
           \/ MoveUnstamped
           \/ \E d \in Definers : CheckDefine(d) \/ InsertRota(d) \/ AbandonDefine(d)
           \/ \E r \in Rotas : DiscardRota(r)
           \/ \E s \in Servers : Restart(s)
           \/ UNCHANGED vars
    PROVE  /\ \A a \in Admins : SameRequest(a) \/ req'[a].at = "idle"
           /\ \A r \in Rotas :
                 \/ draft'[r] = None
                 \/ draft'[r] = draft[r] /\ missed[r] \subseteq missed'[r]
<1>0. /\ draft \in [Rotas -> Drafts \cup {None}] /\ req \in [Admins -> Requests]
      /\ missed \in [Rotas -> SUBSET SharedKinds]
  BY DEF TypeOK
<1> DEFINE Kept == \A r \in Rotas :
                     \/ draft'[r] = None
                     \/ draft'[r] = draft[r] /\ missed[r] \subseteq missed'[r]
           Still == \A a \in Admins : SameRequest(a) \/ req'[a].at = "idle"
<1>1. CASE UNCHANGED <<draft, missed, req>>
  BY <1>1 DEF SameRequest
<1>2. ASSUME NEW r \in Rotas, DiscardRota(r) PROVE Still /\ Kept
  BY <1>0, <1>2 DEF DiscardRota, DropDraft, SameRequest
<1>3. ASSUME NEW s \in Servers, Restart(s) PROVE Still /\ Kept
  BY <1>0, <1>3 DEF Restart, db, edits, IdleRequest, SameRequest
<1>4. ASSUME NEW e \in Editors, CommitSharedEdit(e) PROVE Still /\ Kept
  <2>1. Still
    BY <1>4, SharedEdit
  <2>2. draft' = draft /\ \A r \in Rotas : missed[r] \subseteq missed'[r]
    BY <1>4 DEF CommitSharedEdit
  <2> QED
    BY <2>1, <2>2
<1> HIDE DEF Kept, Still
<1>5. CASE \/ \E e \in Editors : BeginEdit(e) \/ CommitOwnEdit(e) \/ FindRotas(e)
                                \/ RollBackEdit(e)
           \/ MoveUnstamped
           \/ \E d \in Definers : CheckDefine(d) \/ InsertRota(d) \/ AbandonDefine(d)
           \/ UNCHANGED vars
  <2>1. UNCHANGED <<draft, missed, req>>
    BY <1>5 DEF BeginEdit, CommitOwnEdit, FindRotas, RollBackEdit, MoveUnstamped,
       CheckDefine, InsertRota, AbandonDefine, db, edits, vars
  <2> QED
    BY <1>1, <2>1 DEF Kept, Still
<1>6. Still /\ Kept
  BY <1>2, <1>3, <1>4, <1>5 DEF Edit, Kept, Still
<1> QED
  BY <1>6 DEF Kept, Still

LEMMA SolveSeesCurrentNext ==
    ASSUME TypeOK, RequestsInOrder, StampsFresh, SolveSeesCurrent, [Next]_vars
    PROVE  SolveSeesCurrent'
<1>1. ASSUME NEW a \in Admins, Request(a) PROVE SolveSeesCurrent'
  <2>1. Effect(a)
    BY <1>1, RequestEffect
  <2>2. /\ UNCHANGED <<stamp, own, shared>>
        /\ \A b \in Admins \ {a} : req'[b] = req[b]
        /\ \A r \in Rotas : rota'[r] = "unallocated" => rota[r] = "unallocated"
    BY <2>1 DEF Effect
  <2>3. \A r : Current(r)' = Current(r)
    BY <2>2 DEF Current
  <2>4. SUFFICES ASSUME NEW b \in Admins, req'[b].at \in {"inputs", "search"},
                        rota'[req'[b].rota] = "unallocated",
                        req'[b].stamp = stamp[req'[b].rota],
                        NEW k \in Stamped \ req'[b].missed
                 PROVE  req'[b].seen[k] \in {Unread, Current(req'[b].rota)[k]}
    BY <2>2, <2>3 DEF SolveSeesCurrent
  <2>5. CASE b # a
    <3>1. req'[b] = req[b]
      BY <2>2, <2>5
    <3>2. req[b].rota \in Rotas
      BY <2>4, <3>1 DEF TypeOK, WellFormed, OnRota
    <3> QED
      BY <2>2, <2>4, <3>1, <3>2 DEF SolveSeesCurrent
  <2>6. CASE b = a /\ req'[a].seen = NothingRead
    BY <2>6 DEF NothingRead, Stamped
  <2>7. CASE b = a /\ ReadInput(a)
    <3>0. req \in [Admins -> Requests] /\ req[a] \in Requests
      BY DEF TypeOK
    <3>1. PICK j \in Kinds :
            req' = [req EXCEPT
                      ![a].seen[j] = Current(req[a].rota)[j],
                      ![a].at = IF AllRead(req[a].seen, j) THEN "search" ELSE "inputs"]
      BY <2>7 DEF ReadInput
    <3> DEFINE q == [req[a] EXCEPT
                      !.seen[j] = Current(req[a].rota)[j],
                      !.at = IF AllRead(req[a].seen, j) THEN "search" ELSE "inputs"]
    <3>2. req' = [req EXCEPT ![a] = q]
      BY <3>0, <3>1
    <3>3. /\ q.rota = req[a].rota /\ q.stamp = req[a].stamp
          /\ q.seen = [req[a].seen EXCEPT ![j] = Current(req[a].rota)[j]]
          /\ q.missed = req[a].missed
      BY <3>0 DEF Requests
    <3>4. req[a].seen \in [Kinds -> Values \cup {Unread}]
      BY <3>0 DEF Requests
    <3> HIDE DEF q
    <3>5. /\ req'[a].rota = req[a].rota /\ req'[a].stamp = req[a].stamp
          /\ req'[a].missed = req[a].missed
          /\ req'[a].seen[k] \in {req[a].seen[k], Current(req[a].rota)[k]}
      BY <3>0, <3>2, <3>3, <3>4 DEF Stamped
    <3>6. req[a].at = "inputs" /\ req[a].rota \in Rotas
      BY <2>7 DEF ReadInput, TypeOK, WellFormed, OnRota
    <3> QED
      BY <2>2, <2>4, <2>7, <3>5, <3>6 DEF SolveSeesCurrent
  <2> QED
    BY <2>1, <2>5, <2>6, <2>7 DEF Effect
<1>2. ASSUME \/ \E e \in Editors : Edit(e)
             \/ MoveUnstamped
             \/ \E d \in Definers : CheckDefine(d) \/ InsertRota(d) \/ AbandonDefine(d)
             \/ \E r \in Rotas : DiscardRota(r)
             \/ \E s \in Servers : Restart(s)
             \/ UNCHANGED vars
      PROVE  SolveSeesCurrent'
  <2>1. SUFFICES ASSUME NEW b \in Admins, NEW r, r = req'[b].rota,
                        req'[b].at \in {"inputs", "search"},
                        rota'[r] = "unallocated", req'[b].stamp = stamp'[r],
                        NEW k \in Stamped \ req'[b].missed
                 PROVE  req'[b].seen[k] \in {Unread, Current(r)'[k]}
    BY DEF SolveSeesCurrent, Current
  <2>2. SameRequest(b)
    BY <1>2, <2>1, RequestsStandStill
  <2>3. /\ r = req[b].rota /\ r \in Rotas /\ rota[r] # "undefined"
        /\ req[b].at \in {"inputs", "search"} /\ req[b].stamp = stamp'[r]
        /\ req'[b].seen = req[b].seen /\ k \notin req[b].missed
    BY <2>1, <2>2 DEF SameRequest, TypeOK, WellFormed, OnRota, RequestsInOrder
  <2>4. /\ rota[r] = "unallocated" /\ stamp'[r] = stamp[r]
        /\ \A j \in Stamped : Current(r)'[j] = Current(r)[j] \/ Unannounced(r, j)
    BY <1>2, <2>1, <2>3, InputsMoveWithStamp
  <2>4a. Current(r)'[k] = Current(r)[k]
    BY <2>1, <2>3, <2>4 DEF Unannounced, Reading
  <2>5. req[b].seen[k] \in {Unread, Current(r)[k]}
    BY <2>1, <2>3, <2>4 DEF SolveSeesCurrent
  <2> QED
    BY <2>3, <2>4a, <2>5
<1> QED
  BY <1>1, <1>2 DEF Next

\* A draft that reads as clean was solved from the stamped inputs as they stand.
LEMMA CleanDraftSpeaksNext ==
    ASSUME TypeOK, RequestsInOrder, StampsFresh, SolveSeesCurrent,
           DraftOnlyInFlight, CleanDraftSpeaks, [Next]_vars
    PROVE  CleanDraftSpeaks'
<1>0. /\ DraftOnlyInFlight'
      /\ draft \in [Rotas -> Drafts \cup {None}]
  BY DraftOnlyInFlightNext DEF TypeOK
<1>1. SUFFICES ASSUME NEW r \in Rotas, draft'[r] # None,
                      draft'[r].stamp = stamp'[r], NEW k \in Stamped \ missed'[r]
               PROVE  draft'[r].from[k] = Current(r)'[k]
  BY DEF CleanDraftSpeaks, Clean, Current
<1>2. rota'[r] = "unallocated"
  BY <1>0, <1>1 DEF DraftOnlyInFlight
<1>3. ASSUME NEW a \in Admins, Request(a)
      PROVE  draft'[r].from[k] = Current(r)'[k]
  <2>1. Effect(a)
    BY <1>3, RequestEffect
  <2>2. Current(r)' = Current(r) /\ stamp'[r] = stamp[r]
    BY <2>1 DEF Effect, Current
  <2>3. CASE draft'[r] = draft[r] /\ missed'[r] = missed[r]
    BY <1>1, <2>2, <2>3 DEF CleanDraftSpeaks, Clean
  <2>4. CASE ~(draft'[r] = draft[r] /\ missed'[r] = missed[r])
    <3>1. /\ draft'[r] = [stamp |-> req[a].stamp, from |-> req[a].seen]
          /\ missed'[r] = req[a].missed
          /\ req[a].at = "search" /\ req[a].rota = r /\ rota[r] = "unallocated"
      BY <1>1, <2>1, <2>4 DEF Effect
    <3>2. draft'[r].stamp = req[a].stamp /\ draft'[r].from = req[a].seen
      BY <3>1
    <3>3. req[a].seen[k] \in {Unread, Current(r)[k]}
      BY <1>1, <2>2, <3>1, <3>2 DEF SolveSeesCurrent
    <3>4. req[a].seen[k] # Unread
      BY <3>1, KindsAssumption DEF TypeOK, WellFormed, Inputs, Stamped
    <3> QED
      BY <2>2, <3>2, <3>3, <3>4
  <2> QED
    BY <2>3, <2>4
<1>4. ASSUME \/ \E e \in Editors : Edit(e)
             \/ MoveUnstamped
             \/ \E d \in Definers : CheckDefine(d) \/ InsertRota(d) \/ AbandonDefine(d)
             \/ \E q \in Rotas : DiscardRota(q)
             \/ \E s \in Servers : Restart(s)
             \/ UNCHANGED vars
      PROVE  draft'[r].from[k] = Current(r)'[k]
  <2>1. draft'[r] = draft[r] /\ k \notin missed[r]
    BY <1>1, <1>4, RequestsStandStill
  <2>2. rota[r] # "undefined"
    BY <1>1, <2>1 DEF DraftOnlyInFlight
  <2>3. /\ rota[r] = "unallocated" /\ stamp'[r] = stamp[r]
        /\ \A j \in Stamped : Current(r)'[j] = Current(r)[j] \/ Unannounced(r, j)
    BY <1>1, <1>2, <1>4, <2>1, <2>2, InputsMoveWithStamp
  <2>4. Current(r)'[k] = Current(r)[k]
    BY <1>1, <2>1, <2>3 DEF Unannounced
  <2> QED
    BY <1>1, <2>1, <2>3, <2>4 DEF CleanDraftSpeaks, Clean
<1> QED
  BY <1>3, <1>4 DEF Next

-----------------------------------------------------------------------------
(* The theorems. *)

LEMMA IndInvInit == Init => IndInv
<1> SUFFICES ASSUME Init PROVE IndInv
  OBVIOUS
<1>1. TypeOK
  BY TypeInit
<1>2. \A a \in Admins : req[a] = IdleRequest
  BY DEF Init
<1>3. SlotHeld /\ RequestsInOrder /\ SolveSeesCurrent
  BY <1>2 DEF IdleRequest, SlotHeld, RequestsInOrder, SolveSeesCurrent, Solving, OnRota
<1>4. StampsFresh
  BY DEF Init, StampsFresh
<1>5. StampsPast
  BY <1>2 DEF Init, IdleRequest, StampsPast
<1>6. DraftOnlyInFlight /\ CleanDraftSpeaks
  BY DEF Init, DraftOnlyInFlight, CleanDraftSpeaks
<1> QED
  BY <1>1, <1>3, <1>4, <1>5, <1>6 DEF IndInv

LEMMA IndInvNext == IndInv /\ [Next]_vars => IndInv'
<1> SUFFICES ASSUME IndInv, [Next]_vars PROVE IndInv'
  OBVIOUS
<1> USE DEF IndInv
<1>1. TypeOK'
  BY TypeNext
<1>2. SlotHeld' /\ RequestsInOrder'
  BY SlotHeldNext, RequestsInOrderNext
<1>3. StampsFresh' /\ StampsPast'
  BY StampsFreshNext, StampsPastNext
<1>4. SolveSeesCurrent' /\ DraftOnlyInFlight' /\ CleanDraftSpeaks'
  BY SolveSeesCurrentNext, DraftOnlyInFlightNext, CleanDraftSpeaksNext
<1> QED
  BY <1>1, <1>2, <1>3, <1>4

\* The invariant the theorems below rest on: who holds a slot, what a request has
\* read, and which stamps are still to come.
THEOREM Inductive == Spec => []IndInv
BY IndInvInit, IndInvNext, PTL DEF Spec

\* A draft that reads as clean was solved from the stamped inputs as they stand
\* (rotaSolve.draft and DraftRotaAllocationInFlight): equality of the two stamps
\* is enough, in whatever order edits commit and however long a solve takes.
THEOREM CleanDraft == Spec => []CleanDraftSpeaks
<1>1. IndInv => CleanDraftSpeaks
  BY DEF IndInv
<1> QED
  BY Inductive, <1>1, PTL

\* Only a rota in flight has a draft (ReplaceDraftRotaAllocation,
\* InsertAllocationsAndSetAllocated, DiscardRota): no solve that outlives its
\* rota writes one back.
THEOREM DraftInFlight == Spec => []DraftOnlyInFlight
<1>1. IndInv => DraftOnlyInFlight
  BY DEF IndInv
<1> QED
  BY Inductive, <1>1, PTL

\* A server solves for one request at a time (draftSolves.acquire and release).
THEOREM OneSolve == Spec => []OneSolveAtATime
<1>1. IndInv => OneSolveAtATime
  BY DEF IndInv, SlotHeld, Holds, OneSolveAtATime
<1> QED
  BY Inductive, <1>1, PTL

-----------------------------------------------------------------------------
(* DraftRotaAllocation implements ConfirmedRota. *)

\* A request shows its admin a seating, or nothing, or allocates what it showed.
LEMMA RequestConfirms ==
    ASSUME TypeOK, NEW a \in Admins, Request(a)
    PROVE  [Confirmed!Next]_(Confirmed!vars)
<1>0. req[a] \in Requests /\ screen \in [Admins -> Statuses]
  BY DEF TypeOK
<1>1. ASSUME UNCHANGED <<rota, allocation, screen>>
      PROVE  [Confirmed!Next]_(Confirmed!vars)
  BY <1>1 DEF Confirmed!vars
<1>2. ASSUME NEW s \in Statuses, Show(a, s), UNCHANGED <<rota, allocation>>
      PROVE  [Confirmed!Next]_(Confirmed!vars)
  <2>1. CASE s = NoDraft
    BY <1>2, <2>1 DEF Show, Confirmed!Next, Confirmed!ShowNone, Confirmed!NoDraft,
       NoDraft, Status
  <2>2. CASE s # NoDraft
    <3>1. /\ s.rota \in Rotas /\ s.seats \in SeatingsOf[s.rota]
          /\ s = [rota |-> s.rota, seats |-> s.seats]
      BY <2>2 DEF Statuses
    <3>2. Confirmed!Show(a, s.rota)
      BY <1>2, <3>1 DEF Show, Confirmed!Show
    <3> QED
      BY <3>1, <3>2 DEF Confirmed!Next
  <2> QED
    BY <2>1, <2>2
<1>3. CASE StartRead(a) \/ StartSolve(a) \/ StartAllocate(a) \/ Acquire(a) \/ Abandon(a)
           \/ ReadRota(a) \/ CheckDrafted(a) \/ PickRota(a) \/ ReadInput(a)
  BY <1>1, <1>3 DEF StartRead, StartSolve, StartAllocate, Acquire, Abandon,
     ReadRota, CheckDrafted, PickRota, ReadInput, db
<1>4. CASE ReadRow(a)
  BY <1>1, <1>4 DEF ReadRow, QueueOrSolve, db
<1>5. CASE ReadSeats(a)
  <2>1. UNCHANGED <<rota, allocation>>
    BY <1>5 DEF ReadSeats, db
  <2> DEFINE s == Status(req[a].rota, StoredSeats(req[a].rota))
  <2>2. Show(a, s) \/ UNCHANGED screen
    BY <1>5 DEF ReadSeats, QueueOrSolve
  <2>0. req[a].rota \in Rotas
    BY <1>5 DEF ReadSeats, TypeOK, WellFormed, OnRota
  <2>3. s \in Statuses
    BY <2>0, SeatsType, StatusType
  <2> HIDE DEF s
  <2> QED
    BY <2>1, <2>2, <2>3, <1>1, <1>2
<1>6. CASE SolveFails(a)
  <2>1. UNCHANGED <<rota, allocation>>
    BY <1>6 DEF SolveFails, db
  <2>2. Show(a, req[a].status) \/ UNCHANGED screen
    BY <1>6 DEF SolveFails, Show
  <2>3. req[a].status \in Statuses
    BY <1>0 DEF Requests
  <2> QED
    BY <2>1, <2>2, <2>3, <1>1, <1>2
<1>7. CASE StoreDraft(a)
  <2>1. UNCHANGED <<rota, allocation>>
    BY <1>7 DEF StoreDraft, StoreSolve
  <2> DEFINE s == Status(req[a].rota, SeatsOf(Answer(a)))
  <2>2. Show(a, s) \/ UNCHANGED screen
    BY <1>7 DEF StoreDraft, Heard
  <2>3. s \in Statuses
    BY <1>7, AnswerSeats, StatusType DEF StoreDraft
  <2> HIDE DEF s
  <2> QED
    BY <2>1, <2>2, <2>3, <1>1, <1>2
<1>8. CASE RefuseAllocation(a)
  <2>1. UNCHANGED <<rota, allocation>>
    BY <1>8 DEF RefuseAllocation, StoreSolve
  <2> DEFINE s == Status(req[a].rota, Answer(a))
  <2>2. Show(a, s) \/ UNCHANGED screen
    BY <1>8 DEF RefuseAllocation, Heard
  <2>3. s \in Statuses
    BY <1>8, AnswerSeats, StatusType DEF RefuseAllocation
  <2> HIDE DEF s
  <2> QED
    BY <2>1, <2>2, <2>3, <1>1, <1>2
<1>9. CASE InfeasibleAllocation(a)
  BY <1>1, <1>9 DEF InfeasibleAllocation, StoreSolve
<1>10. CASE CommitAllocation(a)
  <2> DEFINE r == req[a].rota
  <2>1. /\ rota[r] = "unallocated"
        /\ rota' = [rota EXCEPT ![r] = "allocated"]
        /\ allocation' = [allocation EXCEPT ![r] = screen[a].seats]
        /\ screen' = screen
    BY <1>10 DEF CommitAllocation, SolvedRota, ConfirmedShown, LockUnallocated
  <2>2. r \in Rotas /\ screen[a].seats \in SeatingsOf[r] /\ screen[a].seats # None
    BY <1>10, AnswerSeats, SolveAssumption DEF CommitAllocation, ConfirmedShown
  <2>3. screen[a] # NoDraft
    BY <2>2 DEF NoDraft, Status
  <2>3a. /\ screen[a].rota \in Rotas
         /\ screen[a].seats \in SeatingsOf[screen[a].rota]
    BY <1>0, <2>3 DEF Statuses
  <2>3b. screen[a].rota = r \/ screen[a].seats = NoSeats
    BY <2>2, <2>3a, HashAssumption
  <2>4. Confirmed!Allocate(a, r)
    BY <2>1, <2>3, <2>3b
       DEF Confirmed!Allocate, Confirmed!ShownFor, Confirmed!NoDraft, NoDraft, Status
  <2> QED
    BY <2>2, <2>4 DEF Confirmed!Next
<1> QED
  BY <1>3, <1>4, <1>5, <1>6, <1>7, <1>8, <1>9, <1>10 DEF Request

LEMMA StepConfirms == TypeOK /\ [Next]_vars => [Confirmed!Next]_(Confirmed!vars)
<1> SUFFICES ASSUME TypeOK, [Next]_vars PROVE [Confirmed!Next]_(Confirmed!vars)
  OBVIOUS
<1>1. ASSUME UNCHANGED <<rota, allocation, screen>>
      PROVE  [Confirmed!Next]_(Confirmed!vars)
  BY <1>1 DEF Confirmed!vars
<1>2. ASSUME NEW a \in Admins, Request(a) PROVE [Confirmed!Next]_(Confirmed!vars)
  BY <1>2, RequestConfirms
<1>3. ASSUME NEW e \in Editors, Edit(e) PROVE [Confirmed!Next]_(Confirmed!vars)
  BY <1>1, <1>3 DEF Edit, BeginEdit, CommitOwnEdit, CommitSharedEdit, FindRotas, RollBackEdit, db
<1>4. CASE MoveUnstamped
  BY <1>1, <1>4 DEF MoveUnstamped
<1>5. ASSUME NEW d \in Definers, CheckDefine(d) \/ AbandonDefine(d)
      PROVE  [Confirmed!Next]_(Confirmed!vars)
  BY <1>1, <1>5 DEF CheckDefine, AbandonDefine, db
<1>6. ASSUME NEW d \in Definers, InsertRota(d) PROVE [Confirmed!Next]_(Confirmed!vars)
  <2>1. PICK r \in Rotas : Confirmed!Define(r)
    BY <1>6 DEF InsertRota, Confirmed!Define
  <2> QED
    BY <2>1 DEF Confirmed!Next
<1>7. ASSUME NEW r \in Rotas, DiscardRota(r) PROVE [Confirmed!Next]_(Confirmed!vars)
  <2>1. Confirmed!Discard(r)
    BY <1>7 DEF DiscardRota, LockUnallocated, Confirmed!Discard
  <2> QED
    BY <2>1 DEF Confirmed!Next
<1>8. ASSUME NEW s \in Servers, Restart(s) PROVE [Confirmed!Next]_(Confirmed!vars)
  BY <1>1, <1>8 DEF Restart, db
<1>9. CASE UNCHANGED vars
  BY <1>1, <1>9 DEF vars
<1> QED
  BY <1>2, <1>3, <1>4, <1>5, <1>6, <1>7, <1>8, <1>9 DEF Next

\* The rota that is allocated is one an admin had on their screen, as a draft of that
\* same rota, when they confirmed it (or a draft that seats nobody), and it is allocated once: the handlers, with every edit, lost
\* reply, retry and restart between them, implement ConfirmedRota.
THEOREM Implements == Spec => ConfirmedSpec
<1>1. Init => Confirmed!Init
  BY DEF Init, Confirmed!Init, Confirmed!NoDraft, NoDraft, Status
<1> QED
  BY <1>1, StepConfirms, TypeCorrect, PTL DEF Spec, ConfirmedSpec, Confirmed!Spec
==============================================================================
