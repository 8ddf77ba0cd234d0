--------------------------- MODULE DraftReadsProofs ---------------------------
(***************************************************************************)
(* Proof that a GET is fresh, for any number of requests, rotas and        *)
(* inputs, when one server runs the solves.                                *)
(***************************************************************************)
EXTENDS DraftReads, DraftRotaAllocationProofs

\* A step that is not a request's.
Rest ==
    \/ \E e \in Editors : Edit(e)
    \/ MoveUnstamped
    \/ \E d \in Definers : CheckDefine(d) \/ InsertRota(d) \/ AbandonDefine(d)
    \/ \E r \in Rotas : DiscardRota(r)
    \/ \E s \in Servers : Restart(s)
    \/ UNCHANGED vars

\* The only steps that leave a request at work on a rota.
Moves(a) ==
    \/ /\ req[a].at = "rota" /\ req'[a].at = "row"
       /\ rota[req'[a].rota] = "unallocated" /\ req'[a].stamp = stamp[req'[a].rota]
    \/ /\ req[a].at = "row" /\ req'[a].at = "seats"
       /\ req'[a].rota = req[a].rota /\ req'[a].stamp = req[a].stamp
       /\ req'[a].row = draft[req[a].rota] /\ draft[req[a].rota] # None
    \/ /\ req'[a].at = "inputs" /\ req'[a].stamp = stamp[req'[a].rota]
       /\ req'[a].seen = NothingRead
    \/ /\ req[a].at = "inputs" /\ req'[a].at \in {"inputs", "search"}
       /\ req'[a].rota = req[a].rota /\ req'[a].stamp = req[a].stamp
       /\ req'[a].missed = req[a].missed
       /\ \A k \in Kinds : req'[a].seen[k] \in {req[a].seen[k], Current(req[a].rota)[k]}

\* A request works on no rota, or gets to it or further without writing.
LEMMA RequestMoves ==
    ASSUME TypeOK, RequestsInOrder, NEW a \in Admins, Request(a), req'[a].at \in OnRota
    PROVE  UNCHANGED <<db, missed>> /\ Moves(a)
<1>0. req \in [Admins -> Requests] /\ req[a] \in Requests
  BY DEF TypeOK
<1>1. ~ Finish(a)
  BY <1>0 DEF Finish, IdleRequest, OnRota
<1>2. CASE StartRead(a) \/ StartSolve(a) \/ StartAllocate(a) \/ Acquire(a)
  BY <1>0, <1>2 DEF StartRead, StartSolve, StartAllocate, Acquire, OnRota, Requests
<1>3. CASE ReadRota(a)
  <2>1. PICK r \in Rotas :
          /\ InFlight(r)
          /\ req' = [req EXCEPT ![a].at = "row", ![a].rota = r, ![a].stamp = stamp[r]]
    BY <1>1, <1>3 DEF ReadRota
  <2>2. req'[a].at = "row" /\ req'[a].rota = r /\ req'[a].stamp = stamp[r]
    BY <1>0, <2>1 DEF Requests
  <2>3. rota[r] = "unallocated"
    BY <2>1 DEF InFlight, Unallocated
  <2> QED
    BY <1>3, <2>2, <2>3 DEF ReadRota, Moves, edits
<1>4. CASE ReadRow(a)
  <2>1. ~ QueueOrSolve(a, NoDraft)
    BY <1>0 DEF QueueOrSolve, OnRota, IdleRequest
  <2>2. /\ draft[req[a].rota] # None
        /\ req' = [req EXCEPT ![a].at = "seats", ![a].row = draft[req[a].rota]]
    BY <1>4, <2>1 DEF ReadRow
  <2>3. /\ req'[a].at = "seats" /\ req'[a].row = draft[req[a].rota]
        /\ req'[a].rota = req[a].rota /\ req'[a].stamp = req[a].stamp
    BY <1>0, <2>2 DEF Requests
  <2> QED
    BY <1>4, <2>2, <2>3 DEF ReadRow, Moves, edits
<1>5. CASE CheckDrafted(a)
  BY <1>0, <1>1, <1>5 DEF CheckDrafted, OnRota, Requests
<1>6. CASE ReadSeats(a)
  <2>1. ~ QueueOrSolve(a, Status(req[a].rota, StoredSeats(req[a].rota)))
    BY <1>0 DEF QueueOrSolve, OnRota, IdleRequest
  <2> QED
    BY <1>1, <1>6, <2>1 DEF ReadSeats
<1>7. CASE PickRota(a)
  <2>1. PICK r \in Rotas :
          req' = [req EXCEPT ![a].at = "inputs", ![a].rota = r, ![a].stamp = stamp[r]]
    BY <1>7 DEF PickRota
  <2>2. /\ req'[a].at = "inputs" /\ req'[a].rota = r /\ req'[a].stamp = stamp[r]
        /\ req'[a].seen = req[a].seen
    BY <1>0, <2>1 DEF Requests
  <2>3. req[a].seen = NothingRead
    BY <1>7 DEF PickRota, RequestsInOrder
  <2> QED
    BY <1>7, <2>2, <2>3 DEF PickRota, Moves, edits
<1>8. CASE ReadInput(a)
  <2>1. PICK j \in Kinds :
          req' = [req EXCEPT
                    ![a].seen[j] = Current(req[a].rota)[j],
                    ![a].at = IF AllRead(req[a].seen, j) THEN "search" ELSE "inputs"]
    BY <1>8 DEF ReadInput
  <2> DEFINE q == [req[a] EXCEPT
                    !.seen[j] = Current(req[a].rota)[j],
                    !.at = IF AllRead(req[a].seen, j) THEN "search" ELSE "inputs"]
  <2>2. req' = [req EXCEPT ![a] = q]
    BY <1>0, <2>1
  <2>3. /\ q.rota = req[a].rota /\ q.stamp = req[a].stamp /\ q.at \in {"inputs", "search"}
        /\ q.missed = req[a].missed
        /\ q.seen = [req[a].seen EXCEPT ![j] = Current(req[a].rota)[j]]
    BY <1>0 DEF Requests
  <2>4. req[a].seen \in [Kinds -> Values \cup {Unread}]
    BY <1>0 DEF Requests
  <2> HIDE DEF q
  <2>5. req'[a] = q
    BY <1>0, <2>2
  <2>6. \A k \in Kinds : q.seen[k] \in {req[a].seen[k], Current(req[a].rota)[k]}
    BY <2>3, <2>4
  <2> QED
    BY <1>8, <2>3, <2>5, <2>6 DEF ReadInput, Moves, edits
<1>9. CASE Abandon(a) \/ SolveFails(a) \/ CommitAllocation(a)
  BY <1>1, <1>9 DEF Abandon, SolveFails, CommitAllocation
<1>10. CASE StoreDraft(a) \/ RefuseAllocation(a) \/ InfeasibleAllocation(a)
  BY <1>1, <1>10 DEF StoreDraft, RefuseAllocation, InfeasibleAllocation, StoreSolve
<1> QED
  BY <1>2, <1>3, <1>4, <1>5, <1>6, <1>7, <1>8, <1>9, <1>10 DEF Request

\* A draft of a rota that stays in flight is replaced, never dropped.
LEMMA DraftStays ==
    ASSUME TypeOK, RequestsInOrder, [Next]_vars, NEW r \in Rotas,
           rota'[r] = "unallocated", draft[r] # None
    PROVE  draft'[r] # None
<1>0. draft \in [Rotas -> Drafts \cup {None}] /\ req \in [Admins -> Requests]
      /\ rota \in [Rotas -> {"undefined", "unallocated", "allocated", "discarded"}]
  BY DEF TypeOK
<1>1. ASSUME NEW a \in Admins, Request(a)
      PROVE  draft'[r] # None
  <2>1. CASE UNCHANGED draft
    BY <2>1
  <2>2. CASE StoreDraft(a) \/ RefuseAllocation(a) \/ InfeasibleAllocation(a)
    <3>1. StoreSolve(a) /\ req[a].at = "search"
      BY <2>2 DEF StoreDraft, RefuseAllocation, InfeasibleAllocation
    <3>2. req[a].seen \in Inputs /\ req[a].stamp \in Stamps
      BY <3>1 DEF TypeOK, WellFormed, Requests
    <3>3. [stamp |-> StampCaptured(a), from |-> req[a].seen] # None
      BY <3>2, RotasAssumption DEF Drafts, StampCaptured
    <3> QED
      BY <1>0, <3>1, <3>3 DEF StoreSolve
  <2>3. CASE CommitAllocation(a)
    BY <1>0, <2>3 DEF CommitAllocation, DropDraft
  <2> QED
    BY <1>1, <2>1, <2>2, <2>3 DEF Request, StartRead, StartSolve, StartAllocate, Acquire,
       Abandon, ReadRota, ReadRow, CheckDrafted, ReadSeats, PickRota, ReadInput, SolveFails,
       db
<1>2. ASSUME NEW q \in Rotas, DiscardRota(q)
      PROVE  draft'[r] # None
  BY <1>0, <1>2 DEF DiscardRota, DropDraft
<1>3. CASE UNCHANGED draft
  BY <1>3
<1> QED
  BY <1>1, <1>2, <1>3 DEF Next, Edit, BeginEdit, CommitOwnEdit, CommitSharedEdit,
     FindRotas, RollBackEdit, MoveUnstamped, CheckDefine, InsertRota, AbandonDefine, Restart, db, vars

\* Nothing brings a rota back in flight.
LEMMA RotaWasInFlight ==
    ASSUME TypeOK, RequestsInOrder, [Next]_vars, NEW r \in Rotas,
           rota'[r] = "unallocated", rota[r] # "undefined"
    PROVE  rota[r] = "unallocated"
<1>0. rota \in [Rotas -> {"undefined", "unallocated", "allocated", "discarded"}]
  BY DEF TypeOK
<1>1. ASSUME NEW a \in Admins, Request(a)
      PROVE  rota[r] = "unallocated"
  BY <1>1, RequestEffect DEF Effect
<1>2. ASSUME NEW d \in Definers, InsertRota(d)
      PROVE  rota[r] = "unallocated"
  BY <1>0, <1>2 DEF InsertRota
<1>3. ASSUME NEW q \in Rotas, DiscardRota(q)
      PROVE  rota[r] = "unallocated"
  BY <1>0, <1>3 DEF DiscardRota
<1>4. CASE UNCHANGED rota
  BY <1>4
<1> QED
  BY <1>1, <1>2, <1>3, <1>4 DEF Next, Edit, BeginEdit, CommitOwnEdit, CommitSharedEdit,
     FindRotas, RollBackEdit, MoveUnstamped, CheckDefine, AbandonDefine, Restart, db, vars

\* Stood, after the step.
StoodAfter(a, r, k, v) == \E seen \in stood'[a] : seen[1] = r /\ seen[2][k] = v

\* What stood goes on having stood until the request ends, and what stands after
\* a step is added.
LEMMA StoodGrows ==
    ASSUME ReadNext, NEW a \in Admins, req'[a].at # "idle", NEW r \in Rotas, NEW k
    PROVE  /\ \A v : Stood(a, r, k, v) => StoodAfter(a, r, k, v)
           /\ rota'[r] = "unallocated" => StoodAfter(a, r, k, Current(r)'[k])
<1>1. stood'[a] = stood[a] \cup Now'
  BY DEF ReadNext
<1>2. rota'[r] = "unallocated" => <<r, Current(r)'>> \in Now'
  BY DEF Now, Unallocated
<1>3. rota'[r] = "unallocated" => StoodAfter(a, r, k, Current(r)'[k])
  BY <1>1, <1>2 DEF StoodAfter
<1> QED
  BY <1>1, <1>3 DEF Stood, StoodAfter

-----------------------------------------------------------------------------
(* What any step can do to the reads and to the draft of a rota in flight. *)

\* A step is a request's, or not.
LEMMA NextCases == Next => Rest \/ \E c \in Admins : Request(c)
BY DEF Next, Rest

\* A step that changes a request at work on a rota is its own.
LEMMA RequestsMove ==
    ASSUME IndInv, Next, NEW a \in Admins, req'[a].at \in OnRota, ~ SameRequest(a)
    PROVE  UNCHANGED <<db, missed>> /\ Moves(a) /\ \A b \in Admins \ {a} : req'[b] = req[b]
<1>1. ~ Rest
  BY RequestsStandStill DEF Rest, IndInv, OnRota
<1>2. PICK c \in Admins : Request(c)
  BY <1>1, NextCases
<1>3. \A b \in Admins \ {c} : req'[b] = req[b]
  BY <1>2, RequestEffect DEF Effect, IndInv
<1>4. a = c
  BY <1>3 DEF SameRequest
<1> QED
  BY <1>2, <1>3, <1>4, RequestMoves DEF IndInv

\* A request at work on a rota after a step works on one that is minted before.
LEMMA WorksOnMinted ==
    ASSUME IndInv, Next, NEW a \in Admins, req'[a].at \in OnRota,
           rota'[req'[a].rota] = "unallocated"
    PROVE  req'[a].rota \in Rotas /\ rota[req'[a].rota] = "unallocated"
<1>1. TypeOK'
  BY TypeNext DEF IndInv
<1>2. req'[a].rota \in Rotas
  BY <1>1 DEF TypeOK, WellFormed, OnRota
<1>3. CASE SameRequest(a)
  BY <1>2, <1>3, RotaWasInFlight DEF IndInv, RequestsInOrder, SameRequest
<1>4. CASE ~ SameRequest(a)
  <2>1. UNCHANGED db
    BY <1>4, RequestsMove
  <2>2. rota' = rota
    BY <2>1 DEF db
  <2> QED
    BY <1>2, <2>2
<1> QED
  BY <1>2, <1>3, <1>4

\* The solve c leaves its answer as the draft of r.
Stores(c, r) ==
    /\ req[c].at = "search" /\ req[c].rota = r /\ req'[c].at \notin OnRota
    /\ draft'[r].stamp = req[c].stamp /\ draft'[r].from = req[c].seen
    /\ missed'[r] = req[c].missed

\* The draft of r is the same, and has missed what it had missed.
Kept(r) == draft'[r] = draft[r] /\ missed[r] \subseteq missed'[r]

\* Its draft stays, or is replaced by that of a solve which is then over.
LEMMA DraftMoves ==
    ASSUME IndInv, Next, NEW r \in Rotas, rota'[r] = "unallocated", draft'[r] # None,
           ~ Kept(r)
    PROVE  \E c \in Admins : Stores(c, r)
<1>1. draft'[r] # None
  OBVIOUS
<1>2. ~ Rest
  BY <1>1, RequestsStandStill DEF Rest, IndInv, Kept
<1>3. PICK c \in Admins : Request(c)
  BY <1>2, NextCases
<1>4. Effect(c)
  BY <1>3, RequestEffect DEF IndInv
<1>5. /\ draft'[r] = [stamp |-> req[c].stamp, from |-> req[c].seen]
      /\ missed'[r] = req[c].missed
      /\ req[c].at = "search" /\ req[c].rota = r
  BY <1>1, <1>4 DEF Effect, Kept
<1>6. req'[c].at \notin OnRota
  BY <1>3, RequestMoves DEF IndInv, db, Kept
<1> QED
  BY <1>1, <1>5, <1>6 DEF Stores

\* One server solves for one request.
LEMMA OneReads ==
    ASSUME OneServer, IndInv, NEW a \in Admins, NEW b \in Admins,
           req[a].at \in {"inputs", "search"}, req[b].at \in {"inputs", "search"}
    PROVE  a = b
BY DEF OneServer, IndInv, SlotHeld, Holds, Solving

\* A solve at work on a rota goes on with its stamp, or has just begun.
LEMMA SolvesMove ==
    ASSUME IndInv, Next, NEW b \in Admins, NEW r, Reading(b, r)'
    PROVE  \/ /\ UNCHANGED db /\ req'[b].stamp = stamp[r] /\ req'[b].seen = NothingRead
           \/ /\ Reading(b, r) /\ req'[b].stamp = req[b].stamp
              /\ req[b].missed \subseteq req'[b].missed
              /\ \/ req'[b].seen = req[b].seen
                 \/ /\ UNCHANGED db
                    /\ \A k \in Kinds :
                          req'[b].seen[k] \in {req[b].seen[k], Current(r)[k]}
<1>1. CASE SameRequest(b)
  BY <1>1 DEF Reading, SameRequest
<1>2. CASE ~ SameRequest(b)
  <2>1. req'[b].at \in {"inputs", "search"} /\ req'[b].rota = r
    BY DEF Reading
  <2>2. UNCHANGED db /\ Moves(b)
    BY <1>2, <2>1, RequestsMove DEF OnRota
  <2> QED
    BY <2>1, <2>2 DEF Moves, Reading
<1> QED
  BY <1>1, <1>2

\* Whatever a solve had read that stood in a's request, it goes on reading so.
LEMMA SolvesKeepStood ==
    ASSUME IndInv, ReadNext, NEW a \in Admins, req'[a].at # "idle",
           NEW b \in Admins, NEW r \in Rotas, rota'[r] = "unallocated", Reading(b, r)',
           Reading(b, r) => ReadsStood(a, b, r) \/ req'[b].seen = NothingRead
    PROVE  ReadsStood(a, b, r)'
<1>1. SUFFICES ASSUME NEW k \in Stamped \ req'[b].missed, req'[b].seen[k] # Unread
               PROVE  StoodAfter(a, r, k, req'[b].seen[k])
  BY DEF ReadsStood, Stood, StoodAfter
<1>2. k \in Kinds /\ req'[b].seen # NothingRead
  BY <1>1 DEF Stamped, NothingRead
<1>3. /\ Reading(b, r) /\ k \notin req[b].missed
      /\ \/ req'[b].seen = req[b].seen
         \/ /\ UNCHANGED db
            /\ \A j \in Kinds : req'[b].seen[j] \in {req[b].seen[j], Current(r)[j]}
  BY <1>1, <1>2, SolvesMove DEF ReadNext
<1>4. CASE req'[b].seen[k] = req[b].seen[k]
  <2>1. Stood(a, r, k, req[b].seen[k])
    BY <1>1, <1>2, <1>3, <1>4 DEF ReadsStood
  <2> QED
    BY <1>4, <2>1, StoodGrows
<1>5. CASE UNCHANGED db /\ req'[b].seen[k] = Current(r)[k]
  <2>1. Current(r)'[k] = Current(r)[k]
    BY <1>5 DEF Current, db
  <2>2. StoodAfter(a, r, k, Current(r)'[k])
    BY StoodGrows
  <2> QED
    BY <1>5, <2>1, <2>2
<1> QED
  BY <1>2, <1>3, <1>4, <1>5

\* Inputs that were readable go on being so, as long as the draft stays.
LEMMA ReadableGrows ==
    ASSUME ReadNext, NEW a \in Admins, req'[a].at # "idle", NEW r \in Rotas,
           Kept(r), NEW i \in Readable(a, r)
    PROVE  i \in Readable(a, r)'
<1>0. missed[r] \subseteq missed'[r]
  BY DEF Kept
<1>1. \A k \in Stamped \ missed[r] : StoodAfter(a, r, k, i[k])
  BY StoodGrows DEF Readable
<1> QED
  BY <1>0, <1>1 DEF Readable, Stood, StoodAfter

\* What a solve read and stores is readable if what it read stood.
LEMMA StoredIsReadable ==
    ASSUME IndInv, ReadNext, NEW a \in Admins, req'[a].at # "idle", NEW r \in Rotas,
           NEW c \in Admins, Stores(c, r), ReadsStood(a, c, r)
    PROVE  draft'[r].from \in Readable(a, r)'
<1>1. req[c].seen \in Inputs
  BY DEF Stores, IndInv, TypeOK, WellFormed
<1>2. \A k \in Stamped : req[c].seen[k] # Unread
  BY <1>1, KindsAssumption DEF Inputs, Stamped
<1>3. \A k \in Stamped \ req[c].missed : StoodAfter(a, r, k, req[c].seen[k])
  BY <1>2, StoodGrows DEF ReadsStood
<1>4. draft'[r].from = req[c].seen /\ missed'[r] = req[c].missed
  BY DEF Stores
<1> QED
  BY <1>1, <1>3, <1>4 DEF Readable, Stood, StoodAfter

-----------------------------------------------------------------------------
(* The invariant. *)

\* A draft that becomes clean was left by a solve, and no other is under way.
LEMMA SolvesInOrderNext ==
    ASSUME OneServer, IndInv, SolvesInOrder, Next
    PROVE  SolvesInOrder'
<1>1. SUFFICES ASSUME NEW b \in Admins, NEW r \in Rotas, rota'[r] = "unallocated",
                      Reading(b, r)', draft'[r] # None, draft'[r].stamp = stamp'[r]
               PROVE  req'[b].stamp = stamp'[r]
  BY DEF SolvesInOrder, Unallocated, Clean
<1>2. rota[r] = "unallocated"
  BY <1>1, WorksOnMinted DEF Reading, OnRota
<1>3. SUFFICES ASSUME Reading(b, r), req'[b].stamp = req[b].stamp
               PROVE  req'[b].stamp = stamp'[r]
  BY <1>1, SolvesMove DEF db
<1>4. Kept(r)
  <2>1. ASSUME NEW c \in Admins, Stores(c, r)
        PROVE  FALSE
    <3>1. c = b
      BY <1>3, <2>1, OneReads DEF Reading, Stores
    <3> QED
      BY <1>1, <2>1, <3>1 DEF Reading, Stores, OnRota
  <2> QED
    BY <1>1, <2>1, DraftMoves
<1>5. ASSUME stamp'[r] = stamp[r]
      PROVE  req[b].stamp = stamp[r]
  BY <1>1, <1>2, <1>3, <1>4, <1>5 DEF SolvesInOrder, Unallocated, Clean, Kept
<1>6. CASE Rest
  <2>1. stamp'[r] = stamp[r] \/ draft[r].stamp # stamp'[r]
    BY <1>1, <1>2, <1>4, <1>6, InputsMoveWithStamp DEF Rest, IndInv, Kept
  <2> QED
    BY <1>1, <1>3, <1>4, <1>5, <2>1 DEF Kept
<1>7. ASSUME NEW c \in Admins, Request(c)
      PROVE  stamp'[r] = stamp[r]
  BY <1>7, RequestEffect DEF Effect, IndInv
<1> QED
  BY <1>3, <1>5, <1>6, <1>7, NextCases

\* The row is still to be read.
LEMMA RowToComeNext ==
    ASSUME OneServer, IndInv, SolvesInOrder, RowToCome, ReadNext
    PROVE  RowToCome'
<1>1. SUFFICES ASSUME NEW a \in Admins, NEW r, r = req'[a].rota, req'[a].at = "row",
                      rota'[r] = "unallocated"
               PROVE  /\ draft'[r] # None /\ draft'[r].stamp = req'[a].stamp =>
                            draft'[r].from \in Readable(a, r)'
                      /\ \A b \in Admins : Reading(b, r)' =>
                            \/ ReadsStood(a, b, r)'
                            \/ /\ req'[b].stamp # req'[a].stamp
                               /\ draft'[r] # None => draft'[r].stamp # req'[a].stamp
  BY DEF RowToCome, Unallocated, Clean, Readable, ReadsStood, Stood
<1>2. Next /\ req'[a].at # "idle" /\ req'[a].at \in OnRota
  BY <1>1 DEF ReadNext, OnRota
<1>3. r \in Rotas /\ rota[r] = "unallocated"
  BY <1>1, <1>2, WorksOnMinted
<1>4. CASE SameRequest(a)
  <2>0. /\ req[a].at = "row" /\ req[a].rota = r /\ req'[a].stamp = req[a].stamp
    BY <1>1, <1>4 DEF SameRequest
  <2>1. /\ draft[r] # None /\ draft[r].stamp = req[a].stamp =>
              draft[r].from \in Readable(a, r)
        /\ \A b \in Admins : Reading(b, r) =>
              \/ ReadsStood(a, b, r)
              \/ /\ req[b].stamp # req[a].stamp
                 /\ draft[r] # None => draft[r].stamp # req[a].stamp
    BY <1>3, <2>0 DEF RowToCome, Unallocated, Clean
  <2>2. ASSUME draft'[r] # None, draft'[r].stamp = req'[a].stamp
        PROVE  draft'[r].from \in Readable(a, r)'
    <3>1. CASE Kept(r)
      <4>1. draft[r] # None /\ draft[r].stamp = req[a].stamp /\ draft'[r] = draft[r]
        BY <2>0, <2>2, <3>1 DEF Kept
      <4> QED
        BY <1>2, <1>3, <2>1, <3>1, <4>1, ReadableGrows
    <3>2. CASE ~ Kept(r)
      <4>1. PICK c \in Admins : Stores(c, r)
        BY <1>1, <1>2, <1>3, <2>2, <3>2, DraftMoves
      <4>2. ReadsStood(a, c, r)
        BY <2>0, <2>1, <2>2, <4>1 DEF Stores, Reading
      <4> QED
        BY <1>2, <1>3, <4>1, <4>2, StoredIsReadable
    <3> QED
      BY <3>1, <3>2
  <2>3. ASSUME NEW b \in Admins, Reading(b, r)', ~ ReadsStood(a, b, r)'
        PROVE  /\ req'[b].stamp # req'[a].stamp
               /\ draft'[r] # None => draft'[r].stamp # req'[a].stamp
    <3>1. Reading(b, r) /\ ~ ReadsStood(a, b, r) /\ req'[b].seen # NothingRead
      BY <1>1, <1>2, <1>3, <2>3, SolvesKeepStood
    <3>2. req'[b].stamp = req[b].stamp
      BY <1>2, <2>3, <3>1, SolvesMove
    <3>3. Kept(r) \/ draft'[r] = None
      <4>1. ASSUME NEW c \in Admins, Stores(c, r)
            PROVE  FALSE
        <5>1. c = b
          BY <3>1, <4>1, OneReads DEF Reading, Stores
        <5> QED
          BY <2>3, <4>1, <5>1 DEF Reading, Stores, OnRota
      <4> QED
        BY <1>1, <1>2, <1>3, <4>1, DraftMoves
    <3> QED
      BY <2>0, <2>1, <3>1, <3>2, <3>3 DEF Kept
  <2> QED
    BY <2>2, <2>3
<1>5. CASE ~ SameRequest(a)
  <2>1. /\ UNCHANGED <<db, missed>> /\ req'[a].stamp = stamp[r]
        /\ \A b \in Admins \ {a} : req'[b] = req[b]
    BY <1>1, <1>2, <1>5, RequestsMove DEF Moves
  <2>2. draft' = draft /\ missed' = missed /\ \A k \in Stamped : Current(r)'[k] = Current(r)[k]
    BY <2>1 DEF db, Current
  <2>3. \A k \in Stamped : StoodAfter(a, r, k, Current(r)[k])
    <3>1. \A k \in Stamped : StoodAfter(a, r, k, Current(r)'[k])
      BY <1>1, <1>2, <1>3, StoodGrows
    <3> QED
      BY <2>2, <3>1
  <2>4. ASSUME draft[r] # None, draft[r].stamp = stamp[r]
        PROVE  draft[r].from \in Readable(a, r)'
    <3>1. \A k \in Stamped \ missed[r] : draft[r].from[k] = Current(r)[k]
      BY <1>3, <2>4 DEF IndInv, CleanDraftSpeaks, Clean
    <3>2. draft[r].from \in Inputs
      BY <1>3, <2>4 DEF IndInv, TypeOK, Drafts
    <3> QED
      BY <2>2, <2>3, <3>1, <3>2 DEF Readable, Stood, StoodAfter
  <2>5. ASSUME NEW b \in Admins, Reading(b, r)'
        PROVE  \/ ReadsStood(a, b, r)'
               \/ /\ req'[b].stamp # stamp[r]
                  /\ draft[r] # None => draft[r].stamp # stamp[r]
    <3>1. b # a
      BY <1>1, <2>5 DEF Reading
    <3>2. req'[b] = req[b] /\ Reading(b, r)
      BY <2>1, <2>5, <3>1 DEF Reading
    <3>3. CASE req[b].stamp = stamp[r]
      <4>1. \A k \in Stamped \ req[b].missed : req[b].seen[k] \in {Unread, Current(r)[k]}
        BY <1>3, <3>2, <3>3 DEF IndInv, SolveSeesCurrent, Reading
      <4>2. \A k \in Stamped \ req'[b].missed :
               req'[b].seen[k] = Unread \/ StoodAfter(a, r, k, req'[b].seen[k])
        BY <2>3, <3>2, <4>1
      <4> QED
        BY <4>2 DEF ReadsStood, Stood, StoodAfter
    <3>4. CASE req[b].stamp # stamp[r]
      BY <1>3, <3>2, <3>4 DEF SolvesInOrder, Unallocated, Clean
    <3> QED
      BY <3>3, <3>4
  <2> QED
    BY <2>1, <2>2, <2>4, <2>5
<1> QED
  BY <1>4, <1>5

\* The row was clean, and the Seats are still to be read.
LEMMA SeatsToComeNext ==
    ASSUME OneServer, IndInv, RowToCome, SeatsToCome, ReadNext
    PROVE  SeatsToCome'
<1>1. SUFFICES ASSUME NEW a \in Admins, NEW r, r = req'[a].rota, req'[a].at = "seats",
                      rota'[r] = "unallocated", req'[a].row.stamp = req'[a].stamp
               PROVE  /\ draft'[r] # None /\ draft'[r].from \in Readable(a, r)'
                      /\ \A b \in Admins : Reading(b, r)' => ReadsStood(a, b, r)'
  BY DEF SeatsToCome, Unallocated, Clean, Readable, ReadsStood, Stood
<1>2. Next /\ req'[a].at # "idle" /\ req'[a].at \in OnRota
  BY <1>1 DEF ReadNext, OnRota
<1>3. r \in Rotas /\ rota[r] = "unallocated"
  BY <1>1, <1>2, WorksOnMinted
<1>4. /\ draft[r] # None /\ draft[r].from \in Readable(a, r)
      /\ \A b \in Admins : Reading(b, r) => ReadsStood(a, b, r)
  <2>1. CASE SameRequest(a)
    BY <1>1, <1>3, <2>1 DEF SeatsToCome, Unallocated, Clean, SameRequest
  <2>2. CASE ~ SameRequest(a)
    <3>1. Moves(a)
      BY <1>2, <2>2, RequestsMove
    <3>2. /\ req[a].at = "row" /\ req[a].rota = r /\ draft[r] # None
          /\ draft[r].stamp = req[a].stamp
      BY <1>1, <3>1 DEF Moves
    <3> QED
      BY <1>3, <3>2 DEF RowToCome, Unallocated, Clean
  <2> QED
    BY <2>1, <2>2
<1>5. \A b \in Admins : Reading(b, r)' => ReadsStood(a, b, r)'
  BY <1>1, <1>2, <1>3, <1>4, SolvesKeepStood
<1>6. CASE Kept(r)
  BY <1>2, <1>3, <1>4, <1>5, <1>6, ReadableGrows DEF Kept
<1>7. CASE ~ Kept(r)
  <2>0. draft'[r] # None
    BY <1>1, <1>2, <1>3, <1>4, DraftStays DEF IndInv
  <2>1. PICK c \in Admins : Stores(c, r)
    BY <1>1, <1>2, <1>3, <1>7, <2>0, DraftMoves
  <2>2. ReadsStood(a, c, r)
    BY <1>4, <2>1 DEF Stores, Reading
  <2>3. draft'[r].from \in Readable(a, r)'
    BY <1>2, <1>3, <2>1, <2>2, StoredIsReadable
  <2> QED
    BY <1>5, <2>0, <2>3
<1> QED
  BY <1>6, <1>7

\* The three together.
LEMMA ReadInvNext ==
    ASSUME OneServer, IndInv, ReadInv, [ReadNext]_readVars
    PROVE  ReadInv'
<1>1. CASE ReadNext
  BY <1>1, SolvesInOrderNext, RowToComeNext, SeatsToComeNext DEF ReadInv, ReadNext
<1>2. CASE UNCHANGED readVars
  <2>1. SolvesInOrder'
    BY <1>2 DEF ReadInv, SolvesInOrder, Reading, Unallocated, Clean, readVars, vars
  <2>2. RowToCome'
    BY <1>2 DEF ReadInv, RowToCome, Reading, ReadsStood, Readable, Stood, Unallocated,
                Clean, readVars, vars
  <2>3. SeatsToCome'
    BY <1>2 DEF ReadInv, SeatsToCome, Reading, ReadsStood, Readable, Stood, Unallocated,
                Clean, readVars, vars
  <2> QED
    BY <2>1, <2>2, <2>3 DEF ReadInv
<1> QED
  BY <1>1, <1>2

\* A reader is a history: DraftReads does what DraftRotaAllocation does.
THEOREM ReadsAddNothing == ReadSpec => Spec
<1>1. ReadInit => Init
  BY DEF ReadInit
<1>2. [ReadNext]_readVars => [Next]_vars
  BY DEF ReadNext, readVars
<1> QED
  BY <1>1, <1>2, PTL DEF ReadSpec, Spec

\* The invariant of the reads: what a solve and a draft carry, against what stood
\* since the request began.
THEOREM ReadsInductive ==
    ASSUME OneServer
    PROVE  ReadSpec => []ReadInv
<1>1. ReadInit => ReadInv
  <2>1. ReadInit => \A a \in Admins : req[a].at = "idle"
    BY DEF ReadInit, Init, IdleRequest
  <2>2. ReadInit => \A r \in Rotas : draft[r] = None
    BY DEF ReadInit, Init
  <2> QED
    BY <2>1, <2>2 DEF ReadInv, SolvesInOrder, RowToCome, SeatsToCome, Reading, Unallocated
<1>2. IndInv /\ ReadInv /\ [ReadNext]_readVars => ReadInv'
  BY ReadInvNext
<1>3. ReadSpec => []IndInv
  BY ReadsAddNothing, Inductive, PTL
<1> QED
  BY <1>1, <1>2, <1>3, PTL DEF ReadSpec

\* A GET that finds the draft clean hands back the Seats of a rota solved from
\* inputs each of which stood at some moment of the GET ("what comes back is never a
\* stale draft", draftRotaAllocation.go:84), or was moved by an edit that did not
\* find the rota, however many edits, solves and rotas there are, as long as one
\* server runs the solves (deploy/compose.yaml).
THEOREM ReadsAreFresh ==
    ASSUME OneServer
    PROVE  ReadSpec => ReadIsFresh
<1>1. ASSUME IndInv, ReadInv, NEW a \in Admins, ReadSeats(a),
             Clean(req[a].row, req[a].stamp), rota[req[a].rota] = "unallocated"
      PROVE  \E i \in Readable(a, req[a].rota) :
                StoredSeats(req[a].rota) = SeatsOf(Solve[req[a].rota][i])
  <2> DEFINE r == req[a].rota
  <2>1. req[a].at = "seats" /\ r \in Rotas
    BY <1>1 DEF ReadSeats, IndInv, TypeOK, WellFormed, OnRota
  <2>2. draft[r] # None /\ draft[r].from \in Readable(a, r)
    BY <1>1, <2>1 DEF ReadInv, SeatsToCome, Unallocated
  <2> QED
    BY <2>2 DEF StoredSeats
<1>2. IndInv /\ ReadInv /\ [ReadNext]_readVars =>
        [\A a \in Admins :
            LET r == req[a].rota
            IN  /\ ReadSeats(a)
                /\ Clean(req[a].row, req[a].stamp)
                /\ rota[r] = "unallocated"
                => \E i \in Readable(a, r) : StoredSeats(r) = SeatsOf(Solve[r][i])]_readVars
  BY <1>1
<1>3. ReadSpec => []IndInv
  BY ReadsAddNothing, Inductive, PTL
<1> QED
  BY <1>2, <1>3, ReadsInductive, PTL DEF ReadSpec, ReadIsFresh
===============================================================================
