------------------------------ MODULE DraftReads ------------------------------
(***************************************************************************)
(* What a reader is told, against what was true while they waited.  The    *)
(* history variable stood[a] remembers every combination of inputs a rota  *)
(* in flight had in the database since admin a's request began.            *)
(***************************************************************************)
EXTENDS DraftRotaAllocation

VARIABLE stood

readVars == <<vars, stood>>

Now == {<<r, Current(r)>> : r \in Unallocated}

ReadInit == Init /\ stood = [a \in Admins |-> {}]

\* Extended by every step of the program; forgotten when the request ends.
ReadNext ==
    /\ Next
    /\ stood' = [a \in Admins |->
                    IF req'[a].at = "idle" THEN {} ELSE stood[a] \cup Now']

ReadSpec == ReadInit /\ [][ReadNext]_readVars

\* Input k of rota r had value v at some moment of a's request.
Stood(a, r, k, v) == \E seen \in stood[a] : seen[1] = r /\ seen[2][k] = v

\* The inputs rota r could be solved for if each is read on its own at some
\* moment of a's request, and those whose edits its draft has missed at any time.
Readable(a, r) ==
    {i \in Inputs : \A k \in Stamped \ missed[r] : Stood(a, r, k, i[k])}

\* A GET that finds the draft clean never hands back a rota that misses an edit
\* committed before the GET began ("what comes back is never a stale draft",
\* draftRotaAllocation.go:84), be the draft an old one or the one it queued
\* behind.  Each input is asked about on its own.  Outside the promise are the
\* settings of an edit that looked for rotas before this one was defined, and a rota
\* that is allocated or discarded under the read, which has no draft to show.
ReadIsFresh ==
    [][\A a \in Admins :
          LET r == req[a].rota
          IN  /\ ReadSeats(a)
              /\ Clean(req[a].row, req[a].stamp)
              /\ rota[r] = "unallocated"
              => \E i \in Readable(a, r) : StoredSeats(r) = SeatsOf(Solve[r][i])
      ]_readVars

\* Why it holds, when one server runs all the solves (deploy/compose.yaml).
OneServer == \A a, b \in Admins : ServerOf[a] = ServerOf[b]

\* What the solve b has read of the stamped inputs stood in a's request.
ReadsStood(a, b, r) ==
    \A k \in Stamped \ req[b].missed :
        req[b].seen[k] = Unread \/ Stood(a, r, k, req[b].seen[k])

\* A solve that started while a draft was clean started with its stamp: one
\* that has fallen behind has a dirty draft before it.
SolvesInOrder ==
    \A b \in Admins, r \in Unallocated :
        Reading(b, r) /\ draft[r] # None /\ Clean(draft[r], stamp[r]) =>
            req[b].stamp = stamp[r]

\* Until the row is read, a draft that would be found clean, and a solve that
\* would leave one, are of the request's own time.
RowToCome ==
    \A a \in Admins : LET r == req[a].rota IN
        req[a].at = "row" /\ r \in Unallocated =>
            /\ draft[r] # None /\ Clean(draft[r], req[a].stamp) =>
                  draft[r].from \in Readable(a, r)
            /\ \A b \in Admins : Reading(b, r) =>
                  \/ ReadsStood(a, b, r)
                  \/ /\ req[b].stamp # req[a].stamp
                     /\ draft[r] # None => ~Clean(draft[r], req[a].stamp)

\* Once it was found clean, so is every draft its Seats may still be read from.
SeatsToCome ==
    \A a \in Admins : LET r == req[a].rota IN
        /\ req[a].at = "seats" /\ r \in Unallocated
        /\ Clean(req[a].row, req[a].stamp)
        => /\ draft[r] # None /\ draft[r].from \in Readable(a, r)
           /\ \A b \in Admins : Reading(b, r) => ReadsStood(a, b, r)

\* What keeps ReadIsFresh true from one statement of a GET to the next: the draft
\* it is about to find clean, and every solve that may yet replace that draft, are
\* of inputs that stood since the GET began.
ReadInv == SolvesInOrder /\ RowToCome /\ SeatsToCome
===============================================================================
