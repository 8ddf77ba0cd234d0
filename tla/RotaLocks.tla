------------------------------ MODULE RotaLocks ------------------------------
(***************************************************************************)
(* The rotation rows, and the transactions that wait for them (pkg/db/     *)
(* tx.go, rotation.go, allocation.go, draftAllocation.go).  A change of a  *)
(* rota locks the row of its rota, a swap those of two, one after the      *)
(* other; an allocation, a discard and the store of a draft lock one; and  *)
(* a write of the Roles or the settings takes the row of every unallocated *)
(* rota its UPDATE finds, in whatever order it comes to them.              *)
(*                                                                         *)
(* Everywhere else a commit under the lock is one step.  Here the rows are *)
(* taken one by one, and what is done under them is left out.  Rows of     *)
(* other tables are not here.                                              *)
(***************************************************************************)
EXTENDS Naturals, SequencesExt

CONSTANTS
    Rotas,  \* by their ids, which are sorted
    Flows   \* transactions, each of which may run again and again

ASSUME RotasAssumption == Rotas \subseteq Nat

VARIABLES
    rota,   \* rotation: the life of each
    flow    \* what each transaction is, which rows it wants, and those it holds

vars == <<rota, flow>>

Unallocated == {r \in Rotas : rota[r] = "unallocated"}

Minted == {r \in Rotas : rota[r] \in {"unallocated", "allocated"}}

-----------------------------------------------------------------------------
(* Which rows a transaction takes. *)

NoFlow == [kind |-> "none", wants |-> <<>>, holds |-> {}]

Starts(f, kind, wants) ==
    /\ flow[f].kind = "none"
    /\ flow' = [flow EXCEPT ![f] = [kind |-> kind, wants |-> wants, holds |-> {}]]
    /\ UNCHANGED rota

\* Mutant: the rows are locked in the order the request names them.
AsNamed(ids) == ids

\* The ids are cloned, sorted and compacted.
LockOrder(ids) == SetToSortSeq(Range(ids), <)

\* withRotaLockTx: the rota of a Shift, looked up before; for a swap that of the
\* other too, which may be the same and may be either.
BeginChange(f) ==
    \E r \in Minted, s \in Minted :
        \E ids \in {<<r>>, <<r, s>>} : Starts(f, "change", LockOrder(ids))

\* InsertAllocationsAndSetAllocated, ReplaceDraftRotaAllocation, DiscardRota.
BeginSolved(f) ==
    \E r \in Minted, kind \in {"allocate", "draft", "discard"} :
        Starts(f, kind, <<r>>)

\* markAllRotaInputsChanged: the rows it sees, in the order of its scan.
BeginStamp(f) ==
    \E scan \in SetToSeqs(Unallocated) : Starts(f, "stamp", scan)

-----------------------------------------------------------------------------
(* Taking them, and letting them go. *)

\* Mutant: the rows are read and not locked.
Unlocked(f, r) == TRUE

\* FOR UPDATE, and UPDATE, wait for who has the row.
Free(f, r) == \A g \in Flows \ {f} : r \notin flow[g].holds

\* Whether the row is still there for the transaction once it has it.
StillThere(f, r) ==
    CASE flow[f].kind = "change" -> r \in Minted
      [] OTHER                   -> r \in Unallocated

\* An UPDATE passes over a row that no longer matches; the others are refused.
LockNext(f) ==
    /\ flow[f].wants # <<>>
    /\ LET r == Head(flow[f].wants)
       IN  /\ Free(f, r)
           /\ flow' = [flow EXCEPT ![f] =
                 IF StillThere(f, r)
                 THEN [@ EXCEPT !.wants = Tail(@), !.holds = @ \cup {r}]
                 ELSE IF @.kind = "stamp" THEN [@ EXCEPT !.wants = Tail(@)] ELSE NoFlow]
    /\ UNCHANGED rota

\* With all its rows, a transaction commits: an allocation and a discard end the rota.
Commit(f) ==
    /\ flow[f].kind # "none" /\ flow[f].wants = <<>>
    /\ rota' = [r \in Rotas |->
          IF r \notin flow[f].holds THEN rota[r]
          ELSE CASE flow[f].kind = "allocate" -> "allocated"
                 [] flow[f].kind = "discard"  -> "discarded"
                 [] OTHER                     -> rota[r]]
    /\ flow' = [flow EXCEPT ![f] = NoFlow]

\* A refusal under the lock, a failed statement, a client that leaves, a restart.
RollBack(f) ==
    /\ flow[f].kind # "none"
    /\ flow' = [flow EXCEPT ![f] = NoFlow]
    /\ UNCHANGED rota

\* A definition that found no rota in flight commits.
Define(r) ==
    /\ rota[r] = "undefined" /\ Unallocated = {}
    /\ rota' = [rota EXCEPT ![r] = "unallocated"]
    /\ UNCHANGED flow

-----------------------------------------------------------------------------
Init ==
    /\ rota = [r \in Rotas |-> "undefined"]
    /\ flow = [f \in Flows |-> NoFlow]

Next ==
    \/ \E f \in Flows : \/ BeginChange(f) \/ BeginSolved(f) \/ BeginStamp(f)
                        \/ LockNext(f) \/ Commit(f) \/ RollBack(f)
    \/ \E r \in Rotas : Define(r)

Spec == Init /\ [][Next]_vars

-----------------------------------------------------------------------------
(* Properties. *)

\* Every variable has its type, and no two transactions hold one rotation row
\* (FOR UPDATE; db/tx.go:55, db/allocation.go:79).
TypeOK ==
    /\ rota \in [Rotas -> {"undefined", "unallocated", "allocated", "discarded"}]
    /\ flow \in [Flows ->
          [kind : {"none", "change", "allocate", "draft", "discard", "stamp"},
           wants : Seq(Rotas), holds : SUBSET Rotas]]
    /\ \A f, g \in Flows : f # g => flow[f].holds \cap flow[g].holds = {}

\* f waits for a row that g holds.
WaitsFor(f, g) ==
    f # g /\ flow[f].wants # <<>> /\ Head(flow[f].wants) \in flow[g].holds

\* "two flows locking overlapping rota sets cannot deadlock" (db/tx.go:57): among any
\* transactions one waits for none of the others, so none wait in a circle; while no
\* two rotas are in flight, the writes of settings, which sort nothing, count as well.
NoWaitCycle ==
    \A waiting \in (SUBSET Flows) \ {{}} :
        \E f \in waiting : \A g \in waiting : ~WaitsFor(f, g)
=============================================================================
