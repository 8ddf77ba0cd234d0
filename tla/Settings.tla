------------------------------ MODULE Settings ------------------------------
(***************************************************************************)
(* The Roles and the allocation settings (pkg/core/services/editRoles.go,  *)
(* rotaDefaults.go, pkg/db/role.go, rotaDefaults.go): inputs of a solve    *)
(* that belong to no rota.  Their transactions write first and stamp the   *)
(* rotas there are second, without the lock of a rota, while rotas are     *)
(* defined, solved, edited and end.                                        *)
(*                                                                         *)
(* A rename keeps everybody who names the Role waiting, and waits for      *)
(* those who do: an edit under the lock of a rota that names a Role takes  *)
(* the two rows in the opposite order.  Postgres rolls one of the two back *)
(* then, as any transaction here may be.                                   *)
(***************************************************************************)
EXTENDS Naturals, FiniteSets

CONSTANTS
    Roles,      \* the Roles there may ever be
    Names,      \* what they are called
    Ranks,      \* and in which order their Seats are filled
    Rules,      \* the allocation settings
    Rotas,
    Unborn,     \* those that are defined later
    Writers,    \* requests writing a Role or the rules
    Editors,    \* requests editing a rota under its lock
    None,       \* a field left empty
    MaxClock    \* bound: the transactions of Writers and Editors

ASSUME RotasAssumption == Unborn \subseteq Rotas

ASSUME BoundsAssumption == MaxClock \in Nat

ASSUME NoneAssumption ==
    /\ None \notin Roles \cup Rotas \cup Rules
    /\ Rules \cap [name : Names, rank : Ranks] = {}

VARIABLES
    roles,  \* role
    rules,  \* rota_defaults: the allocation settings, None until they are saved
    rota,   \* rotation: the life of each
    stamp,  \* rotation.inputs_changed_at
    draft,  \* draft_rota_allocation: the stamp, and what it was solved with
    clock,  \* the time of the last transaction begun
    write,  \* how far each Writer has got
    edit,   \* how far each Editor has got
    solve   \* the solve that is running

settings == <<roles, rules>>
rotas    == <<rota, stamp, draft>>
vars     == <<settings, rotas, clock, write, edit, solve>>

-----------------------------------------------------------------------------
(* What is on record, and who holds which row. *)

Known == {x \in Roles : roles[x] # None}

Unallocated == {r \in Rotas : rota[r] = "unallocated"}

\* A Role that is created or edited, and the transaction not at its end.
Writing(w, x) == write[w].at \in {"written", "stamping"} /\ write[w].role = x

\* An UPDATE of a unique column keeps foreign keys to the row waiting.
Renaming(x) ==
    \E w \in Writers : Writing(w, x) /\ roles[x] # None
                       /\ write[w].to.name # roles[x].name

\* A foreign key to a Role, in an edit not at its end, keeps renames waiting.
Named(x) == \E e \in Editors : edit[e].at = "named" /\ edit[e].role = x

\* The rotation row of r is held by an edit of the rota.
Locked(r) == \E e \in Editors : edit[e].at # "idle" /\ edit[e].rota = r

-----------------------------------------------------------------------------
(* Writing a Role or the rules (inTx). *)

IdleWrite == [at |-> "idle", time |-> 0, role |-> None, to |-> None, todo |-> {}]

Tick == clock < MaxClock /\ clock' = clock + 1

\* A transaction whose first statement is done: it writes to, and the Role x if any.
Begun(x, to) ==
    [at |-> "written", time |-> clock + 1, role |-> x, to |-> to, todo |-> {}]

\* Mutant: two transactions may take one name.
NoIndex(w, x, name) == \A v \in Writers \ {w} : ~Writing(v, x)

\* Nobody else is writing the row of x, or gives or takes the name.
RowFree(w, x, name) ==
    /\ \A v \in Writers \ {w} : ~Writing(v, x)
    /\ \A v \in Writers \ {w}, y \in Roles :
          Writing(v, y) => name # write[v].to.name
                           /\ (roles[y] # None => name # roles[y].name)

\* A name another Role has is refused.
NameTaken(x, name) == \E y \in Known \ {x} : roles[y].name = name

\* A rename waits for those who name the Role.
MayRename(x, name) == roles[x] # None /\ roles[x].name # name => ~Named(x)

\* InsertRole, under a new id, and UpdateRole: the first statement.  One that is
\* refused leaves nothing behind.
WriteRole(w) ==
    /\ write[w].at = "idle" /\ Tick
    /\ \E x \in Roles, to \in [name : Names, rank : Ranks] :
          /\ RowFree(w, x, to.name) /\ ~NameTaken(x, to.name)
          /\ MayRename(x, to.name)
          /\ write' = [write EXCEPT ![w] = Begun(x, to)]
    /\ UNCHANGED <<settings, rotas, edit, solve>>

\* SaveAllocationSettings: the first statement, and one such row.
WriteRules(w) ==
    /\ write[w].at = "idle" /\ Tick
    /\ \A v \in Writers : write[v].at # "idle" => write[v].role # None
    /\ \E to \in Rules : write' = [write EXCEPT ![w] = Begun(None, to)]
    /\ UNCHANGED <<settings, rotas, edit, solve>>

\* markAllRotaInputsChanged begins: the rotas it sees.
FindRotas(w) ==
    /\ write[w].at = "written"
    /\ write' = [write EXCEPT ![w].at = "stamping", ![w].todo = Unallocated]
    /\ UNCHANGED <<settings, rotas, clock, edit, solve>>

\* Mutant: no rota is stamped.
Unstamped(w) == stamp

\* Those of them that still are unallocated.
StampAll(w) ==
    [r \in Rotas |-> IF r \in write[w].todo \cap Unallocated
                     THEN write[w].time ELSE stamp[r]]

\* It has the row of each, and the transaction commits.
CommitWrite(w) ==
    /\ write[w].at = "stamping"
    /\ \A r \in write[w].todo : ~Locked(r)
    /\ stamp' = StampAll(w)
    /\ IF write[w].role = None
       THEN rules' = write[w].to /\ UNCHANGED roles
       ELSE roles' = [roles EXCEPT ![write[w].role] = write[w].to] /\ UNCHANGED rules
    /\ write' = [write EXCEPT ![w] = IdleWrite]
    /\ UNCHANGED <<rota, draft, clock, edit, solve>>

\* A failed statement, a client that leaves, a restart.
RollBackWrite(w) ==
    /\ write[w].at # "idle"
    /\ write' = [write EXCEPT ![w] = IdleWrite]
    /\ UNCHANGED <<settings, rotas, clock, edit, solve>>

-----------------------------------------------------------------------------
(* An edit under the lock of a rota that names a Role: a pin, or a Shift's Shape
   (ShiftEdits has what they check and write). *)

IdleEdit == [at |-> "idle", time |-> 0, rota |-> None, role |-> None]

\* The Role was looked up before the lock.
LockRota(e) ==
    /\ edit[e].at = "idle" /\ Tick
    /\ \E r \in Unallocated, x \in Known :
          /\ ~Locked(r)
          /\ edit' = [edit EXCEPT ![e] =
                [at |-> "locked", time |-> clock + 1, rota |-> r, role |-> x]]
    /\ UNCHANGED <<settings, rotas, write, solve>>

\* The foreign key waits for a rename of the Role.
NameRole(e) ==
    /\ edit[e].at = "locked" /\ ~Renaming(edit[e].role)
    /\ edit' = [edit EXCEPT ![e].at = "named"]
    /\ UNCHANGED <<settings, rotas, clock, write, solve>>

CommitEdit(e) ==
    /\ edit[e].at = "named"
    /\ stamp' = [stamp EXCEPT ![edit[e].rota] = edit[e].time]
    /\ edit' = [edit EXCEPT ![e] = IdleEdit]
    /\ UNCHANGED <<settings, rota, draft, clock, write, solve>>

RollBackEdit(e) ==
    /\ edit[e].at # "idle"
    /\ edit' = [edit EXCEPT ![e] = IdleEdit]
    /\ UNCHANGED <<settings, rotas, clock, write, solve>>

-----------------------------------------------------------------------------
(* The rota in flight is solved, and ends. *)

IdleSolve == [at |-> "idle", rota |-> None, stamp |-> 0, roles |-> None, rules |-> None]

PickRota ==
    /\ solve.at = "idle"
    /\ \E r \in Unallocated :
          solve' = [at |-> "roles", rota |-> r, stamp |-> stamp[r],
                    roles |-> None, rules |-> None]
    /\ UNCHANGED <<settings, rotas, clock, write, edit>>

SolveRoles ==
    /\ solve.at = "roles" /\ Known # {}
    /\ solve' = [solve EXCEPT !.at = "rules", !.roles = roles]
    /\ UNCHANGED <<settings, rotas, clock, write, edit>>

\* settingsForAllocation: settings that were never saved are refused.
SolveRules ==
    /\ solve.at = "rules" /\ rules # None
    /\ solve' = [solve EXCEPT !.at = "solved", !.rules = rules]
    /\ UNCHANGED <<settings, rotas, clock, write, edit>>

\* ReplaceDraftRotaAllocation, under the lock of the rota.
StoreDraft ==
    /\ solve.at = "solved"
    /\ solve.rota \in Unallocated /\ ~Locked(solve.rota)
    /\ draft' = [draft EXCEPT ![solve.rota] =
          [stamp |-> solve.stamp, roles |-> solve.roles, rules |-> solve.rules]]
    /\ solve' = IdleSolve
    /\ UNCHANGED <<settings, rota, stamp, clock, write, edit>>

SolveFails ==
    /\ solve.at # "idle" /\ solve' = IdleSolve
    /\ UNCHANGED <<settings, rotas, clock, write, edit>>

\* A definition that found no rota in flight commits; its foreign keys waited for
\* the renames of the Roles it names (RotaDefinition has the rest).
DefineRota(r) ==
    /\ rota[r] = "undefined" /\ Unallocated = {}
    /\ \E x \in Known : ~Renaming(x)
    /\ rota' = [rota EXCEPT ![r] = "unallocated"]
    /\ UNCHANGED <<settings, stamp, draft, clock, write, edit, solve>>

\* The rota is allocated, or discarded.
EndRota(r) ==
    /\ r \in Unallocated /\ ~Locked(r)
    /\ draft' = [draft EXCEPT ![r] = None]
    /\ \E end \in {"allocated", "discarded"} : rota' = [rota EXCEPT ![r] = end]
    /\ UNCHANGED <<settings, stamp, clock, write, edit, solve>>

-----------------------------------------------------------------------------
RoleRows == [name : Names, rank : Ranks]

Init ==
    /\ roles \in [Roles -> RoleRows \cup {None}]
    /\ \A x \in Known : ~NameTaken(x, roles[x].name)
    /\ rules = None
    /\ rota = [r \in Rotas |-> IF r \in Unborn THEN "undefined" ELSE "unallocated"]
    /\ stamp = [r \in Rotas |-> 0]
    /\ draft = [r \in Rotas |-> None]
    /\ clock = 0
    /\ write = [w \in Writers |-> IdleWrite]
    /\ edit = [e \in Editors |-> IdleEdit]
    /\ solve = IdleSolve

Next ==
    \/ \E w \in Writers :
          WriteRole(w) \/ WriteRules(w) \/ FindRotas(w) \/ CommitWrite(w) \/ RollBackWrite(w)
    \/ \E e \in Editors :
          LockRota(e) \/ NameRole(e) \/ CommitEdit(e) \/ RollBackEdit(e)
    \/ PickRota \/ SolveRoles \/ SolveRules \/ StoreDraft \/ SolveFails
    \/ \E r \in Rotas : DefineRota(r) \/ EndRota(r)

Spec == Init /\ [][Next]_vars

-----------------------------------------------------------------------------
(* Properties. *)

Writes ==
    [at : {"idle", "written", "stamping"}, time : 0 .. MaxClock,
     role : Roles \cup {None}, to : RoleRows \cup Rules \cup {None},
     todo : SUBSET Rotas]

Edits ==
    [at : {"idle", "locked", "named"}, time : 0 .. MaxClock,
     rota : Rotas \cup {None}, role : Roles \cup {None}]

Solves ==
    [at : {"idle", "roles", "rules", "solved"}, rota : Rotas \cup {None},
     stamp : 0 .. MaxClock, roles : [Roles -> RoleRows \cup {None}] \cup {None},
     rules : Rules \cup {None}]

Drafts == [stamp : 0 .. MaxClock, roles : [Roles -> RoleRows \cup {None}], rules : Rules]

\* Every variable has its type, and no two Roles have one name.
TypeOK ==
    /\ roles \in [Roles -> RoleRows \cup {None}]
    /\ \A x \in Known : ~NameTaken(x, roles[x].name)
    /\ rules \in Rules \cup {None}
    /\ rota \in [Rotas -> {"undefined", "unallocated", "allocated", "discarded"}]
    /\ stamp \in [Rotas -> 0 .. MaxClock] /\ clock \in 0 .. MaxClock
    /\ draft \in [Rotas -> Drafts \cup {None}]
    /\ write \in [Writers -> Writes] /\ edit \in [Editors -> Edits]
    /\ solve \in Solves

\* "so that a draft can never be solved from settings nobody has recorded a change
\* to" (db/tx.go:26), of the rotas that were there: a draft that carries the stamp
\* of its rota was solved from the Roles and rules as they are, however the
\* transactions of settings, edits and solves interleave.
DraftTellsSettings ==
    \A r \in Unallocated \ Unborn :
        draft[r] # None /\ draft[r].stamp = stamp[r] =>
            draft[r].roles = roles /\ draft[r].rules = rules
=============================================================================
