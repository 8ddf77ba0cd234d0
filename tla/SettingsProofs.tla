---------------------------- MODULE SettingsProofs ----------------------------
(***************************************************************************)
(* Proofs about Settings, for any number of Roles, rules, rotas and        *)
(* transactions.                                                           *)
(***************************************************************************)
EXTENDS Settings, TLAPS

\* What a transaction and the solve hold by the step they are at.
StepsTyped ==
    /\ \A w \in Writers : write[w].at # "idle" =>
          IF write[w].role = None THEN write[w].to \in Rules
                                  ELSE write[w].to \in RoleRows
    /\ \A e \in Editors : edit[e].at # "idle" => edit[e].rota \in Rotas
    /\ solve.at # "idle" => solve.rota \in Rotas
    /\ solve.at \in {"rules", "solved"} => solve.roles \in [Roles -> RoleRows \cup {None}]
    /\ solve.at = "solved" => solve.rules \in Rules

\* Two transactions write neither one Role nor one name, and neither takes a name
\* that another Role has.
NamesApart ==
    \A w \in Writers, x \in Roles : Writing(w, x) =>
        /\ ~NameTaken(x, write[w].to.name)
        /\ \A v \in Writers \ {w}, y \in Roles :
              Writing(v, y) => x # y /\ write[w].to.name # write[v].to.name

\* No time is ahead of the clock.
Clocked ==
    /\ \A r \in Rotas : stamp[r] <= clock
    /\ \A r \in Rotas : draft[r] # None => draft[r].stamp <= clock
    /\ solve.stamp <= clock
    /\ \A w \in Writers : write[w].time <= clock
    /\ \A e \in Editors : edit[e].time <= clock

\* A time that nothing on record and no solve goes by.
Unused(t) ==
    /\ \A r \in Rotas : stamp[r] # t
    /\ \A r \in Rotas : draft[r] # None => draft[r].stamp # t
    /\ solve.at # "idle" => solve.stamp # t

\* The time of a transaction that is not at its end is nobody else's.
OwnTimes ==
    /\ \A w \in Writers : write[w].at # "idle" =>
          /\ Unused(write[w].time)
          /\ \A v \in Writers \ {w} :
                write[v].at # "idle" => write[v].time # write[w].time
          /\ \A e \in Editors : edit[e].at # "idle" => edit[e].time # write[w].time
    /\ \A e \in Editors : edit[e].at # "idle" =>
          /\ Unused(edit[e].time)
          /\ \A f \in Editors \ {e} :
                edit[f].at # "idle" => edit[f].time # edit[e].time

\* Of the rotas that were there from the start, whoever stamps has found every one
\* that is unallocated still.
FindsAll ==
    /\ \A r \in Rotas \ Unborn : rota[r] # "undefined"
    /\ \A w \in Writers :
          write[w].at = "stamping" => Unallocated \ Unborn \subseteq write[w].todo

\* While the stamp it goes by stands, what a solve has read is what stands.
SolveTells ==
    solve.rota \in Unallocated \ Unborn /\ solve.stamp = stamp[solve.rota] =>
        /\ solve.at \in {"rules", "solved"} => solve.roles = roles
        /\ solve.at = "solved" => solve.rules = rules

IndInv ==
    /\ TypeOK
    /\ StepsTyped
    /\ NamesApart
    /\ Clocked
    /\ OwnTimes
    /\ FindsAll
    /\ SolveTells
    /\ DraftTellsSettings

-----------------------------------------------------------------------------
(* The steps. *)

WriteStep(w) ==
    WriteRole(w) \/ WriteRules(w) \/ FindRotas(w) \/ CommitWrite(w) \/ RollBackWrite(w)

EditStep(e) == LockRota(e) \/ NameRole(e) \/ CommitEdit(e) \/ RollBackEdit(e)

SolveStep == PickRota \/ SolveRoles \/ SolveRules \/ StoreDraft \/ SolveFails

\* The victim of a deadlock rolls back like any other.
LEMMA NextCases ==
    ASSUME Next
    PROVE  \/ \E w \in Writers : WriteStep(w)
           \/ \E e \in Editors : EditStep(e)
           \/ SolveStep
           \/ \E r \in Rotas : DefineRota(r) \/ EndRota(r)
BY DEF Next, WriteStep, EditStep, SolveStep

\* A transaction begins: with the next time.
Begins(w) == WriteRole(w) \/ WriteRules(w)

LEMMA BeginEffect ==
    ASSUME TypeOK, NEW w \in Writers, Begins(w)
    PROVE  /\ write[w].at = "idle"
           /\ clock \in Nat /\ clock' = clock + 1 /\ clock' \in 0 .. MaxClock
           /\ UNCHANGED <<settings, rotas, edit, solve>>
           /\ \A v \in Writers \ {w} : write'[v] = write[v]
           /\ write' \in [Writers -> Writes]
           /\ write'[w].at = "written" /\ write'[w].time = clock'
           /\ IF write'[w].role = None THEN write'[w].to \in Rules
                                       ELSE write'[w].to \in RoleRows
<1>0. write \in [Writers -> Writes] /\ clock \in 0 .. MaxClock /\ clock \in Nat
  BY BoundsAssumption DEF TypeOK
<1>1. CASE WriteRole(w)
  <2>1. PICK x \in Roles, to \in RoleRows :
           write' = [write EXCEPT ![w] = Begun(x, to)]
    BY <1>1 DEF WriteRole, RoleRows
  <2>2. clock' = clock + 1 /\ clock' \in 0 .. MaxClock
    BY <1>0, <1>1, BoundsAssumption DEF WriteRole, Tick
  <2>3. Begun(x, to) \in Writes
    BY <2>2 DEF Begun, Writes
  <2>4. x # None
    BY NoneAssumption
  <2> QED
    BY <1>0, <1>1, <2>1, <2>2, <2>3, <2>4 DEF WriteRole, Begun
<1>2. CASE WriteRules(w)
  <2>1. PICK to \in Rules : write' = [write EXCEPT ![w] = Begun(None, to)]
    BY <1>2 DEF WriteRules
  <2>2. clock' = clock + 1 /\ clock' \in 0 .. MaxClock
    BY <1>0, <1>2, BoundsAssumption DEF WriteRules, Tick
  <2>3. Begun(None, to) \in Writes
    BY <2>2 DEF Begun, Writes
  <2> QED
    BY <1>0, <1>2, <2>1, <2>2, <2>3 DEF WriteRules, Begun
<1> QED
  BY <1>1, <1>2 DEF Begins

LEMMA LockEffect ==
    ASSUME TypeOK, NEW e \in Editors, LockRota(e)
    PROVE  /\ edit[e].at = "idle"
           /\ clock \in Nat /\ clock' = clock + 1 /\ clock' \in 0 .. MaxClock
           /\ UNCHANGED <<settings, rotas, write, solve>>
           /\ \A f \in Editors \ {e} : edit'[f] = edit[f]
           /\ edit' \in [Editors -> Edits]
           /\ edit'[e].at = "locked" /\ edit'[e].time = clock'
           /\ edit'[e].rota \in Rotas
<1>0. edit \in [Editors -> Edits] /\ clock \in 0 .. MaxClock /\ clock \in Nat
  BY BoundsAssumption DEF TypeOK
<1>1. PICK r \in Unallocated, x \in Known :
         edit' = [edit EXCEPT ![e] =
            [at |-> "locked", time |-> clock + 1, rota |-> r, role |-> x]]
  BY DEF LockRota
<1>2. clock' = clock + 1 /\ clock' \in 0 .. MaxClock
  BY <1>0, BoundsAssumption DEF LockRota, Tick
<1>3. [at |-> "locked", time |-> clock', rota |-> r, role |-> x] \in Edits
  BY <1>2 DEF Edits, Unallocated, Known
<1>4. r \in Rotas
  BY DEF Unallocated
<1> QED
  BY <1>0, <1>1, <1>2, <1>3, <1>4 DEF LockRota

\* A write that is found, commits or is rolled back leaves the others alone.
LEMMA WriteOwn ==
    ASSUME TypeOK, NEW w \in Writers,
           FindRotas(w) \/ CommitWrite(w) \/ RollBackWrite(w)
    PROVE  /\ UNCHANGED <<rota, draft, clock, edit, solve>>
           /\ \A v \in Writers \ {w} : write'[v] = write[v]
           /\ write' \in [Writers -> Writes]
           /\ \/ /\ write'[w].at = "idle" /\ write'[w].time = 0
              \/ /\ write[w].at = "written" /\ write'[w].at = "stamping"
                 /\ write'[w].time = write[w].time /\ write'[w].role = write[w].role
                 /\ write'[w].to = write[w].to /\ write'[w].todo = Unallocated
<1>0. write \in [Writers -> Writes]
  BY DEF TypeOK
<1>1. CASE FindRotas(w)
  <2>1. write' = [write EXCEPT ![w] =
                    [write[w] EXCEPT !.at = "stamping", !.todo = Unallocated]]
    BY <1>0, <1>1 DEF FindRotas
  <2>2. Unallocated \in SUBSET Rotas
    BY DEF Unallocated
  <2>3. [write[w] EXCEPT !.at = "stamping", !.todo = Unallocated] \in Writes
    BY <1>0, <2>2 DEF Writes
  <2>4. write[w] \in Writes
    BY <1>0
  <2> QED
    BY <1>0, <1>1, <2>1, <2>3, <2>4 DEF FindRotas, Writes, settings, rotas
<1>2. CASE CommitWrite(w) \/ RollBackWrite(w)
  <2>1. IdleWrite \in Writes
    BY BoundsAssumption DEF IdleWrite, Writes
  <2>2. write' = [write EXCEPT ![w] = IdleWrite]
    BY <1>2 DEF CommitWrite, RollBackWrite
  <2>3. UNCHANGED <<rota, draft, clock, edit, solve>>
    BY <1>2 DEF CommitWrite, RollBackWrite, settings, rotas
  <2> QED
    BY <1>0, <2>1, <2>2, <2>3 DEF IdleWrite
<1> QED
  BY <1>1, <1>2

\* So does an edit.
LEMMA EditOwn ==
    ASSUME TypeOK, NEW e \in Editors, NameRole(e) \/ CommitEdit(e) \/ RollBackEdit(e)
    PROVE  /\ UNCHANGED <<settings, rota, draft, clock, write, solve>>
           /\ \A f \in Editors \ {e} : edit'[f] = edit[f]
           /\ edit' \in [Editors -> Edits]
           /\ \/ /\ edit'[e].at = "idle" /\ edit'[e].time = 0
              \/ /\ edit[e].at # "idle" /\ edit'[e].at # "idle" /\ UNCHANGED stamp
                 /\ edit'[e].time = edit[e].time /\ edit'[e].rota = edit[e].rota
<1>0. edit \in [Editors -> Edits] /\ edit[e] \in Edits
  BY DEF TypeOK
<1>1. CASE NameRole(e)
  <2>1. edit' = [edit EXCEPT ![e] = [edit[e] EXCEPT !.at = "named"]]
    BY <1>0, <1>1 DEF NameRole
  <2>2. [edit[e] EXCEPT !.at = "named"] \in Edits
    BY <1>0 DEF Edits
  <2> QED
    BY <1>0, <1>1, <2>1, <2>2 DEF NameRole, rotas, Edits
<1>2. CASE CommitEdit(e) \/ RollBackEdit(e)
  <2>1. IdleEdit \in Edits
    BY BoundsAssumption DEF IdleEdit, Edits
  <2>2. edit' = [edit EXCEPT ![e] = IdleEdit]
    BY <1>2 DEF CommitEdit, RollBackEdit
  <2>3. UNCHANGED <<settings, rota, draft, clock, write, solve>>
    BY <1>2 DEF CommitEdit, RollBackEdit, rotas
  <2> QED
    BY <1>0, <2>1, <2>2, <2>3 DEF IdleEdit
<1> QED
  BY <1>1, <1>2

-----------------------------------------------------------------------------
(* The solve, and the end of a rota. *)

LEMMA SolveType ==
    ASSUME TypeOK, StepsTyped, SolveStep
    PROVE  /\ UNCHANGED <<settings, rota, stamp, clock, write, edit>>
           /\ solve' \in Solves /\ draft' \in [Rotas -> Drafts \cup {None}]
           /\ solve'.at # "idle" => solve'.rota \in Rotas
           /\ solve'.at \in {"rules", "solved"} =>
                 solve'.roles \in [Roles -> RoleRows \cup {None}]
           /\ solve'.at = "solved" => solve'.rules \in Rules
<1>0. /\ solve \in Solves /\ draft \in [Rotas -> Drafts \cup {None}]
      /\ stamp \in [Rotas -> 0 .. MaxClock]
      /\ roles \in [Roles -> RoleRows \cup {None}] /\ rules \in Rules \cup {None}
  BY DEF TypeOK
<1>i. IdleSolve \in Solves /\ IdleSolve.at = "idle"
  BY BoundsAssumption DEF IdleSolve, Solves
<1>1. CASE PickRota
  <2>1. PICK r \in Unallocated :
           solve' = [at |-> "roles", rota |-> r, stamp |-> stamp[r],
                     roles |-> None, rules |-> None]
    BY <1>1 DEF PickRota
  <2>2. r \in Rotas
    BY DEF Unallocated
  <2>3. solve' \in Solves
    BY <1>0, <2>1, <2>2 DEF Solves
  <2> QED
    BY <1>0, <1>1, <2>1, <2>2, <2>3 DEF PickRota, rotas
<1>2. CASE SolveRoles
  <2>1. solve' \in Solves
    BY <1>0, <1>2 DEF SolveRoles, Solves
  <2> QED
    BY <1>0, <1>2, <2>1 DEF SolveRoles, rotas, Solves, StepsTyped
<1>3. CASE SolveRules
  <2>1. solve' \in Solves
    BY <1>0, <1>3 DEF SolveRules, Solves
  <2> QED
    BY <1>0, <1>3, <2>1 DEF SolveRules, rotas, Solves, StepsTyped
<1>4. CASE StoreDraft
  <2>1. [stamp |-> solve.stamp, roles |-> solve.roles, rules |-> solve.rules] \in Drafts
    BY <1>0, <1>4 DEF StoreDraft, StepsTyped, Solves, Drafts
  <2>2. draft' \in [Rotas -> Drafts \cup {None}]
    BY <1>0, <1>4, <2>1 DEF StoreDraft
  <2> QED
    BY <1>i, <1>4, <2>2 DEF StoreDraft
<1>5. CASE SolveFails
  BY <1>0, <1>i, <1>5 DEF SolveFails, rotas
<1> QED
  BY <1>1, <1>2, <1>3, <1>4, <1>5 DEF SolveStep

LEMMA RotaEffect ==
    ASSUME TypeOK, NEW r \in Rotas, DefineRota(r) \/ EndRota(r)
    PROVE  /\ UNCHANGED <<settings, stamp, clock, write, edit, solve>>
           /\ rota' \in [Rotas -> {"undefined", "unallocated", "allocated", "discarded"}]
           /\ draft' \in [Rotas -> Drafts \cup {None}]
           /\ \A q \in Rotas : draft'[q] \in {draft[q], None}
           /\ \A q \in Rotas : rota[q] # "undefined" =>
                 /\ rota'[q] # "undefined"
                 /\ rota'[q] = "unallocated" => rota[q] = "unallocated"
<1>0. /\ rota \in [Rotas -> {"undefined", "unallocated", "allocated", "discarded"}]
      /\ draft \in [Rotas -> Drafts \cup {None}]
  BY DEF TypeOK
<1>1. CASE DefineRota(r)
  BY <1>0, <1>1 DEF DefineRota, settings
<1>2. CASE EndRota(r)
  BY <1>0, <1>2 DEF EndRota, settings, Unallocated
<1> QED
  BY <1>1, <1>2

-----------------------------------------------------------------------------
(* Types and names. *)

LEMMA StepsTypedStep ==
    ASSUME TypeOK, StepsTyped, [Next]_vars
    PROVE  StepsTyped'
<1>1. ASSUME NEW w \in Writers, WriteStep(w)
      PROVE  StepsTyped'
  <2>1. UNCHANGED <<edit, solve>>
    BY <1>1, BeginEffect, WriteOwn DEF WriteStep, Begins
  <2>2. /\ \A v \in Writers \ {w} : write'[v] = write[v]
        /\ write'[w].at # "idle" =>
              IF write'[w].role = None THEN write'[w].to \in Rules
                                       ELSE write'[w].to \in RoleRows
    <3>1. CASE Begins(w)
      BY <3>1, BeginEffect
    <3>2. CASE ~Begins(w)
      BY <1>1, <3>2, WriteOwn DEF WriteStep, Begins, StepsTyped
    <3> QED
      BY <3>1, <3>2
  <2> QED
    BY <2>1, <2>2 DEF StepsTyped, RoleRows
<1>2. ASSUME NEW e \in Editors, EditStep(e)
      PROVE  StepsTyped'
  <2>1. UNCHANGED <<write, solve>>
    BY <1>2, LockEffect, EditOwn DEF EditStep
  <2>2. /\ \A f \in Editors \ {e} : edit'[f] = edit[f]
        /\ edit'[e].at # "idle" => edit'[e].rota \in Rotas
    <3>1. CASE LockRota(e)
      BY <3>1, LockEffect
    <3>2. CASE ~LockRota(e)
      BY <1>2, <3>2, EditOwn DEF EditStep, StepsTyped
    <3> QED
      BY <3>1, <3>2
  <2> QED
    BY <2>1, <2>2 DEF StepsTyped, RoleRows
<1>3. CASE SolveStep
  BY <1>3, SolveType DEF StepsTyped, RoleRows
<1>4. ASSUME NEW r \in Rotas, DefineRota(r) \/ EndRota(r)
      PROVE  StepsTyped'
  BY <1>4, RotaEffect DEF StepsTyped, RoleRows
<1>5. CASE UNCHANGED vars
  BY <1>5 DEF StepsTyped, RoleRows, vars
<1> QED
  BY <1>1, <1>2, <1>3, <1>4, <1>5, NextCases

\* What a commit does to the Roles.
LEMMA CommitRoles ==
    ASSUME TypeOK, StepsTyped, NEW w \in Writers, CommitWrite(w)
    PROVE  \/ write[w].role = None /\ rules' = write[w].to /\ rules' \in Rules
              /\ UNCHANGED roles
           \/ \E x \in Roles :
                 /\ x = write[w].role /\ Writing(w, x)
                 /\ roles' = [roles EXCEPT ![x] = write[w].to]
                 /\ write[w].to \in RoleRows /\ UNCHANGED rules
<1>1. write[w].at = "stamping" /\ write[w] \in Writes
  BY DEF CommitWrite, TypeOK
<1>2. CASE write[w].role = None
  BY <1>1, <1>2 DEF CommitWrite, StepsTyped
<1>3. CASE write[w].role # None
  BY <1>1, <1>3 DEF CommitWrite, StepsTyped, Writing, Writes
<1> QED
  BY <1>2, <1>3

LEMMA RolesUnless ==
    ASSUME TypeOK, [Next]_vars
    PROVE  UNCHANGED roles \/ \E w \in Writers : CommitWrite(w)
<1>1. ASSUME NEW w \in Writers, WriteStep(w), ~CommitWrite(w)
      PROVE  UNCHANGED roles
  BY <1>1 DEF WriteStep, WriteRole, WriteRules, FindRotas, RollBackWrite, settings
<1>2. ASSUME NEW e \in Editors, EditStep(e)
      PROVE  UNCHANGED roles
  BY <1>2, LockEffect, EditOwn DEF EditStep, settings
<1>3. ASSUME NEW r \in Rotas, DefineRota(r) \/ EndRota(r)
      PROVE  UNCHANGED roles
  BY <1>3 DEF DefineRota, EndRota, settings
<1>4. CASE SolveStep
  BY <1>4 DEF SolveStep, PickRota, SolveRoles, SolveRules, StoreDraft, SolveFails, settings
<1> QED
  BY <1>1, <1>2, <1>3, <1>4, NextCases DEF vars, settings

\* Names stay apart on record and in the transactions.
LEMMA NamesStep ==
    ASSUME TypeOK, StepsTyped, NamesApart, [Next]_vars
    PROVE  /\ \A x \in Roles : roles'[x] # None =>
                 \A y \in Roles \ {x} : roles'[y] # None => roles'[y].name # roles'[x].name
           /\ NamesApart'
<1>r. roles \in [Roles -> RoleRows \cup {None}]
  BY DEF TypeOK
<1>0. \A x \in Roles : roles[x] # None =>
         \A y \in Roles \ {x} : roles[y] # None => roles[y].name # roles[x].name
  BY DEF TypeOK, Known, NameTaken
<1>n. ASSUME NEW w \in Writers, NEW x \in Roles, Writing(w, x)
      PROVE  /\ \A y \in Roles \ {x} : roles[y] # None => roles[y].name # write[w].to.name
             /\ \A v \in Writers \ {w}, y \in Roles :
                   Writing(v, y) => x # y /\ write[w].to.name # write[v].to.name
  BY <1>n DEF NamesApart, NameTaken, Known
<1>1. ASSUME NEW w \in Writers, CommitWrite(w)
      PROVE  /\ \A x \in Roles : roles'[x] # None =>
                   \A y \in Roles \ {x} : roles'[y] # None => roles'[y].name # roles'[x].name
             /\ NamesApart'
  <2>1. /\ write'[w].at = "idle"
        /\ \A v \in Writers \ {w} : write'[v] = write[v]
    BY <1>1 DEF CommitWrite, IdleWrite, TypeOK
  <2>2. CASE UNCHANGED roles
    BY <1>0, <2>1, <2>2 DEF NamesApart, NameTaken, Known, Writing
  <2>3. ASSUME NEW x \in Roles, Writing(w, x),
               roles' = [roles EXCEPT ![x] = write[w].to]
        PROVE  /\ \A z \in Roles : roles'[z] # None =>
                     \A y \in Roles \ {z} : roles'[y] # None => roles'[y].name # roles'[z].name
               /\ NamesApart'
    <3>1. roles'[x] = write[w].to /\ \A y \in Roles \ {x} : roles'[y] = roles[y]
      BY <1>r, <2>3
    <3>2. \A v \in Writers, z \in Roles : Writing(v, z)' =>
             v # w /\ Writing(v, z) /\ write'[v] = write[v]
      BY <2>1 DEF Writing
    <3>3. ASSUME NEW v \in Writers, NEW z \in Roles, Writing(v, z)'
          PROVE  /\ \A y \in Roles \ {z} :
                       roles'[y] # None => roles'[y].name # write'[v].to.name
                 /\ \A u \in Writers \ {v}, y \in Roles :
                       Writing(u, y)' => z # y /\ write'[v].to.name # write'[u].to.name
      BY <1>n, <2>3, <3>1, <3>2, <3>3
    <3>4. NamesApart'
      BY <3>3 DEF NamesApart, NameTaken, Known
    <3>5. \A y \in Roles \ {x} : roles[y] # None => roles[y].name # write[w].to.name
      BY <1>n, <2>3
    <3> QED
      BY <1>0, <3>1, <3>4, <3>5
  <2> QED
    BY <1>1, <2>2, <2>3, CommitRoles
<1>2. ASSUME UNCHANGED roles, NEW w \in Writers, WriteRole(w)
      PROVE  NamesApart'
  <2>0. write \in [Writers -> Writes]
    BY DEF TypeOK
  <2>1. PICK x \in Roles, to \in RoleRows :
           /\ RowFree(w, x, to.name) /\ ~NameTaken(x, to.name)
           /\ write' = [write EXCEPT ![w] = Begun(x, to)]
    BY <1>2 DEF WriteRole, RoleRows
  <2>2. /\ write'[w].role = x /\ write'[w].to = to
        /\ \A v \in Writers \ {w} : write'[v] = write[v]
    BY <2>0, <2>1 DEF Begun
  <2>3. /\ \A z \in Roles : Writing(w, z)' => z = x
        /\ \A v \in Writers \ {w}, z \in Roles : Writing(v, z)' <=> Writing(v, z)
    BY <2>2 DEF Writing
  <2>4. \A v \in Writers \ {w}, y \in Roles :
           Writing(v, y) => y # x /\ to.name # write[v].to.name
    BY <2>1 DEF RowFree
  <2>5. \A y \in Roles \ {x} : roles[y] # None => roles[y].name # to.name
    BY <2>1 DEF NameTaken, Known
  <2>6. ASSUME NEW v \in Writers, NEW z \in Roles, Writing(v, z)'
        PROVE  /\ \A y \in Roles \ {z} :
                     roles'[y] # None => roles'[y].name # write'[v].to.name
               /\ \A u \in Writers \ {v}, y \in Roles :
                     Writing(u, y)' => z # y /\ write'[v].to.name # write'[u].to.name
    <3>1. CASE v = w
      BY <1>2, <2>2, <2>3, <2>4, <2>5, <2>6, <3>1
    <3>2. CASE v # w
      BY <1>2, <1>n, <2>2, <2>3, <2>4, <2>6, <3>2
    <3> QED
      BY <3>1, <3>2
  <2> QED
    BY <2>6 DEF NamesApart, NameTaken, Known
<1>3. ASSUME UNCHANGED roles, NEW w \in Writers,
             WriteRules(w) \/ FindRotas(w) \/ RollBackWrite(w)
      PROVE  NamesApart'
  <2>1. \A v \in Writers \ {w} : write'[v] = write[v]
    BY <1>3, BeginEffect, WriteOwn DEF Begins
  <2>2. \A z \in Roles : Writing(w, z)' => Writing(w, z) /\ write'[w].to = write[w].to
    <3>1. CASE WriteRules(w)
      <4>1. write'[w].role = None
        BY <3>1 DEF WriteRules, Begun, TypeOK
      <4> QED
        BY <4>1, NoneAssumption DEF Writing
    <3>2. CASE FindRotas(w) \/ RollBackWrite(w)
      BY <3>2, WriteOwn DEF Writing
    <3> QED
      BY <1>3, <3>1, <3>2
  <2>3. \A v \in Writers, z \in Roles :
           Writing(v, z)' => Writing(v, z) /\ write'[v].to = write[v].to
    BY <2>1, <2>2 DEF Writing
  <2>4. ASSUME NEW v \in Writers, NEW z \in Roles, Writing(v, z)'
        PROVE  /\ \A y \in Roles \ {z} :
                     roles'[y] # None => roles'[y].name # write'[v].to.name
               /\ \A u \in Writers \ {v}, y \in Roles :
                     Writing(u, y)' => z # y /\ write'[v].to.name # write'[u].to.name
    BY <1>3, <1>n, <2>3, <2>4
  <2> QED
    BY <2>4 DEF NamesApart, NameTaken, Known
<1>4. ASSUME UNCHANGED <<roles, write>>
      PROVE  NamesApart'
  BY <1>4 DEF NamesApart, NameTaken, Known, Writing
<1>5. (\E w \in Writers : WriteStep(w)) \/ UNCHANGED write
  BY NextCases, LockEffect, EditOwn, SolveType, RotaEffect DEF EditStep, vars
<1> QED
  BY <1>0, <1>1, <1>2, <1>3, <1>4, <1>5, RolesUnless DEF WriteStep

LEMMA CommitStamps ==
    ASSUME TypeOK, NEW w \in Writers, CommitWrite(w)
    PROVE  /\ stamp' \in [Rotas -> 0 .. MaxClock]
           /\ \A r \in Rotas : stamp'[r] \in {stamp[r], write[w].time}
           /\ \A r \in write[w].todo \cap Unallocated :
                 r \in Rotas => stamp'[r] = write[w].time
<1>1. write[w] \in Writes /\ stamp \in [Rotas -> 0 .. MaxClock]
  BY DEF TypeOK
<1>2. write[w].time \in 0 .. MaxClock
  BY <1>1 DEF Writes
<1>3. stamp' = [r \in Rotas |-> IF r \in write[w].todo \cap Unallocated
                                THEN write[w].time ELSE stamp[r]]
  BY DEF CommitWrite, StampAll
<1> QED
  BY <1>1, <1>2, <1>3

LEMMA EditStamps ==
    ASSUME TypeOK, StepsTyped, NEW e \in Editors,
           NameRole(e) \/ CommitEdit(e) \/ RollBackEdit(e)
    PROVE  /\ stamp' \in [Rotas -> 0 .. MaxClock]
           /\ \/ UNCHANGED stamp
              \/ /\ edit[e].at # "idle" /\ edit[e].rota \in Rotas
                 /\ edit'[e].at = "idle"
                 /\ stamp' = [stamp EXCEPT ![edit[e].rota] = edit[e].time]
<1>1. /\ edit[e] \in Edits /\ stamp \in [Rotas -> 0 .. MaxClock]
      /\ edit \in [Editors -> Edits]
  BY DEF TypeOK
<1>2. CASE CommitEdit(e)
  BY <1>1, <1>2 DEF CommitEdit, StepsTyped, IdleEdit, Edits
<1>3. CASE NameRole(e) \/ RollBackEdit(e)
  BY <1>1, <1>3 DEF NameRole, RollBackEdit, rotas
<1> QED
  BY <1>2, <1>3

LEMMA TypeStep ==
    ASSUME TypeOK, StepsTyped, NamesApart, [Next]_vars
    PROVE  TypeOK'
<1>n. /\ \A x \in Known : ~NameTaken(x, roles[x].name)
      /\ \A x \in Known' : ~NameTaken(x, roles[x].name)'
  BY NamesStep DEF TypeOK, Known, NameTaken
<1>1. ASSUME NEW w \in Writers, WriteStep(w)
      PROVE  TypeOK'
  <2>1. CASE Begins(w)
    <3>1. UNCHANGED <<settings, rotas, edit, solve>>
          /\ write' \in [Writers -> Writes] /\ clock' \in 0 .. MaxClock
      BY <2>1, BeginEffect
    <3> QED
      BY <1>n, <3>1 DEF TypeOK, settings, rotas, Known, NameTaken
  <2>2. CASE FindRotas(w) \/ RollBackWrite(w)
    <3>1. UNCHANGED <<rota, draft, clock, edit, solve>> /\ write' \in [Writers -> Writes]
      BY <2>2, WriteOwn
    <3>2. UNCHANGED <<settings, stamp>>
      BY <2>2 DEF FindRotas, RollBackWrite, rotas
    <3> QED
      BY <1>n, <3>1, <3>2 DEF TypeOK, settings, Known, NameTaken
  <2>3. CASE CommitWrite(w)
    <3>1. UNCHANGED <<rota, draft, clock, edit, solve>> /\ write' \in [Writers -> Writes]
      BY <2>3, WriteOwn
    <3>2. roles' \in [Roles -> RoleRows \cup {None}] /\ rules' \in Rules \cup {None}
      <4>1. roles \in [Roles -> RoleRows \cup {None}] /\ rules \in Rules \cup {None}
        BY DEF TypeOK
      <4> QED
        BY <2>3, <4>1, CommitRoles
    <3>3. stamp' \in [Rotas -> 0 .. MaxClock]
      BY <2>3, CommitStamps
    <3> QED
      BY <1>n, <3>1, <3>2, <3>3 DEF TypeOK, RoleRows, Writes, Edits, Solves, Drafts
  <2> QED
    BY <1>1, <2>1, <2>2, <2>3 DEF WriteStep, Begins
<1>2. ASSUME NEW e \in Editors, EditStep(e)
      PROVE  TypeOK'
  <2>1. CASE LockRota(e)
    <3>1. UNCHANGED <<settings, rotas, write, solve>>
          /\ edit' \in [Editors -> Edits] /\ clock' \in 0 .. MaxClock
      BY <2>1, LockEffect
    <3> QED
      BY <1>n, <3>1 DEF TypeOK, settings, rotas, Known, NameTaken
  <2>2. CASE NameRole(e) \/ CommitEdit(e) \/ RollBackEdit(e)
    <3>1. UNCHANGED <<settings, rota, draft, clock, write, solve>>
          /\ edit' \in [Editors -> Edits]
      BY <2>2, EditOwn
    <3>2. stamp' \in [Rotas -> 0 .. MaxClock]
      BY <2>2, EditStamps
    <3> QED
      BY <1>n, <3>1, <3>2 DEF TypeOK, settings, Known, NameTaken
  <2> QED
    BY <1>2, <2>1, <2>2 DEF EditStep
<1>3. CASE SolveStep
  <2>1. /\ UNCHANGED <<settings, rota, stamp, clock, write, edit>>
        /\ solve' \in Solves /\ draft' \in [Rotas -> Drafts \cup {None}]
    BY <1>3, SolveType
  <2> QED
    BY <1>n, <2>1 DEF TypeOK, settings, Known, NameTaken
<1>4. ASSUME NEW r \in Rotas, DefineRota(r) \/ EndRota(r)
      PROVE  TypeOK'
  <2>1. /\ UNCHANGED <<settings, stamp, clock, write, edit, solve>>
        /\ rota' \in [Rotas -> {"undefined", "unallocated", "allocated", "discarded"}]
        /\ draft' \in [Rotas -> Drafts \cup {None}]
    BY <1>4, RotaEffect
  <2> QED
    BY <1>n, <2>1 DEF TypeOK, settings, Known, NameTaken
<1>5. CASE UNCHANGED vars
  BY <1>n, <1>5 DEF TypeOK, vars, settings, rotas, Known, NameTaken
<1> QED
  BY <1>1, <1>2, <1>3, <1>4, <1>5, NextCases

-----------------------------------------------------------------------------
(* Times. *)

\* What the solve does to what goes by a stamp.
LEMMA SolveStamps ==
    ASSUME TypeOK, StepsTyped, SolveStep
    PROVE  /\ \A r \in Rotas :
                 draft'[r] # draft[r] => solve.at # "idle" /\ draft'[r].stamp = solve.stamp
           /\ \/ solve.at # "idle" /\ solve'.stamp = solve.stamp
              \/ solve'.stamp = 0 /\ solve'.at = "idle"
              \/ \E r \in Rotas : solve'.stamp = stamp[r]
<1>0. solve \in Solves /\ draft \in [Rotas -> Drafts \cup {None}]
  BY DEF TypeOK
<1>1. CASE PickRota
  BY <1>1 DEF PickRota, rotas, Unallocated
<1>2. CASE SolveRoles \/ SolveRules
  BY <1>0, <1>2 DEF SolveRoles, SolveRules, rotas, Solves
<1>3. CASE StoreDraft
  BY <1>0, <1>3 DEF StoreDraft, IdleSolve
<1>4. CASE SolveFails
  BY <1>4 DEF SolveFails, IdleSolve, rotas
<1> QED
  BY <1>1, <1>2, <1>3, <1>4 DEF SolveStep

LEMMA ClockedStep ==
    ASSUME TypeOK, StepsTyped, Clocked, [Next]_vars
    PROVE  Clocked'
<1>0. /\ clock \in Nat /\ stamp \in [Rotas -> 0 .. MaxClock] /\ solve \in Solves
      /\ \A r \in Rotas : draft[r] # None => draft[r].stamp \in Nat
      /\ \A w \in Writers : write[w].time \in Nat
      /\ \A e \in Editors : edit[e].time \in Nat
      /\ solve.stamp \in Nat /\ \A r \in Rotas : stamp[r] \in Nat
  BY BoundsAssumption DEF TypeOK, Writes, Edits, Solves, Drafts
<1>1. ASSUME NEW w \in Writers, WriteStep(w)
      PROVE  Clocked'
  <2>1. CASE Begins(w)
    <3>1. /\ clock' = clock + 1 /\ UNCHANGED <<stamp, draft, edit, solve>>
          /\ write'[w].time = clock'
          /\ \A v \in Writers \ {w} : write'[v] = write[v]
      BY <2>1, BeginEffect DEF rotas
    <3> QED
      BY <1>0, <3>1 DEF Clocked
  <2>2. CASE ~Begins(w)
    <3>1. FindRotas(w) \/ CommitWrite(w) \/ RollBackWrite(w)
      BY <1>1, <2>2 DEF WriteStep, Begins
    <3>2. /\ UNCHANGED <<draft, clock, edit, solve>>
          /\ \A v \in Writers \ {w} : write'[v] = write[v]
          /\ write'[w].time \in {0, write[w].time}
      BY <3>1, WriteOwn
    <3>3. \A r \in Rotas : stamp'[r] \in {stamp[r], write[w].time}
      BY <3>1, CommitStamps DEF FindRotas, RollBackWrite, rotas
    <3> QED
      BY <1>0, <3>2, <3>3 DEF Clocked
  <2> QED
    BY <2>1, <2>2
<1>2. ASSUME NEW e \in Editors, EditStep(e)
      PROVE  Clocked'
  <2>1. CASE LockRota(e)
    <3>1. /\ clock' = clock + 1 /\ UNCHANGED <<stamp, draft, write, solve>>
          /\ edit'[e].time = clock'
          /\ \A f \in Editors \ {e} : edit'[f] = edit[f]
      BY <2>1, LockEffect DEF rotas
    <3> QED
      BY <1>0, <3>1 DEF Clocked
  <2>2. CASE NameRole(e) \/ CommitEdit(e) \/ RollBackEdit(e)
    <3>1. /\ UNCHANGED <<draft, clock, write, solve>>
          /\ \A f \in Editors \ {e} : edit'[f] = edit[f]
          /\ edit'[e].time \in {0, edit[e].time}
      BY <2>2, EditOwn
    <3>2. \A r \in Rotas : stamp'[r] \in {stamp[r], edit[e].time}
      BY <1>0, <2>2, EditStamps
    <3> QED
      BY <1>0, <3>1, <3>2 DEF Clocked
  <2> QED
    BY <1>2, <2>1, <2>2 DEF EditStep
<1>3. CASE SolveStep
  <2>1. UNCHANGED <<stamp, clock, write, edit>>
    BY <1>3, SolveType
  <2>2. /\ \A r \in Rotas : draft'[r] # None =>
              draft'[r] = draft[r] \/ draft'[r].stamp = solve.stamp
        /\ \/ solve'.stamp = solve.stamp \/ solve'.stamp = 0
           \/ \E r \in Rotas : solve'.stamp = stamp[r]
    BY <1>3, SolveStamps
  <2> QED
    BY <1>0, <2>1, <2>2 DEF Clocked
<1>4. ASSUME NEW r \in Rotas, DefineRota(r) \/ EndRota(r)
      PROVE  Clocked'
  <2>1. /\ UNCHANGED <<stamp, clock, write, edit, solve>>
        /\ \A q \in Rotas : draft'[q] \in {draft[q], None}
    BY <1>4, RotaEffect
  <2> QED
    BY <2>1 DEF Clocked
<1>5. CASE UNCHANGED vars
  BY <1>5 DEF Clocked, vars, rotas
<1> QED
  BY <1>1, <1>2, <1>3, <1>4, <1>5, NextCases

\* The time of a transaction that begins is new.
LEMMA NewTime ==
    ASSUME TypeOK, Clocked
    PROVE  /\ Unused(clock + 1)
           /\ \A w \in Writers : write[w].time # clock + 1
           /\ \A e \in Editors : edit[e].time # clock + 1
<1>0. /\ clock \in Nat
      /\ \A r \in Rotas : stamp[r] \in Nat
      /\ \A r \in Rotas : draft[r] # None => draft[r].stamp \in Nat
      /\ \A w \in Writers : write[w].time \in Nat
      /\ \A e \in Editors : edit[e].time \in Nat
      /\ solve.stamp \in Nat
  BY BoundsAssumption DEF TypeOK, Writes, Edits, Solves, Drafts
<1> QED
  BY <1>0 DEF Clocked, Unused

LEMMA OwnStep ==
    ASSUME TypeOK, StepsTyped, Clocked, OwnTimes, [Next]_vars
    PROVE  OwnTimes'
<1>1. ASSUME NEW w \in Writers, WriteStep(w)
      PROVE  OwnTimes'
  <2>1. CASE Begins(w)
    <3>1. /\ UNCHANGED <<stamp, draft, edit, solve>> /\ write'[w].time = clock + 1
          /\ \A v \in Writers \ {w} : write'[v] = write[v]
      BY <2>1, BeginEffect DEF rotas
    <3>2. \A t : Unused(t)' <=> Unused(t)
      BY <3>1 DEF Unused
    <3> QED
      BY <3>1, <3>2, NewTime DEF OwnTimes
  <2>2. CASE FindRotas(w) \/ RollBackWrite(w)
    <3>1. /\ UNCHANGED <<draft, edit, solve, stamp>>
          /\ \A v \in Writers \ {w} : write'[v] = write[v]
          /\ write'[w].at # "idle" =>
                write[w].at # "idle" /\ write'[w].time = write[w].time
      BY <2>2, WriteOwn DEF FindRotas, RollBackWrite, rotas
    <3>2. \A t : Unused(t)' <=> Unused(t)
      BY <3>1 DEF Unused
    <3> QED
      BY <3>1, <3>2 DEF OwnTimes
  <2>3. CASE CommitWrite(w)
    <3>1. /\ UNCHANGED <<draft, edit, solve>>
          /\ \A v \in Writers \ {w} : write'[v] = write[v]
          /\ write[w].at # "idle" /\ write'[w].at = "idle"
      BY <2>3, WriteOwn DEF CommitWrite
    <3>2. \A r \in Rotas : stamp'[r] \in {stamp[r], write[w].time}
      BY <2>3, CommitStamps
    <3>3. \A t : t # write[w].time /\ Unused(t) => Unused(t)'
      BY <3>1, <3>2 DEF Unused
    <3> QED
      BY <3>1, <3>3 DEF OwnTimes
  <2> QED
    BY <1>1, <2>1, <2>2, <2>3 DEF WriteStep, Begins
<1>2. ASSUME NEW e \in Editors, EditStep(e)
      PROVE  OwnTimes'
  <2>1. CASE LockRota(e)
    <3>1. /\ UNCHANGED <<stamp, draft, write, solve>> /\ edit'[e].time = clock + 1
          /\ \A f \in Editors \ {e} : edit'[f] = edit[f]
      BY <2>1, LockEffect DEF rotas
    <3>2. \A t : Unused(t)' <=> Unused(t)
      BY <3>1 DEF Unused
    <3> QED
      BY <3>1, <3>2, NewTime DEF OwnTimes
  <2>2. ASSUME NameRole(e) \/ CommitEdit(e) \/ RollBackEdit(e), UNCHANGED stamp
        PROVE  OwnTimes'
    <3>1. /\ UNCHANGED <<draft, write, solve>>
          /\ \A f \in Editors \ {e} : edit'[f] = edit[f]
          /\ edit'[e].at # "idle" => edit[e].at # "idle" /\ edit'[e].time = edit[e].time
      BY <2>2, EditOwn
    <3>2. \A t : Unused(t)' <=> Unused(t)
      BY <2>2, <3>1 DEF Unused
    <3> QED
      BY <3>1, <3>2 DEF OwnTimes
  <2>3. ASSUME NameRole(e) \/ CommitEdit(e) \/ RollBackEdit(e), ~UNCHANGED stamp
        PROVE  OwnTimes'
    <3>1. /\ UNCHANGED <<draft, write, solve>>
          /\ \A f \in Editors \ {e} : edit'[f] = edit[f]
      BY <2>3, EditOwn
    <3>2. /\ edit[e].at # "idle" /\ edit'[e].at = "idle"
          /\ stamp' = [stamp EXCEPT ![edit[e].rota] = edit[e].time]
      BY <2>3, EditStamps
    <3>3. \A r \in Rotas : stamp'[r] \in {stamp[r], edit[e].time}
      BY <3>2 DEF TypeOK
    <3>4. \A t : t # edit[e].time /\ Unused(t) => Unused(t)'
      BY <3>1, <3>3 DEF Unused
    <3> QED
      BY <3>1, <3>2, <3>4 DEF OwnTimes
  <2> QED
    BY <1>2, <2>1, <2>2, <2>3 DEF EditStep
<1>3. CASE SolveStep
  <2>1. UNCHANGED <<stamp, write, edit>>
    BY <1>3, SolveType
  <2>2. \A t : Unused(t) => Unused(t)'
    BY <1>3, <2>1, SolveStamps DEF Unused
  <2> QED
    BY <2>1, <2>2 DEF OwnTimes
<1>4. ASSUME NEW r \in Rotas, DefineRota(r) \/ EndRota(r)
      PROVE  OwnTimes'
  <2>1. /\ UNCHANGED <<stamp, write, edit, solve>>
        /\ \A q \in Rotas : draft'[q] \in {draft[q], None}
    BY <1>4, RotaEffect
  <2>2. \A t : Unused(t) => Unused(t)'
    BY <2>1 DEF Unused
  <2> QED
    BY <2>1, <2>2 DEF OwnTimes
<1>5. CASE UNCHANGED vars
  BY <1>5 DEF OwnTimes, Unused, vars, rotas
<1> QED
  BY <1>1, <1>2, <1>3, <1>4, <1>5, NextCases

-----------------------------------------------------------------------------
(* Stamps and settings. *)

LEMMA FindsStep ==
    ASSUME TypeOK, StepsTyped, FindsAll, [Next]_vars
    PROVE  FindsAll'
<1>1. ASSUME NEW w \in Writers, WriteStep(w)
      PROVE  FindsAll'
  <2>1. /\ UNCHANGED rota
        /\ \A v \in Writers \ {w} : write'[v] = write[v]
        /\ write'[w].at = "stamping" => write'[w].todo = Unallocated
    BY <1>1, BeginEffect, WriteOwn DEF WriteStep, Begins, rotas
  <2> QED
    BY <2>1 DEF FindsAll, Unallocated
<1>2. ASSUME UNCHANGED <<rota, write>>
      PROVE  FindsAll'
  BY <1>2 DEF FindsAll, Unallocated
<1>3. ASSUME NEW r \in Rotas, DefineRota(r) \/ EndRota(r)
      PROVE  FindsAll'
  <2>1. /\ UNCHANGED write
        /\ \A q \in Rotas : rota[q] # "undefined" =>
              /\ rota'[q] # "undefined"
              /\ rota'[q] = "unallocated" => rota[q] = "unallocated"
    BY <1>3, RotaEffect
  <2> QED
    BY <2>1 DEF FindsAll, Unallocated
<1>4. \/ \E w \in Writers : WriteStep(w)
      \/ UNCHANGED <<rota, write>>
      \/ \E r \in Rotas : DefineRota(r) \/ EndRota(r)
  BY NextCases, LockEffect, EditOwn, SolveType DEF EditStep, vars, rotas
<1> QED
  BY <1>1, <1>2, <1>3, <1>4

\* A transaction that stamps: no solve and no draft of a rota that was there from the
\* start goes by the stamps it leaves.
LEMMA StampsTell ==
    ASSUME TypeOK, StepsTyped, OwnTimes, FindsAll, NEW w \in Writers, CommitWrite(w),
           NEW r \in Unallocated \ Unborn
    PROVE  /\ stamp'[r] # solve.stamp \/ solve.at = "idle"
           /\ draft[r] # None => draft[r].stamp # stamp'[r]
<1>1. write[w].at = "stamping" /\ r \in Rotas
  BY DEF CommitWrite, Unallocated
<1>2. stamp'[r] = write[w].time
  BY <1>1, CommitStamps DEF FindsAll
<1> QED
  BY <1>1, <1>2 DEF OwnTimes, Unused

LEMMA TellStep ==
    ASSUME TypeOK, StepsTyped, OwnTimes, FindsAll, SolveTells, DraftTellsSettings,
           [Next]_vars
    PROVE  SolveTells' /\ DraftTellsSettings'
<1>0. /\ solve \in Solves /\ draft \in [Rotas -> Drafts \cup {None}]
      /\ stamp \in [Rotas -> 0 .. MaxClock]
  BY DEF TypeOK
<1>1. ASSUME UNCHANGED <<settings, rotas, solve>>
      PROVE  SolveTells' /\ DraftTellsSettings'
  BY <1>1 DEF settings, rotas, SolveTells, DraftTellsSettings, Unallocated
<1>2. ASSUME NEW w \in Writers, CommitWrite(w)
      PROVE  SolveTells' /\ DraftTellsSettings'
  <2>1. UNCHANGED <<rota, draft, solve>> /\ Unallocated' = Unallocated
    BY <1>2, WriteOwn DEF Unallocated
  <2>2. SolveTells'
    BY <1>2, <2>1, StampsTell DEF SolveTells
  <2>3. DraftTellsSettings'
    BY <1>2, <2>1, StampsTell DEF DraftTellsSettings
  <2> QED
    BY <2>2, <2>3
<1>3. ASSUME NEW e \in Editors, CommitEdit(e)
      PROVE  SolveTells' /\ DraftTellsSettings'
  <2>1. UNCHANGED <<settings, rota, draft, solve>> /\ Unallocated' = Unallocated
    BY <1>3, EditOwn DEF Unallocated
  <2>2. /\ edit[e].at # "idle"
        /\ stamp' = [stamp EXCEPT ![edit[e].rota] = edit[e].time]
    BY <1>3 DEF CommitEdit
  <2>3. \A r \in Rotas : stamp'[r] = stamp[r]
           \/ /\ draft[r] # None => draft[r].stamp # stamp'[r]
              /\ solve.at # "idle" => solve.stamp # stamp'[r]
    BY <1>0, <2>2 DEF OwnTimes, Unused
  <2>4. SolveTells'
    BY <2>1, <2>3 DEF SolveTells, Unallocated, settings
  <2>5. DraftTellsSettings'
    BY <2>1, <2>3 DEF DraftTellsSettings, Unallocated, settings
  <2> QED
    BY <2>4, <2>5
<1>4. CASE SolveStep
  <2>1. UNCHANGED <<settings, rota, stamp>> /\ Unallocated' = Unallocated
    BY <1>4, SolveType DEF Unallocated
  <2>2. CASE PickRota
    BY <2>1, <2>2 DEF PickRota, rotas, SolveTells, DraftTellsSettings, settings
  <2>3. CASE SolveRoles
    BY <1>0, <2>1, <2>3
       DEF SolveRoles, rotas, Solves, SolveTells, DraftTellsSettings, settings
  <2>4. CASE SolveRules
    BY <1>0, <2>1, <2>4
       DEF SolveRules, rotas, Solves, SolveTells, DraftTellsSettings, settings
  <2>5. CASE StoreDraft
    <3>1. solve'.at = "idle"
      BY <2>5 DEF StoreDraft, IdleSolve
    <3>2. /\ \A r \in Rotas \ {solve.rota} : draft'[r] = draft[r]
          /\ draft'[solve.rota] = [stamp |-> solve.stamp, roles |-> solve.roles,
                                   rules |-> solve.rules]
      BY <1>0, <2>5 DEF StoreDraft, Unallocated
    <3>3. SolveTells'
      BY <3>1 DEF SolveTells
    <3>4. solve.at = "solved"
      BY <2>5 DEF StoreDraft
    <3>5. DraftTellsSettings'
      BY <2>1, <3>2, <3>4 DEF DraftTellsSettings, SolveTells, Unallocated, settings
    <3> QED
      BY <3>3, <3>5
  <2>6. CASE SolveFails
    BY <2>1, <2>6 DEF SolveFails, IdleSolve, rotas, SolveTells, DraftTellsSettings, settings
  <2> QED
    BY <1>4, <2>2, <2>3, <2>4, <2>5, <2>6 DEF SolveStep
<1>5. ASSUME NEW r \in Rotas, DefineRota(r) \/ EndRota(r)
      PROVE  SolveTells' /\ DraftTellsSettings'
  <2>1. /\ UNCHANGED <<settings, stamp, solve>>
        /\ \A q \in Rotas : draft'[q] \in {draft[q], None}
    BY <1>5, RotaEffect
  <2>2. Unallocated' \ Unborn \subseteq Unallocated \ Unborn
    BY <1>5, RotaEffect DEF FindsAll, Unallocated
  <2>3. SolveTells'
    BY <2>1, <2>2 DEF SolveTells, settings
  <2>4. DraftTellsSettings'
    BY <2>1, <2>2 DEF DraftTellsSettings, settings, Unallocated
  <2> QED
    BY <2>3, <2>4
<1>6. \/ UNCHANGED <<settings, rotas, solve>>
      \/ \E w \in Writers : CommitWrite(w)
      \/ \E e \in Editors : CommitEdit(e)
      \/ SolveStep
      \/ \E r \in Rotas : DefineRota(r) \/ EndRota(r)
  <2>1. ASSUME NEW w \in Writers, WriteStep(w), ~CommitWrite(w)
        PROVE  UNCHANGED <<settings, rotas, solve>>
    BY <2>1 DEF WriteStep, WriteRole, WriteRules, FindRotas, RollBackWrite
  <2>2. ASSUME NEW e \in Editors, EditStep(e), ~CommitEdit(e)
        PROVE  UNCHANGED <<settings, rotas, solve>>
    BY <2>2 DEF EditStep, LockRota, NameRole, RollBackEdit
  <2> QED
    BY <2>1, <2>2, NextCases DEF vars
<1> QED
  BY <1>1, <1>2, <1>3, <1>4, <1>5, <1>6

-----------------------------------------------------------------------------
(* The invariants. *)

LEMMA InitInv ==
    ASSUME Init
    PROVE  IndInv
<1>1. IdleWrite \in Writes /\ IdleEdit \in Edits /\ IdleSolve \in Solves
  BY BoundsAssumption DEF IdleWrite, IdleEdit, IdleSolve, Writes, Edits, Solves
<1>2. /\ \A w \in Writers : write[w].at = "idle" /\ write[w].time = 0
      /\ \A e \in Editors : edit[e].at = "idle" /\ edit[e].time = 0
      /\ solve.at = "idle" /\ solve.stamp = 0 /\ clock = 0
      /\ \A r \in Rotas : stamp[r] = 0 /\ draft[r] = None
      /\ \A r \in Rotas \ Unborn : rota[r] = "unallocated"
  BY DEF Init, IdleWrite, IdleEdit, IdleSolve
<1>3. TypeOK
  <2>1. /\ write \in [Writers -> Writes] /\ edit \in [Editors -> Edits]
        /\ solve \in Solves
    BY <1>1 DEF Init
  <2>2. /\ stamp \in [Rotas -> 0 .. MaxClock] /\ clock \in 0 .. MaxClock
        /\ draft \in [Rotas -> Drafts \cup {None}]
        /\ rota \in [Rotas -> {"undefined", "unallocated", "allocated", "discarded"}]
    BY BoundsAssumption DEF Init
  <2>3. /\ roles \in [Roles -> RoleRows \cup {None}] /\ rules \in Rules \cup {None}
        /\ \A x \in Known : ~NameTaken(x, roles[x].name)
    BY DEF Init
  <2> QED
    BY <2>1, <2>2, <2>3, Zenon DEF TypeOK
<1>4. StepsTyped /\ NamesApart /\ Clocked /\ OwnTimes /\ SolveTells
  BY <1>2 DEF StepsTyped, NamesApart, Writing, Clocked, OwnTimes, SolveTells
<1>5. FindsAll /\ DraftTellsSettings
  BY <1>2 DEF FindsAll, DraftTellsSettings, Unallocated
<1> QED
  BY <1>3, <1>4, <1>5 DEF IndInv

LEMMA StepInv ==
    ASSUME IndInv, [Next]_vars
    PROVE  IndInv'
BY TypeStep, StepsTypedStep, NamesStep, ClockedStep, OwnStep, FindsStep, TellStep
   DEF IndInv

\* The invariant the others follow from.
THEOREM Inductive == Spec => []IndInv
<1>1. Init => IndInv
  BY InitInv
<1>2. IndInv /\ [Next]_vars => IndInv'
  BY StepInv
<1> QED
  BY <1>1, <1>2, PTL DEF Spec

\* Every variable has its type, and no two Roles have one name, however many are
\* created and renamed at once.
THEOREM TypeCorrect == Spec => []TypeOK
<1>1. IndInv => TypeOK
  BY DEF IndInv
<1> QED
  BY <1>1, Inductive, PTL

\* A draft with its rota's stamp is solved from the settings as they are
\* (markAllRotaInputsChanged).
THEOREM DraftTells == Spec => []DraftTellsSettings
<1>1. IndInv => DraftTellsSettings
  BY DEF IndInv
<1> QED
  BY <1>1, Inductive, PTL
=============================================================================
