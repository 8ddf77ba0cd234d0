------------------------- MODULE RotaDefinitionProofs -------------------------
(***************************************************************************)
(* Proofs about RotaDefinition, for any number of definitions, saves,      *)
(* Roles, promises and days.                                               *)
(***************************************************************************)
EXTENDS RotaDefinition, WellFoundedInduction, TLAPS

\* Rows that, of every save they have a row of, have all it stated; and each of
\* these saves has committed.
WholeIn(rows, saves) ==
    \A row \in rows :
        /\ row.by \in Savers
        /\ saves[row.by].at = "saved"
        /\ row.role \in saves[row.by].stated
        /\ \A x \in saves[row.by].stated : Row(row.by, x) \in rows
        /\ row = Row(row.by, row.role)

\* Whatever rows are on record, about to be deleted, or copied, are of whole saves.
WholeSaves ==
    /\ WholeIn(shape, save)
    /\ \A s \in Savers : WholeIn(save[s].doomed, save)
    /\ \A d \in Definers : WholeIn(rota[d].asks, save)

\* The Roles a save has rows for so far.
Filled(s) == save[s].stated \ save[s].left

\* A save that is not at its end has no Role that stays on record, nor one of
\* another such save.
KeysApart ==
    /\ \A s \in Savers : save[s].at = "clearing" => Filled(s) = {}
    /\ \A s \in Savers : save[s].at = "filling" =>
          /\ \A x \in Filled(s), row \in shape \ save[s].doomed : row.role # x
          /\ \A t \in Savers \ {s} :
                save[t].at = "filling" => Filled(s) \cap Filled(t) = {}

\* No two rotas, defined or being inserted, have a day in common.
DatesApart ==
    \A d, e \in Definers : d # e => rota[d].dates \cap rota[e].dates = {}

\* The saves a save began after have committed.  While it is not at its end it is
\* about to delete the rows of those, and no others.
SavesInOrder ==
    \A s \in Savers :
        /\ save[s].after \subseteq Saved
        /\ save[s].at \in {"clearing", "filling"} =>
              /\ \A row \in shape : row.by \in save[s].after => row \in save[s].doomed
              /\ \A row \in save[s].doomed : row.by \in save[s].after

IndInv ==
    /\ TypeOK
    /\ WholeSaves
    /\ KeysApart
    /\ DatesApart
    /\ SavesInOrder
    /\ ShapeOfLatestSaves

-----------------------------------------------------------------------------
(* The steps. *)

Edits ==
    \/ SetRole \/ SaveTimes
    \/ \E p \in Promises : AddStanding(p) \/ DeleteStanding(p)

Saving(s) ==
    StartSave(s) \/ ClearShape(s) \/ FillRow(s) \/ CommitSave(s) \/ RollBackSave(s)

Defining(d) ==
    \/ BeginDefine(d) \/ ReadShape(d) \/ CheckRotas(d) \/ ReadStanding(d)
    \/ ReadRoles(d) \/ InsertRota(d) \/ CommitRota(d) \/ EndDefine(d) \/ EndRota(d)

LEMMA NextCases ==
    ASSUME Next
    PROVE  \/ Edits
           \/ \E s \in Savers : Saving(s)
           \/ \E d \in Definers : Defining(d)
BY DEF Next, Edits, Saving, Defining

LEMMA EditsFrame ==
    ASSUME Edits
    PROVE  UNCHANGED <<shape, save, rota>>
BY DEF Edits, SetRole, SaveTimes, AddStanding, DeleteStanding

LEMMA SavingFrame ==
    ASSUME NEW s \in Savers, Saving(s)
    PROVE  UNCHANGED <<roles, hours, standing, rota>>
BY DEF Saving, StartSave, ClearShape, FillRow, CommitSave, RollBackSave

LEMMA DefiningFrame ==
    ASSUME NEW d \in Definers, Defining(d)
    PROVE  UNCHANGED <<roles, hours, shape, standing, edits, save>>
BY DEF Defining, BeginDefine, ReadShape, CheckRotas, ReadStanding, ReadRoles,
       InsertRota, CommitRota, EndDefine, EndRota

\* A save moves its own request only, and not once it has committed.
LEMMA SavingOwn ==
    ASSUME TypeOK, NEW s \in Savers, Saving(s)
    PROVE  /\ save[s].at # "saved"
           /\ \A t \in Savers \ {s} : save'[t] = save[t]
<1>1. save \in [Savers -> Saves]
  BY DEF TypeOK
<1>2. CASE StartSave(s)
  BY <1>1, <1>2 DEF StartSave
<1>3. CASE ClearShape(s)
  BY <1>1, <1>3 DEF ClearShape
<1>4. CASE FillRow(s)
  BY <1>1, <1>4 DEF FillRow
<1>5. CASE CommitSave(s)
  BY <1>1, <1>5 DEF CommitSave
<1>6. CASE RollBackSave(s)
  BY <1>1, <1>6 DEF RollBackSave
<1> QED
  BY <1>2, <1>3, <1>4, <1>5, <1>6 DEF Saving

-----------------------------------------------------------------------------
(* Types. *)

LEMMA IdleSaveType == IdleSave \in Saves
BY DEF IdleSave, Saves

LEMMA NoRotaType == NoRota \in Rotas
<1>1. /\ [p \in Promises |-> None] \in [Promises -> Promised \cup {None}]
      /\ [x \in Roles |-> None] \in [Roles -> Ranks \cup {None}]
  OBVIOUS
<1> QED
  BY <1>1 DEF NoRota, Rotas

LEMMA PutType ==
    ASSUME TypeOK, NEW s \in Savers
    PROVE  Put(s) \in SUBSET Rows
<1>1. save[s].stated \in SUBSET Roles
  BY DEF TypeOK, Saves
<1> QED
  BY <1>1 DEF Put, Row, Rows

\* A row of the Role x that s put there says that x is one of its Roles.
LEMMA PutIs ==
    ASSUME NEW s, NEW row \in Put(s)
    PROVE  row.role \in Filled(s) /\ row.by = s /\ row = Row(s, row.role)
BY DEF Put, Row, Filled

LEMMA SavingType ==
    ASSUME TypeOK, KeysApart, NEW s \in Savers, Saving(s)
    PROVE  TypeOK'
<1>0. save \in [Savers -> Saves] /\ shape \in SUBSET Rows
  BY DEF TypeOK
<1>1. CASE StartSave(s)
  <2>1. PICK stated \in SUBSET Known :
           save' = [save EXCEPT ![s] =
              [at |-> "clearing", stated |-> stated, doomed |-> shape, left |-> stated,
               after |-> Saved]]
    BY <1>1 DEF StartSave, Stated
  <2>2. stated \in SUBSET Roles /\ Saved \in SUBSET Savers
    BY DEF Known, Saved
  <2>3. [at |-> "clearing", stated |-> stated, doomed |-> shape, left |-> stated,
         after |-> Saved] \in Saves
    BY <1>0, <2>2 DEF Saves
  <2>4. save' \in [Savers -> Saves]
    BY <1>0, <2>1, <2>3
  <2>5. edits' \in 0 .. MaxEdits
    BY <1>1, EditsAssumption DEF StartSave, CountEdit, TypeOK
  <2> QED
    BY <1>1, <2>4, <2>5 DEF StartSave, TypeOK
<1>2. CASE ClearShape(s)
  <2>1. save' \in [Savers -> Saves]
    BY <1>0, <1>2 DEF ClearShape, Saves
  <2> QED
    BY <1>2, <2>1 DEF ClearShape, TypeOK
<1>3. CASE FillRow(s)
  <2>1. PICK x \in save[s].left :
           save' = IF Taken(s, x) THEN [save EXCEPT ![s] = IdleSave]
                   ELSE [save EXCEPT ![s].left = @ \ {x}]
    BY <1>3 DEF FillRow
  <2>2. [save EXCEPT ![s].left = @ \ {x}] \in [Savers -> Saves]
    BY <1>0 DEF Saves
  <2>3. [save EXCEPT ![s] = IdleSave] \in [Savers -> Saves]
    BY <1>0, IdleSaveType
  <2>4. save' \in [Savers -> Saves]
    BY <2>1, <2>2, <2>3
  <2> QED
    BY <1>3, <2>4 DEF FillRow, TypeOK
<1>4. CASE CommitSave(s)
  <2>0. save[s] \in Saves
    BY <1>0
  <2>1. save' \in [Savers -> Saves]
    <3>1. [save EXCEPT ![s].at = "saved"] \in [Savers -> Saves]
      BY <1>0, <2>0 DEF Saves
    <3>2. ASSUME NEW f \in [Savers -> Saves]
          PROVE  [f EXCEPT ![s].doomed = {}] \in [Savers -> Saves]
      BY <3>2 DEF Saves
    <3> QED
      BY <1>4, <3>1, <3>2 DEF CommitSave
  <2>2. shape' = (shape \ save[s].doomed) \cup Put(s)
    BY <1>4 DEF CommitSave, Replaced
  <2>3. shape' \in SUBSET Rows
    BY <1>0, <2>2, PutType
  <2>4. \A row1, row2 \in shape' : row1.role = row2.role => row1 = row2
    <3>1. \A row1, row2 \in shape : row1.role = row2.role => row1 = row2
      BY DEF TypeOK
    <3>2. \A row1, row2 \in Put(s) : row1.role = row2.role => row1 = row2
      BY PutIs
    <3>3. \A row1 \in shape \ save[s].doomed, row2 \in Put(s) : row1.role # row2.role
      BY <1>4, PutIs DEF CommitSave, KeysApart
    <3> QED
      BY <2>2, <3>1, <3>2, <3>3
  <2> QED
    BY <1>4, <2>1, <2>3, <2>4 DEF CommitSave, TypeOK
<1>5. CASE RollBackSave(s)
  <2>1. save' \in [Savers -> Saves]
    BY <1>0, <1>5, IdleSaveType DEF RollBackSave
  <2> QED
    BY <1>5, <2>1 DEF RollBackSave, TypeOK
<1> QED
  BY <1>1, <1>2, <1>3, <1>4, <1>5 DEF Saving

\* What a definition does to its rota.
LEMMA DefiningType ==
    ASSUME TypeOK, NEW d \in Definers, Defining(d)
    PROVE  TypeOK'
<1>0. /\ rota \in [Definers -> Rotas] /\ shape \in SUBSET Rows
      /\ standing \in [Promises -> Promised \cup {None}]
      /\ Known \in SUBSET Roles
  BY DEF TypeOK, Known
<1>1. CASE BeginDefine(d)
  <2>1. rota' = [rota EXCEPT ![d] = [rota[d] EXCEPT !.life = "shape", !.known = Known]]
    BY <1>0, <1>1 DEF BeginDefine
  <2>2. [rota[d] EXCEPT !.life = "shape", !.known = Known] \in Rotas
    BY <1>0 DEF Rotas, Committed
  <2>3. rota' \in [Definers -> Rotas]
    BY <1>0, <2>1, <2>2
  <2> QED
    BY <1>1, <2>3 DEF BeginDefine, TypeOK
<1>2. CASE ReadShape(d)
  <2>1. rota' = [rota EXCEPT ![d] =
            [rota[d] EXCEPT !.life = "rotas", !.asks = Committed, !.known = {}]]
    BY <1>0, <1>2 DEF ReadShape
  <2>2. [rota[d] EXCEPT !.life = "rotas", !.asks = Committed, !.known = {}] \in Rotas
    BY <1>0 DEF Rotas, Committed
  <2>3. rota' \in [Definers -> Rotas]
    BY <1>0, <2>1, <2>2
  <2> QED
    BY <1>2, <2>3 DEF ReadShape, TypeOK
<1>3. CASE CheckRotas(d)
  <2>1. rota' = [rota EXCEPT ![d] = [rota[d] EXCEPT !.life = "standing"]]
    BY <1>0, <1>3 DEF CheckRotas
  <2>2. [rota[d] EXCEPT !.life = "standing"] \in Rotas
    BY <1>0 DEF Rotas, Committed
  <2>3. rota' \in [Definers -> Rotas]
    BY <1>0, <2>1, <2>2
  <2> QED
    BY <1>3, <2>3 DEF CheckRotas, TypeOK
<1>4. CASE ReadStanding(d)
  <2>1. rota' = [rota EXCEPT ![d] = [rota[d] EXCEPT !.life = "roles", !.promised = standing]]
    BY <1>0, <1>4 DEF ReadStanding
  <2>2. [rota[d] EXCEPT !.life = "roles", !.promised = standing] \in Rotas
    BY <1>0 DEF Rotas
  <2>3. rota' \in [Definers -> Rotas]
    BY <1>0, <2>1, <2>2
  <2> QED
    BY <1>4, <2>3 DEF ReadStanding, TypeOK
<1>9. CASE ReadRoles(d)
  <2>1. rota' = [rota EXCEPT ![d] = [rota[d] EXCEPT !.life = "seeding", !.ranks = roles]]
    BY <1>0, <1>9 DEF ReadRoles
  <2>2. [rota[d] EXCEPT !.life = "seeding", !.ranks = roles] \in Rotas
    BY <1>0 DEF Rotas, TypeOK
  <2>3. rota' \in [Definers -> Rotas]
    BY <1>0, <2>1, <2>2
  <2> QED
    BY <1>9, <2>3 DEF ReadRoles, TypeOK
<1>5. CASE InsertRota(d)
  <2>1. PICK dates \in SUBSET Dates :
           rota' = [rota EXCEPT ![d] = [NoRota EXCEPT
              !.life = "inserted", !.dates = dates,
              !.pins = Seeds(rota[d].promised, rota[d].ranks, dates)]]
    BY <1>5 DEF InsertRota
  <2>2. Seeds(rota[d].promised, rota[d].ranks, dates) \in SUBSET Pins
    BY DEF Seeds, Pins
  <2>4. [NoRota EXCEPT !.life = "inserted", !.dates = dates,
             !.pins = Seeds(rota[d].promised, rota[d].ranks, dates)] \in Rotas
    BY <2>2, NoRotaType DEF Rotas
  <2>5. rota' \in [Definers -> Rotas]
    BY <1>0, <2>1, <2>4
  <2> QED
    BY <1>5, <2>5 DEF InsertRota, TypeOK
<1>6. CASE CommitRota(d)
  <2>1. rota' = [rota EXCEPT ![d] =
            [rota[d] EXCEPT !.life = "unallocated", !.pins = {}]]
    BY <1>0, <1>6 DEF CommitRota
  <2>2. [rota[d] EXCEPT !.life = "unallocated", !.pins = {}] \in Rotas
    BY <1>0 DEF Rotas, Committed
  <2>3. rota' \in [Definers -> Rotas]
    BY <1>0, <2>1, <2>2
  <2> QED
    BY <1>6, <2>3 DEF CommitRota, TypeOK
<1>7. CASE EndDefine(d)
  <2>1. rota' \in [Definers -> Rotas]
    BY <1>0, <1>7, NoRotaType DEF EndDefine
  <2> QED
    BY <1>7, <2>1 DEF EndDefine, TypeOK
<1>8. CASE EndRota(d)
  <2>1. [NoRota EXCEPT !.life = "discarded"] \in Rotas
    BY NoRotaType DEF Rotas
  <2>2. [rota[d] EXCEPT !.life = "allocated"] \in Rotas
    BY <1>0 DEF Rotas
  <2>3. \/ rota' = [rota EXCEPT ![d] = [rota[d] EXCEPT !.life = "allocated"]]
        \/ rota' = [rota EXCEPT ![d] = [NoRota EXCEPT !.life = "discarded"]]
    BY <1>0, <1>8 DEF EndRota
  <2>4. rota' \in [Definers -> Rotas]
    BY <1>0, <2>1, <2>2, <2>3
  <2> QED
    BY <1>8, <2>4 DEF EndRota, TypeOK
<1> QED
  BY <1>1, <1>2, <1>3, <1>4, <1>5, <1>6, <1>7, <1>8, <1>9 DEF Defining

LEMMA EditsType ==
    ASSUME TypeOK, Edits
    PROVE  TypeOK'
<1>1. CASE SetRole
  BY <1>1, EditsAssumption DEF SetRole, CountEdit, TypeOK
<1>2. CASE SaveTimes
  BY <1>2 DEF SaveTimes, TypeOK
<1>3. ASSUME NEW p \in Promises, AddStanding(p) \/ DeleteStanding(p)
      PROVE  TypeOK'
  <2>1. standing' \in [Promises -> Promised \cup {None}]
    BY <1>3, AsksAssumption DEF AddStanding, DeleteStanding, TypeOK
  <2>2. edits' \in 0 .. MaxEdits
    BY <1>3, EditsAssumption DEF AddStanding, DeleteStanding, CountEdit, TypeOK
  <2> QED
    BY <1>3, <2>1, <2>2 DEF AddStanding, DeleteStanding, TypeOK
<1> QED
  BY <1>1, <1>2, <1>3 DEF Edits

LEMMA TypeStep ==
    ASSUME TypeOK, KeysApart, [Next]_vars
    PROVE  TypeOK'
<1>1. CASE UNCHANGED vars
  BY <1>1 DEF vars, TypeOK
<1> QED
  BY <1>1, NextCases, EditsType, SavingType, DefiningType

-----------------------------------------------------------------------------
(* What a definition does. *)

LEMMA DefiningEffect ==
    ASSUME TypeOK, NEW d \in Definers, Defining(d)
    PROVE  /\ \A e \in Definers \ {d} : rota'[e] = rota[e]
           /\ rota'[d].asks \in {rota[d].asks, shape, {}}
           /\ \/ rota'[d].dates \in {rota[d].dates, {}}
              \/ Free(d, rota'[d].dates)
<1>0. rota \in [Definers -> Rotas] /\ rota[d] \in Rotas
  BY DEF TypeOK
<1>1. CASE BeginDefine(d)
  BY <1>0, <1>1 DEF BeginDefine, Rotas
<1>2. CASE ReadShape(d)
  BY <1>0, <1>2 DEF ReadShape, Committed, Rotas
<1>3. CASE CheckRotas(d)
  BY <1>0, <1>3 DEF CheckRotas, Rotas
<1>4. CASE ReadStanding(d)
  BY <1>0, <1>4 DEF ReadStanding, Rotas
<1>9. CASE ReadRoles(d)
  BY <1>0, <1>9 DEF ReadRoles, Rotas
<1>5. CASE InsertRota(d)
  <2>1. PICK dates \in SUBSET Dates :
           /\ Free(d, dates)
           /\ rota' = [rota EXCEPT ![d] = [NoRota EXCEPT
                 !.life = "inserted", !.dates = dates,
                 !.pins = Seeds(rota[d].promised, rota[d].ranks, dates)]]
    BY <1>5 DEF InsertRota
  <2>2. rota'[d].dates = dates /\ rota'[d].asks = {}
    BY <1>0, <2>1 DEF NoRota
  <2>3. \A e \in Definers \ {d} : rota'[e] = rota[e]
    BY <1>0, <2>1
  <2> QED
    BY <2>1, <2>2, <2>3
<1>6. CASE CommitRota(d)
  BY <1>0, <1>6 DEF CommitRota, Rotas
<1>7. CASE EndDefine(d)
  BY <1>0, <1>7 DEF EndDefine, NoRota
<1>8. CASE EndRota(d)
  BY <1>0, <1>8 DEF EndRota, NoRota, Rotas
<1> QED
  BY <1>1, <1>2, <1>3, <1>4, <1>5, <1>6, <1>7, <1>8, <1>9 DEF Defining

LEMMA DatesStep ==
    ASSUME TypeOK, DatesApart, [Next]_vars
    PROVE  DatesApart'
<1>1. ASSUME NEW d \in Definers, Defining(d)
      PROVE  DatesApart'
  <2>1. \A e \in Definers \ {d} : rota'[e] = rota[e]
    BY <1>1, DefiningEffect
  <2>2. \A e \in Definers \ {d} : rota'[d].dates \cap rota[e].dates = {}
    BY <1>1, DefiningEffect DEF Free, DatesApart
  <2> QED
    BY <2>1, <2>2 DEF DatesApart
<1>2. CASE UNCHANGED rota
  BY <1>2 DEF DatesApart
<1> QED
  BY <1>1, <1>2, NextCases, EditsFrame, SavingFrame DEF vars

-----------------------------------------------------------------------------
(* Whole saves. *)

LEMMA WholeStays ==
    ASSUME NEW rows, WholeIn(rows, save),
           \A s \in Savers : save[s].at = "saved" => save'[s] = save[s]
    PROVE  WholeIn(rows, save')
BY DEF WholeIn

\* What is left of whole saves when whole saves are taken away is whole.
LEMMA WholeWithout ==
    ASSUME NEW rows, NEW doomed, WholeIn(rows, save), WholeIn(doomed, save)
    PROVE  WholeIn(rows \ doomed, save)
<1>1. ASSUME NEW row \in rows \ doomed, NEW x \in save[row.by].stated
      PROVE  Row(row.by, x) \notin doomed
  <2>1. SUFFICES ASSUME Row(row.by, x) \in doomed PROVE FALSE
    OBVIOUS
  <2>2. Row(row.by, x).by = row.by
    BY DEF Row
  <2>3. row.role \in save[row.by].stated /\ row = Row(row.by, row.role)
    BY <1>1 DEF WholeIn
  <2>4. Row(row.by, row.role) \in doomed
    BY <2>1, <2>2, <2>3 DEF WholeIn
  <2> QED
    BY <1>1, <2>3, <2>4
<1> QED
  BY <1>1 DEF WholeIn

\* The rows of two sets of whole saves together.
LEMMA WholeBoth ==
    ASSUME NEW rows, NEW more, NEW saves, WholeIn(rows, saves), WholeIn(more, saves)
    PROVE  WholeIn(rows \cup more, saves)
BY DEF WholeIn

LEMMA WholeStep ==
    ASSUME TypeOK, WholeSaves, [Next]_vars
    PROVE  WholeSaves'
<1>1. ASSUME NEW s \in Savers, Saving(s)
      PROVE  WholeSaves'
  <2>1. \A t \in Savers : save[t].at = "saved" => save'[t] = save[t]
    BY <1>1, SavingOwn
  <2>2. UNCHANGED rota
    BY <1>1, SavingFrame
  <2>3. save'[s].doomed \in {save[s].doomed, shape, {}}
    <3>1. CASE StartSave(s)
      BY <3>1 DEF StartSave, TypeOK
    <3>2. CASE ClearShape(s)
      BY <3>2 DEF ClearShape, TypeOK, Saves
    <3>3. CASE FillRow(s)
      BY <3>3 DEF FillRow, IdleSave, TypeOK, Saves
    <3>4. CASE CommitSave(s)
      BY <3>4 DEF CommitSave, TypeOK, Saves
    <3>5. CASE RollBackSave(s)
      BY <3>5 DEF RollBackSave, IdleSave, TypeOK
    <3> QED
      BY <1>1, <3>1, <3>2, <3>3, <3>4, <3>5 DEF Saving
  <2>4. WholeIn(save'[s].doomed, save)
    BY <2>3 DEF WholeSaves, WholeIn
  <2>5. \A t \in Savers : WholeIn(save'[t].doomed, save)
    BY <1>1, <2>4, SavingOwn DEF WholeSaves
  <2>6. \A t \in Savers : WholeIn(save'[t].doomed, save')
    BY <2>1, <2>5, WholeStays
  <2>7. \A d \in Definers : WholeIn(rota'[d].asks, save')
    BY <2>1, <2>2, WholeStays DEF WholeSaves
  <2>8. WholeIn(shape', save')
    <3>1. CASE CommitSave(s)
      <4>1. shape' = (shape \ save[s].doomed) \cup Put(s)
        BY <3>1 DEF CommitSave, Replaced
      <4>2. WholeIn(shape \ save[s].doomed, save')
        BY <2>1, WholeWithout, WholeStays DEF WholeSaves
      <4>3. /\ save'[s].at = "saved" /\ save'[s].stated = save[s].stated
            /\ save[s].left = {}
        BY <3>1 DEF CommitSave, TypeOK, Saves
      <4>4. ASSUME NEW row \in Put(s)
            PROVE  /\ row.by = s /\ row = Row(s, row.role)
                   /\ row.role \in save[s].stated
        BY PutIs DEF Filled
      <4>5. \A x \in save[s].stated : Row(s, x) \in Put(s)
        BY <4>3 DEF Put
      <4>6. WholeIn(Put(s), save')
        BY <4>3, <4>4, <4>5 DEF WholeIn
      <4> QED
        BY <4>1, <4>2, <4>6, WholeBoth
    <3>2. CASE UNCHANGED shape
      BY <2>1, <3>2, WholeStays DEF WholeSaves
    <3> QED
      BY <1>1, <3>1, <3>2 DEF Saving, StartSave, ClearShape, FillRow, RollBackSave
  <2> QED
    BY <2>6, <2>7, <2>8 DEF WholeSaves
<1>2. ASSUME NEW d \in Definers, Defining(d)
      PROVE  WholeSaves'
  <2>1. UNCHANGED <<shape, save>>
    BY <1>2, DefiningFrame
  <2>2. WholeIn(rota'[d].asks, save)
    BY <1>2, DefiningEffect DEF WholeSaves, WholeIn
  <2>3. \A e \in Definers : WholeIn(rota'[e].asks, save)
    BY <1>2, <2>2, DefiningEffect DEF WholeSaves
  <2> QED
    BY <2>1, <2>3 DEF WholeSaves
<1>3. CASE UNCHANGED <<shape, save, rota>>
  BY <1>3 DEF WholeSaves
<1> QED
  BY <1>1, <1>2, <1>3, NextCases, EditsFrame DEF vars

-----------------------------------------------------------------------------
(* The primary key of the default Shape. *)

\* A save that ends or begins takes nothing from the others.
LEMMA KeysWithout ==
    ASSUME KeysApart, NEW s \in Savers, UNCHANGED shape,
           \A t \in Savers \ {s} : save'[t] = save[t],
           save'[s].at = "clearing" => Filled(s)' = {},
           save'[s].at = "filling" => /\ save[s].at = "clearing"
                                      /\ Filled(s)' = Filled(s)
    PROVE  KeysApart'
<1>1. \A t \in Savers \ {s} : Filled(t)' = Filled(t)
  BY DEF Filled
<1>2. save'[s].at = "filling" => Filled(s)' = {}
  BY DEF KeysApart
<1> QED
  BY <1>1, <1>2 DEF KeysApart

LEMMA KeysStep ==
    ASSUME TypeOK, KeysApart, [Next]_vars
    PROVE  KeysApart'
<1>0. save \in [Savers -> Saves]
  BY DEF TypeOK
<1>1. ASSUME NEW s \in Savers, StartSave(s)
      PROVE  KeysApart'
  <2>1. save'[s].at = "clearing" /\ save'[s].left = save'[s].stated
    BY <1>0, <1>1 DEF StartSave
  <2>2. Filled(s)' = {}
    BY <2>1 DEF Filled
  <2>3. UNCHANGED shape /\ \A t \in Savers \ {s} : save'[t] = save[t]
    BY <1>0, <1>1 DEF StartSave
  <2> QED
    BY <2>1, <2>2, <2>3, KeysWithout
<1>2. ASSUME NEW s \in Savers, ClearShape(s)
      PROVE  KeysApart'
  <2>1. /\ save[s].at = "clearing" /\ save'[s].at = "filling"
        /\ save'[s].stated = save[s].stated /\ save'[s].left = save[s].left
    BY <1>0, <1>2 DEF ClearShape, Saves
  <2>2. Filled(s)' = Filled(s)
    BY <2>1 DEF Filled
  <2>3. UNCHANGED shape /\ \A t \in Savers \ {s} : save'[t] = save[t]
    BY <1>0, <1>2 DEF ClearShape
  <2> QED
    BY <2>1, <2>2, <2>3, KeysWithout
<1>3. ASSUME NEW s \in Savers, FillRow(s)
      PROVE  KeysApart'
  <2>0. UNCHANGED shape /\ save[s].at = "filling"
    BY <1>3 DEF FillRow
  <2>1. PICK x \in save[s].left :
           /\ \A t \in Savers \ {s} : ~ Pending(t, x)
           /\ save' = IF Taken(s, x) THEN [save EXCEPT ![s] = IdleSave]
                      ELSE [save EXCEPT ![s].left = @ \ {x}]
    BY <1>3 DEF FillRow
  <2>2. \A t \in Savers \ {s} : save'[t] = save[t]
    BY <1>0, <2>1
  <2>3. CASE Taken(s, x)
    <3>1. save'[s].at = "idle"
      BY <1>0, <2>1, <2>3 DEF IdleSave
    <3> QED
      BY <2>0, <2>2, <3>1, KeysWithout
  <2>4. CASE ~ Taken(s, x)
    <3>1. /\ save'[s].at = "filling" /\ save'[s].doomed = save[s].doomed
          /\ save'[s].stated = save[s].stated
          /\ save'[s].left = save[s].left \ {x}
      BY <1>0, <2>0, <2>1, <2>4 DEF Saves
    <3>2. Filled(s)' \subseteq Filled(s) \cup {x}
      BY <3>1 DEF Filled
    <3>3. \A t \in Savers \ {s} : Filled(t)' = Filled(t)
      BY <2>2 DEF Filled
    <3>4. \A row \in shape \ save[s].doomed : row.role # x
      BY <2>4 DEF Taken
    <3>5. ASSUME NEW t \in Savers \ {s}, save[t].at = "filling"
          PROVE  x \notin Filled(t)
      <4>1. SUFFICES ASSUME x \in Filled(t) PROVE Pending(t, x)
        BY <2>1
      <4>2. Row(t, x) \in Put(t) /\ Row(t, x).role = x
        BY <4>1 DEF Filled, Put, Row
      <4> QED
        BY <3>5, <4>2 DEF Pending
    <3>6. \A y \in Filled(s)', row \in shape \ save[s].doomed : row.role # y
      BY <2>0, <3>2, <3>4 DEF KeysApart
    <3>7. \A t \in Savers \ {s} :
             save[t].at = "filling" => Filled(s)' \cap Filled(t) = {}
      BY <2>0, <3>2, <3>5 DEF KeysApart
    <3> QED
      BY <2>0, <2>2, <3>1, <3>3, <3>6, <3>7 DEF KeysApart
  <2> QED
    BY <2>3, <2>4
<1>4. ASSUME NEW s \in Savers, CommitSave(s)
      PROVE  KeysApart'
  <2>1. shape' = (shape \ save[s].doomed) \cup Put(s) /\ save[s].at = "filling"
    BY <1>4 DEF CommitSave, Replaced
  <2>2. save'[s].at = "saved" /\ \A t \in Savers \ {s} : save'[t] = save[t]
    BY <1>0, <1>4 DEF CommitSave, Saves
  <2>3. \A t \in Savers \ {s} : Filled(t)' = Filled(t)
    BY <2>2 DEF Filled
  <2>4. ASSUME NEW t \in Savers \ {s}, save[t].at = "filling",
               NEW y \in Filled(t), NEW row \in shape' \ save[t].doomed
        PROVE  row.role # y
    <3>1. CASE row \in shape
      BY <2>4, <3>1 DEF KeysApart
    <3>2. CASE row \in Put(s)
      <4>1. row.role \in Filled(s)
        BY <3>2, PutIs
      <4> QED
        BY <2>1, <2>4, <4>1 DEF KeysApart
    <3> QED
      BY <2>1, <2>4, <3>1, <3>2
  <2> QED
    BY <2>2, <2>3, <2>4 DEF KeysApart
<1>5. ASSUME NEW s \in Savers, RollBackSave(s)
      PROVE  KeysApart'
  <2>1. save'[s].at = "idle" /\ UNCHANGED shape
    BY <1>0, <1>5 DEF RollBackSave, IdleSave
  <2>2. \A t \in Savers \ {s} : save'[t] = save[t]
    BY <1>0, <1>5 DEF RollBackSave
  <2> QED
    BY <2>1, <2>2, KeysWithout
<1>6. CASE UNCHANGED <<shape, save>>
  BY <1>6 DEF KeysApart, Filled
<1> QED
  BY <1>1, <1>2, <1>3, <1>4, <1>5, <1>6, NextCases, EditsFrame, DefiningFrame
     DEF Saving, vars

-----------------------------------------------------------------------------
(* The saves that replaced others. *)

\* While none commits, which saves are the latest stays.
LEMMA LatestStays ==
    ASSUME ShapeOfLatestSaves, NEW s \in Savers, UNCHANGED shape,
           save[s].at # "saved", save'[s].at # "saved",
           \A t \in Savers \ {s} : save'[t] = save[t]
    PROVE  Saved' = Saved /\ ShapeOfLatestSaves'
<1>1. Saved' = Saved
  BY DEF Saved
<1>2. \A t \in Saved : save'[t] = save[t]
  BY DEF Saved
<1>3. \A t \in Savers : Latest(t)' <=> Latest(t)
  BY <1>1, <1>2 DEF Latest
<1>4. \A row \in Rows : row.by \in Savers
  BY DEF Rows
<1>5. \A row \in Rows : Latest(row.by) => save'[row.by] = save[row.by]
  BY <1>2 DEF Latest
<1> QED
  BY <1>1, <1>3, <1>4, <1>5 DEF ShapeOfLatestSaves

\* A save that ends without committing, or that goes on with what it has.
LEMMA OrderStays ==
    ASSUME SavesInOrder, ShapeOfLatestSaves, NEW s \in Savers, UNCHANGED shape,
           save[s].at # "saved", save'[s].at # "saved",
           \A t \in Savers \ {s} : save'[t] = save[t],
           \/ save'[s].at = "idle" /\ save'[s].after = {}
           \/ /\ save[s].at \in {"clearing", "filling"}
              /\ save'[s].after = save[s].after /\ save'[s].doomed = save[s].doomed
    PROVE  SavesInOrder' /\ ShapeOfLatestSaves'
<1>1. Saved' = Saved /\ ShapeOfLatestSaves'
  BY LatestStays
<1> QED
  BY <1>1 DEF SavesInOrder

\* A save begins after those that have committed, and finds their rows.
LEMMA OrderStart ==
    ASSUME TypeOK, SavesInOrder, ShapeOfLatestSaves, NEW s \in Savers, StartSave(s)
    PROVE  SavesInOrder' /\ ShapeOfLatestSaves'
<1>1. /\ save'[s].at = "clearing" /\ save'[s].after = Saved /\ save'[s].doomed = shape
      /\ save[s].at = "idle" /\ UNCHANGED shape
      /\ \A t \in Savers \ {s} : save'[t] = save[t]
  BY DEF StartSave, TypeOK
<1>2. Saved' = Saved /\ ShapeOfLatestSaves'
  BY <1>1, LatestStays
<1>3. \A row \in shape : row.by \in Saved
  BY DEF ShapeOfLatestSaves, Latest
<1> QED
  BY <1>1, <1>2, <1>3 DEF SavesInOrder

\* A save that commits takes the rows of those it began after, and leaves those of the
\* latest of the others.
LEMMA OrderCommit ==
    ASSUME TypeOK, SavesInOrder, ShapeOfLatestSaves, NEW s \in Savers, CommitSave(s)
    PROVE  SavesInOrder' /\ ShapeOfLatestSaves'
<1>1. /\ save[s].at = "filling" /\ save[s].left = {}
      /\ shape' = (shape \ save[s].doomed) \cup Put(s)
      /\ save'[s].at = "saved" /\ save'[s].after = save[s].after
      /\ save'[s].stated = save[s].stated
      /\ \A t \in Savers \ {s} : save'[t] = save[t]
  BY DEF CommitSave, Replaced, TypeOK, Saves
<1>2. Saved' = Saved \cup {s} /\ s \notin Saved /\ Saved \subseteq Savers
  BY <1>1 DEF Saved
<1>3. \A t \in Savers : save'[t].after = save[t].after /\ s \notin save[t].after
  BY <1>1, <1>2 DEF SavesInOrder
<1>4. Latest(s)'
  BY <1>2, <1>3 DEF Latest
<1>5. \A t \in Savers \ {s} : Latest(t)' <=> Latest(t) /\ t \notin save[s].after
  BY <1>2, <1>3 DEF Latest
<1>6. \A row \in Rows : row \in Put(s) <=> row.by = s /\ row.role \in save[s].stated
  <2>1. \A row \in Rows : row = [role |-> row.role, by |-> row.by]
    BY DEF Rows
  <2> QED
    BY <1>1, <2>1 DEF Put, Row
<1>7. \A row \in shape : /\ row \in Rows /\ row.by \in Saved
                         /\ row \in save[s].doomed <=> row.by \in save[s].after
  BY <1>1 DEF ShapeOfLatestSaves, Latest, SavesInOrder
<1>8. Put(s) \in SUBSET Rows
  BY PutType
<1>9. ShapeOfLatestSaves'
  <2>1. ASSUME NEW row \in Rows
        PROVE  row \in shape' <=> Latest(row.by)' /\ row.role \in save'[row.by].stated
    <3>0. row.by \in Savers
      BY DEF Rows
    <3>1. CASE row.by = s
      <4>1. row \notin shape
        BY <1>2, <1>7, <3>1
      <4> QED
        BY <1>1, <1>4, <1>6, <3>1, <4>1
    <3>2. CASE row.by # s
      <4>1. row \in shape' <=> row \in shape /\ row.by \notin save[s].after
        BY <1>1, <1>6, <1>7, <3>2
      <4>2. row \in shape <=> Latest(row.by) /\ row.role \in save[row.by].stated
        BY DEF ShapeOfLatestSaves
      <4> QED
        BY <1>1, <1>5, <3>0, <3>2, <4>1, <4>2
    <3> QED
      BY <3>1, <3>2
  <2>2. shape' \subseteq Rows
    BY <1>1, <1>7, <1>8
  <2> QED
    BY <2>1, <2>2 DEF ShapeOfLatestSaves
<1>10. SavesInOrder'
  <2>1. \A t \in Savers : save'[t].after \subseteq Saved'
    BY <1>2, <1>3 DEF SavesInOrder
  <2>2. ASSUME NEW t \in Savers, save'[t].at \in {"clearing", "filling"}
        PROVE  /\ \A row \in shape' : row.by \in save'[t].after => row \in save'[t].doomed
               /\ \A row \in save'[t].doomed : row.by \in save'[t].after
    <3>1. t # s /\ save'[t] = save[t]
      BY <1>1, <2>2
    <3>2. \A row \in shape' : row \in shape \/ row.by = s
      BY <1>1, <1>6, <1>8
    <3> QED
      BY <1>3, <2>2, <3>1, <3>2 DEF SavesInOrder
  <2> QED
    BY <2>1, <2>2 DEF SavesInOrder
<1> QED
  BY <1>9, <1>10

LEMMA OrderStep ==
    ASSUME TypeOK, SavesInOrder, ShapeOfLatestSaves, [Next]_vars
    PROVE  SavesInOrder' /\ ShapeOfLatestSaves'
<1>0. save \in [Savers -> Saves]
  BY DEF TypeOK
<1>1. ASSUME NEW s \in Savers, Saving(s)
      PROVE  SavesInOrder' /\ ShapeOfLatestSaves'
  <2>0. /\ save[s].at # "saved"
        /\ \A t \in Savers \ {s} : save'[t] = save[t]
    BY <1>1, SavingOwn
  <2>1. CASE ClearShape(s)
    <3>1. /\ save[s].at = "clearing" /\ save'[s].at = "filling" /\ UNCHANGED shape
          /\ save'[s].after = save[s].after /\ save'[s].doomed = save[s].doomed
      BY <1>0, <2>1 DEF ClearShape, Saves
    <3> QED
      BY <2>0, <3>1, OrderStays
  <2>2. CASE FillRow(s)
    <3>1. /\ save[s].at = "filling" /\ UNCHANGED shape
          /\ \/ save'[s].at = "idle" /\ save'[s].after = {}
             \/ /\ save'[s].at = "filling"
                /\ save'[s].after = save[s].after /\ save'[s].doomed = save[s].doomed
      BY <1>0, <2>2 DEF FillRow, IdleSave, Saves
    <3> QED
      BY <2>0, <3>1, OrderStays
  <2>3. CASE RollBackSave(s)
    <3>1. save'[s].at = "idle" /\ save'[s].after = {} /\ UNCHANGED shape
      BY <1>0, <2>3 DEF RollBackSave, IdleSave
    <3> QED
      BY <2>0, <3>1, OrderStays
  <2> QED
    BY <1>1, <2>1, <2>2, <2>3, OrderStart, OrderCommit DEF Saving
<1>2. CASE UNCHANGED <<shape, save>>
  BY <1>2 DEF SavesInOrder, ShapeOfLatestSaves, Latest, Saved
<1> QED
  BY <1>1, <1>2, NextCases, EditsFrame, DefiningFrame DEF vars

-----------------------------------------------------------------------------
(* The invariants. *)

LEMMA InitInv ==
    ASSUME Init
    PROVE  IndInv
<1>1. save \in [Savers -> Saves] /\ rota \in [Definers -> Rotas]
  BY IdleSaveType, NoRotaType DEF Init
<1>2. TypeOK
  <2>1. roles \in [Roles -> Ranks \cup {None}] /\ hours \in BOOLEAN /\ shape = {}
    BY DEF Init
  <2>2. standing \in [Promises -> Promised \cup {None}]
    BY DEF Init
  <2>3. edits \in 0 .. MaxEdits
    BY EditsAssumption DEF Init
  <2> QED
    BY <1>1, <2>1, <2>2, <2>3, Zenon DEF TypeOK
<1>3. /\ \A s \in Savers : save[s].at = "idle" /\ save[s].doomed = {} /\ save[s].after = {}
      /\ \A d \in Definers : rota[d].asks = {} /\ rota[d].dates = {}
      /\ shape = {}
  BY DEF Init, IdleSave, NoRota
<1>4. WholeSaves
  BY <1>3 DEF WholeSaves, WholeIn
<1>5. KeysApart
  BY <1>3 DEF KeysApart
<1>6. DatesApart
  BY <1>3 DEF DatesApart
<1>7. SavesInOrder
  BY <1>3 DEF SavesInOrder
<1>8. ShapeOfLatestSaves
  <2>1. \A row \in Rows : row.by \in Savers
    BY DEF Rows
  <2> QED
    BY <1>3, <2>1 DEF ShapeOfLatestSaves, Latest, Saved
<1> QED
  BY <1>2, <1>4, <1>5, <1>6, <1>7, <1>8 DEF IndInv

LEMMA StepInv ==
    ASSUME IndInv, [Next]_vars
    PROVE  IndInv'
BY TypeStep, WholeStep, KeysStep, DatesStep, OrderStep DEF IndInv

\* The invariant the others follow from.
THEOREM Inductive == Spec => []IndInv
<1>1. Init => IndInv
  BY InitInv
<1>2. IndInv /\ [Next]_vars => IndInv'
  BY StepInv
<1> QED
  BY <1>1, <1>2, PTL DEF Spec

\* Every variable has its type, and the default Shape names a Role once, however
\* many saves of it run at once.
THEOREM TypeCorrect == Spec => []TypeOK
<1>1. IndInv => TypeOK
  BY DEF IndInv
<1> QED
  BY <1>1, Inductive, PTL

\* No two rotas run on one day (InsertDefinedRota and its unique index).
THEOREM ShiftsApart == Spec => []OneShiftPerDate
<1>1. IndInv => OneShiftPerDate
  BY DEF IndInv, DatesApart, OneShiftPerDate, Living
<1> QED
  BY <1>1, Inductive, PTL

\* A rota never copies a part of a save of the default Shape (SaveDefaultShape).
THEOREM CopiesWholeSaves == Spec => []AsksWholeSaves
<1>1. IndInv => AsksWholeSaves
  BY DEF IndInv, WholeSaves, WholeIn, AsksWholeSaves
<1> QED
  BY <1>1, Inductive, PTL

\* The default Shape is what the latest saves stated: each of those that no save which
\* committed began after, and no other (SaveDefaultShape).
THEOREM ShapeIsLatest == Spec => []ShapeOfLatestSaves
<1>1. IndInv => ShapeOfLatestSaves
  BY DEF IndInv
<1> QED
  BY <1>1, Inductive, PTL

-----------------------------------------------------------------------------
(* The pins of a rota. *)

LEMMA LeastNat ==
    ASSUME NEW S \in SUBSET Nat, S # {}
    PROVE  \E m \in S : \A n \in S : m <= n
<1>1. IsWellFoundedOn(OpToRel(<, Nat), Nat)
  BY NatLessThanWellFounded, Zenon
<1>2. PICK m \in S : \A n \in S : ~(<<n, m>> \in OpToRel(<, Nat))
  BY <1>1, WFMin, Zenon
<1>3. m \in S /\ \A n \in S : ~(n < m)
  BY <1>2, Zenon DEF OpToRel
<1> QED
  BY <1>3

\* Of promises in Roles there are, one comes before the others: the ids of those of
\* the lowest rank have a least one.
LEMMA FirstPromise ==
    ASSUME NEW promised, NEW ranking, NEW on \in SUBSET Promises, on # {},
           \A p \in on : ranking[promised[p].role] \in Nat
    PROVE  \E p \in on : \A q \in on : Before(promised, ranking, p, q)
<1> DEFINE rank(p) == ranking[promised[p].role]
           ranks == {rank(p) : p \in on}
<1>1. ranks \in SUBSET Nat /\ ranks # {}
  OBVIOUS
<1>2. PICK m \in ranks : \A n \in ranks : m <= n
  BY <1>1, LeastNat
<1> DEFINE lowest == {p \in on : rank(p) = m}
<1>3. lowest \in SUBSET Nat /\ lowest # {}
  BY <1>2, PromisesAssumption
<1>4. PICK p \in lowest : \A q \in lowest : p <= q
  BY <1>3, LeastNat
<1>5. ASSUME NEW q \in on
      PROVE  rank(p) < rank(q) \/ (rank(p) = rank(q) /\ p <= q)
  <2>1. m <= rank(q) /\ m \in Nat /\ rank(q) \in Nat /\ rank(p) = m
    BY <1>1, <1>2, <1>4
  <2>2. rank(q) = m => p <= q
    BY <1>4
  <2> HIDE DEF rank, lowest, ranks
  <2> QED
    BY <2>1, <2>2
<1> QED
  BY <1>4, <1>5 DEF Before

\* seedPreallocations, of promises that were read, in Roles there are.
LEMMA SeedsOf ==
    ASSUME TypeOK, NEW d \in Definers, RolesThere(d), NEW dates \in SUBSET Dates,
           NEW date \in dates, NEW who \in People \cup Customs
    PROVE  KeepsPromises(Seeds(rota[d].promised, rota[d].ranks, dates), rota[d].promised,
                 rota[d].ranks, date, who)
<1> DEFINE promised == rota[d].promised
           ranks == rota[d].ranks
           land == Landing(promised, who, date)
           pins == Seeds(promised, ranks, dates)
           Pin(p) == [date |-> date, who |-> who, role |-> promised[p].role]
           First(p) == \A q \in land : Before(promised, ranks, p, q)
<1>1. /\ promised \in [Promises -> Promised \cup {None}]
      /\ ranks \in [Roles -> Ranks \cup {None}]
  BY DEF TypeOK, Rotas
<1>2. \A p \in land : /\ p \in Promises /\ p \in Nat
                      /\ promised[p].role \in Roles
                      /\ ranks[promised[p].role] \in Nat
  <2>1. \A p \in land : p \in Promises /\ promised[p] # None
    BY DEF Landing
  <2>2. \A p \in land : promised[p].role \in Roles
    BY <1>1, <2>1 DEF Promised
  <2>3. \A p \in land : ranks[promised[p].role] # None
    BY <2>1 DEF RolesThere
  <2> QED
    BY <1>1, <2>1, <2>2, <2>3, PromisesAssumption
<1>3. \A x \in Pinned(pins, date, who) : \E p \in land : x = promised[p].role /\ First(p)
  BY DEF Pinned, Seeds
<1>4. \A p \in land : First(p) => promised[p].role \in Pinned(pins, date, who)
  <2> SUFFICES ASSUME NEW p \in land, First(p)
               PROVE  promised[p].role \in Pinned(pins, date, who)
    OBVIOUS
  <2>1. /\ Pin(p) \in [date : dates, who : People \cup Customs, role : Roles]
        /\ Pin(p).date = date /\ Pin(p).who = who /\ Pin(p).role = promised[p].role
    BY <1>2
  <2>2. Pin(p) \in pins
    BY <2>1 DEF Seeds
  <2> QED
    BY <2>1, <2>2 DEF Pinned
<1>5. land # {} => \E p \in land : First(p)
  <2>1. land \in SUBSET Promises
    BY DEF Landing
  <2> QED
    BY <1>2, <2>1, FirstPromise
<1>6. \A p, q \in land : First(p) => ranks[promised[p].role] <= ranks[promised[q].role]
  BY <1>2 DEF Before
<1>7. \A p, q \in land : First(p) /\ First(q) => p = q
  <2> SUFFICES ASSUME NEW p \in land, NEW q \in land, First(p), First(q)
               PROVE  p = q
    OBVIOUS
  <2>1. Before(promised, ranks, p, q) /\ Before(promised, ranks, q, p)
    OBVIOUS
  <2>2. /\ p \in Nat /\ q \in Nat
        /\ ranks[promised[p].role] \in Nat /\ ranks[promised[q].role] \in Nat
    BY <1>2
  <2> HIDE DEF First, land, pins, ranks, promised
  <2> QED
    BY <2>1, <2>2 DEF Before
<1> HIDE DEF First, pins, ranks
<1>8. PromisedRoles(promised, date, who) = {promised[p].role : p \in land}
  BY DEF PromisedRoles
<1> HIDE DEF land, promised
<1>9. /\ Pinned(pins, date, who) \subseteq PromisedRoles(promised, date, who)
      /\ PromisedRoles(promised, date, who) # {} => Pinned(pins, date, who) # {}
  BY <1>3, <1>4, <1>5, <1>8
<1>10. ASSUME NEW x \in Pinned(pins, date, who), NEW y \in PromisedRoles(promised, date, who)
       PROVE  ranks[x] <= ranks[y] /\ (y \in Pinned(pins, date, who) => x = y)
  <2>1. PICK p \in land : x = promised[p].role /\ First(p)
    BY <1>3
  <2>2. PICK q \in land : y = promised[q].role
    BY <1>8
  <2>3. y \in Pinned(pins, date, who) => x = y
    BY <1>3, <1>7, <2>1
  <2> QED
    BY <1>6, <2>1, <2>2, <2>3
<1>11. KeepsPromises(pins, promised, ranks, date, who)
  BY <1>9, <1>10, Zenon DEF KeepsPromises
<1> QED
  BY <1>11 DEF pins, promised, ranks

\* A rota has the pins the promises it read ask for, a volunteer's in the Role of the
\* first of them by the Roles it read (seedPreallocations), however often Roles and
\* promises are edited before, between and after.
THEOREM SeedsKept == Spec => SeedsKeepPromises
<1> DEFINE
      Kept(d) ==
        rota[d].life = "seeding" /\ rota'[d].life = "inserted" =>
           \A date \in rota'[d].dates, who \in People \cup Customs :
              KeepsPromises(rota'[d].pins, rota[d].promised, rota[d].ranks, date, who)
<1>1. ASSUME IndInv, [Next]_vars, NEW d \in Definers,
             rota[d].life = "seeding", rota'[d].life = "inserted"
      PROVE  Kept(d)
  <2>0. TypeOK /\ rota \in [Definers -> Rotas]
    BY <1>1 DEF IndInv, TypeOK
  <2>1. PICK e \in Definers : Defining(e)
    BY <1>1, NextCases, EditsFrame, SavingFrame DEF vars
  <2>2. e = d
    BY <1>1, <2>0, <2>1, DefiningEffect
  <2>3. InsertRota(d)
    BY <1>1, <2>0, <2>1, <2>2, NoRotaType
       DEF Defining, BeginDefine, ReadShape, CheckRotas, ReadStanding, ReadRoles,
           CommitRota, EndDefine, EndRota, NoRota
  <2>4. PICK dates \in SUBSET Dates :
           rota' = [rota EXCEPT ![d] = [NoRota EXCEPT
              !.life = "inserted", !.dates = dates,
              !.pins = Seeds(rota[d].promised, rota[d].ranks, dates)]]
    BY <2>3 DEF InsertRota
  <2>5. /\ rota'[d].dates = dates
        /\ rota'[d].pins = Seeds(rota[d].promised, rota[d].ranks, dates)
    BY <2>0, <2>4 DEF NoRota
  <2>6. RolesThere(d)
    BY <2>3 DEF InsertRota
  <2> QED
    BY <2>0, <2>5, <2>6, SeedsOf
<1>2. IndInv /\ [Next]_vars => [\A d \in Definers : Kept(d)]_vars
  BY <1>1
<1> QED
  BY <1>2, Inductive, PTL DEF Spec, SeedsKeepPromises
=============================================================================
