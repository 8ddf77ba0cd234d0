--------------------------- MODULE ShiftEditsProofs ---------------------------
(***************************************************************************)
(* Proofs about ShiftEdits, for any number of editors, rotas, Shifts,      *)
(* Roles, pins and transactions.                                           *)
(***************************************************************************)
EXTENDS ShiftEdits, FiniteSetTheorems, TLAPS

\* What a look-up step asks for is well formed.
WellAsked(does, s, what) ==
    /\ s \in Shifts
    /\ \/ does = "pin"    /\ what \in PinAsk
       \/ does = "unpin"  /\ what \in UnpinAsk
       \/ does = "shape"  /\ what \in ShapeAsk
       \/ does = "update" /\ what \in UpdateAsk /\ (what.closed = TRUE => s \in Closable)

\* Look-ups: the database stays, and the request of e has found a Shift.
Finds(e) ==
    \/ FindShiftToPin(e)
    \/ FindPin(e)
    \/ FindShiftToShape(e)
    \/ FindShiftToUpdate(e)

\* The commits of a request: all of them end it.
Commits(e) ==
    \/ CommitPin(e)
    \/ CommitUnpin(e)
    \/ CommitShape(e)
    \/ CommitUpdate(e)

-----------------------------------------------------------------------------
(* Lemmas about the steps. *)

LEMMA NextCases ==
    ASSUME Next
    PROVE  \/ \E e \in Editors : Finds(e) \/ BeginEdit(e) \/ GiveUp(e) \/ Commits(e)
           \/ \E r \in Rotas : Define(r) \/ Allocate(r) \/ Discard(r)
BY DEF Next, Finds, Commits

\* A look-up writes nothing, and leaves a well formed request.
LEMMA FindsEffect ==
    ASSUME TypeOK, NEW e \in Editors, Finds(e)
    PROVE  /\ edit[e].at = "idle"
           /\ \E does, s, what : WellAsked(does, s, what) /\ Looked(e, does, s, what)
           /\ UNCHANGED <<db, clock>>
<1>1. CASE FindShiftToPin(e)
  BY <1>1 DEF FindShiftToPin, WellAsked
<1>2. CASE FindPin(e)
  <2>1. PICK p \in pins : Looked(e, "unpin", p.shift, [pin |-> p.id])
    BY <1>2 DEF FindPin
  <2>2. p.shift \in Shifts /\ [pin |-> p.id] \in UnpinAsk
    BY DEF TypeOK, Pin, UnpinAsk
  <2>3. WellAsked("unpin", p.shift, [pin |-> p.id])
    BY <2>2 DEF WellAsked
  <2> QED
    BY <1>2, <2>1, <2>3 DEF FindPin
<1>3. CASE FindShiftToShape(e)
  BY <1>3 DEF FindShiftToShape, WellAsked
<1>4. CASE FindShiftToUpdate(e)
  BY <1>4 DEF FindShiftToUpdate, WellAsked
<1> QED
  BY <1>1, <1>2, <1>3, <1>4 DEF Finds

\* A commit ends its request and nobody else's.
LEMMA CommitsEffect ==
    ASSUME NEW e \in Editors, Commits(e)
    PROVE  edit[e].at = "begun" /\ Ends(e) /\ UNCHANGED <<rota, clock>>
BY DEF Commits, CommitPin, CommitUnpin, CommitShape, CommitUpdate, Begun

LEMMA IdleEditType == IdleEdit \in Requests
BY BoundsAssumption DEF IdleEdit, Requests

\* Ending a request keeps the requests well typed.
LEMMA EndsType ==
    ASSUME edit \in [Editors -> Requests], NEW e \in Editors, Ends(e)
    PROVE  edit' \in [Editors -> Requests]
BY IdleEditType DEF Ends

\* A stamp is a time of the clock.
LEMMA StampedType ==
    ASSUME stamp \in [Rotas -> 0 .. MaxClock], NEW r, NEW t \in 0 .. MaxClock
    PROVE  Stamped(r, t) \in [Rotas -> 0 .. MaxClock]
BY DEF Stamped

\* The numbers of the pins of a Role.
LEMMA PinnedType ==
    ASSUME IsFiniteSet(pins), NEW s, NEW k
    PROVE  IsFiniteSet(PinsOf(s, k)) /\ Pinned(s, k) \in Nat
<1>1. PinsOf(s, k) \in SUBSET pins
  BY DEF PinsOf
<1> QED
  BY <1>1, FS_Subset, FS_CardinalityType DEF Pinned

\* The pins a definition seeds, as records.
Seeded(seeds, num) ==
    {[id |-> num[p], shift |-> p.shift, role |-> p.role,
      who |-> p.who, seeded |-> TRUE] : p \in seeds}

LEMMA SeededFinite ==
    ASSUME NEW seeds, IsFiniteSet(seeds), NEW num
    PROVE  IsFiniteSet(Seeded(seeds, num))
<1> DEFINE f == [p \in seeds |->
                    [id |-> num[p], shift |-> p.shift, role |-> p.role,
                     who |-> p.who, seeded |-> TRUE]]
<1>1. f \in Surjection(seeds, Seeded(seeds, num))
  BY DEF Surjection, Seeded
<1> QED
  BY <1>1, FS_Surjection

\* What a definition does to the pins.
LEMMA DefineEffect ==
    ASSUME TypeOK, NEW r \in Rotas, Define(r)
    PROVE  \E seeds, num :
              /\ seeds \in Standing
              /\ \A p \in seeds : RotaOf[p.shift] = r
              /\ minted' \in 0 .. MaxPins
              /\ minted <= minted'
              /\ \A p \in seeds : num[p] \in 1 .. minted' /\ num[p] > minted
              /\ \A p, q \in seeds : num[p] = num[q] => p = q
              /\ pins' = pins \cup Seeded(seeds, num)
<1>1. PICK seeds \in Standing :
          /\ \A p \in seeds : RotaOf[p.shift] = r
          /\ minted + Cardinality(seeds) <= MaxPins
          /\ minted' = minted + Cardinality(seeds)
          /\ \E num \in Numbered(seeds) :
                pins' = pins \cup
                    {[id |-> num[p], shift |-> p.shift, role |-> p.role,
                      who |-> p.who, seeded |-> TRUE] : p \in seeds}
  BY DEF Define
<1>2. PICK num \in Numbered(seeds) : pins' = pins \cup Seeded(seeds, num)
  BY <1>1 DEF Seeded
<1>3. Cardinality(seeds) \in Nat
  BY StandingAssumption, FS_CardinalityType
<1>4. num \in [seeds -> minted + 1 .. minted + Cardinality(seeds)]
  BY DEF Numbered
<1>5. minted \in Nat
  BY DEF TypeOK
<1>6. minted' \in 0 .. MaxPins /\ minted <= minted'
  BY <1>1, <1>3, <1>5, BoundsAssumption
<1>7. \A p \in seeds : num[p] \in 1 .. minted' /\ num[p] > minted
  BY <1>1, <1>3, <1>4, <1>5
<1>8. \A p, q \in seeds : num[p] = num[q] => p = q
  BY DEF Numbered
<1> QED
  BY <1>1, <1>2, <1>6, <1>7, <1>8

-----------------------------------------------------------------------------
(* The requests. *)

\* A step ends requests, begins one, or finds a Shift for one.
LEMMA EditSteps ==
    ASSUME TypeOK, Next
    PROVE  \/ edit' = edit /\ clock' = clock
           \/ \E e \in Editors : Ends(e) /\ clock' = clock /\ edit[e].at # "idle"
           \/ \E e \in Editors : BeginEdit(e)
           \/ \E e \in Editors : \E does, s, what :
                /\ edit[e].at = "idle"
                /\ WellAsked(does, s, what) /\ Looked(e, does, s, what)
                /\ UNCHANGED <<db, clock>>
<1>1. CASE \E e \in Editors : Finds(e)
  BY <1>1, FindsEffect
<1>2. CASE \E e \in Editors : GiveUp(e) \/ Commits(e)
  <2>1. PICK e \in Editors : GiveUp(e) \/ Commits(e)
    BY <1>2
  <2>2. Ends(e) /\ clock' = clock /\ edit[e].at # "idle"
    BY <2>1, CommitsEffect DEF GiveUp, Ends
  <2> QED
    BY <2>2
<1>3. CASE \E r \in Rotas : Define(r) \/ Allocate(r) \/ Discard(r)
  BY <1>3 DEF Define, Allocate, Discard
<1> QED
  BY <1>1, <1>2, <1>3, NextCases

LEMMA EditType ==
    ASSUME TypeOK, Next
    PROVE  clock' \in 0 .. MaxClock /\ edit' \in [Editors -> Requests]
<1>1. clock \in 0 .. MaxClock /\ edit \in [Editors -> Requests]
  BY DEF TypeOK
<1>2. CASE edit' = edit /\ clock' = clock
  BY <1>1, <1>2
<1>3. ASSUME NEW e \in Editors, Ends(e), clock' = clock
      PROVE  clock' \in 0 .. MaxClock /\ edit' \in [Editors -> Requests]
  BY <1>1, <1>3, EndsType
<1>4. ASSUME NEW e \in Editors, BeginEdit(e)
      PROVE  clock' \in 0 .. MaxClock /\ edit' \in [Editors -> Requests]
  <2>1. clock' = clock + 1 /\ clock' \in 0 .. MaxClock
    BY <1>1, <1>4, BoundsAssumption DEF BeginEdit
  <2>2. edit' = [edit EXCEPT ![e] = [edit[e] EXCEPT !.at = "begun", !.time = clock + 1]]
    BY <1>1, <1>4 DEF BeginEdit
  <2>3. edit[e] \in Requests
    BY <1>1
  <2>4. [edit[e] EXCEPT !.at = "begun", !.time = clock + 1] \in Requests
    BY <2>1, <2>3 DEF Requests
  <2> QED
    BY <1>1, <2>1, <2>2, <2>4
<1>5. ASSUME NEW e \in Editors, NEW does, NEW s, NEW what,
             WellAsked(does, s, what), Looked(e, does, s, what),
             UNCHANGED <<db, clock>>
      PROVE  clock' \in 0 .. MaxClock /\ edit' \in [Editors -> Requests]
  <2>1. closed[s] \in BOOLEAN
    BY <1>5 DEF TypeOK, WellAsked
  <2>2. [at |-> "found", does |-> does, shift |-> s, closed |-> closed[s],
         what |-> what, time |-> 0] \in Requests
    BY <1>5, <2>1, BoundsAssumption DEF WellAsked, Requests
  <2> QED
    BY <1>1, <1>5, <2>2 DEF Looked
<1> QED
  BY <1>2, <1>3, <1>4, <1>5, EditSteps

\* The requests stay in order.
LEMMA OrderStep ==
    ASSUME TypeOK, RequestsInOrder, Next
    PROVE  RequestsInOrder'
<1>1. edit \in [Editors -> Requests]
  BY DEF TypeOK
<1>2. CASE edit' = edit
  BY <1>2 DEF RequestsInOrder
<1>3. ASSUME NEW e \in Editors, Ends(e)
      PROVE  RequestsInOrder'
  BY <1>1, <1>3 DEF RequestsInOrder, Ends, IdleEdit
<1>4. ASSUME NEW e \in Editors, BeginEdit(e)
      PROVE  RequestsInOrder'
  <2>1. \A f \in Editors : /\ edit'[f].shift = edit[f].shift
                           /\ edit'[f].does = edit[f].does
                           /\ edit'[f].what = edit[f].what
                           /\ edit'[f].at # "idle" => edit[f].at # "idle"
    BY <1>1, <1>4 DEF BeginEdit, Requests
  <2> QED
    BY <2>1 DEF RequestsInOrder
<1>5. ASSUME NEW e \in Editors, NEW does, NEW s, NEW what,
             WellAsked(does, s, what), Looked(e, does, s, what)
      PROVE  RequestsInOrder'
  BY <1>1, <1>5 DEF RequestsInOrder, WellAsked, Looked
<1> QED
  BY <1>2, <1>3, <1>4, <1>5, EditSteps

\* No two open transactions get one time.
LEMMA TimesStep ==
    ASSUME TypeOK, TimesDistinct, Next
    PROVE  TimesDistinct'
<1>1. edit \in [Editors -> Requests] /\ clock \in Nat
  BY DEF TypeOK
<1>2. CASE edit' = edit /\ clock' = clock
  BY <1>2 DEF TimesDistinct
<1>3. ASSUME NEW e \in Editors, Ends(e), clock' = clock
      PROVE  TimesDistinct'
  BY <1>1, <1>3 DEF TimesDistinct, Ends, IdleEdit
<1>4. ASSUME NEW e \in Editors, BeginEdit(e)
      PROVE  TimesDistinct'
  <2>1. /\ clock' = clock + 1
        /\ edit'[e].time = clock + 1
        /\ \A f \in Editors \ {e} : edit'[f] = edit[f]
    BY <1>1, <1>4 DEF BeginEdit, Requests
  <2>2. \A f \in Editors : edit[f].at = "begun" => edit[f].time <= clock
    BY DEF TimesDistinct
  <2>3. \A f \in Editors : edit[f].time \in Nat
    BY <1>1 DEF Requests
  <2> QED
    BY <1>1, <2>1, <2>2, <2>3 DEF TimesDistinct
<1>5. ASSUME NEW e \in Editors, NEW does, NEW s, NEW what,
             Looked(e, does, s, what), UNCHANGED <<db, clock>>
      PROVE  TimesDistinct'
  BY <1>1, <1>5 DEF TimesDistinct, Looked
<1> QED
  BY <1>2, <1>3, <1>4, <1>5, EditSteps

-----------------------------------------------------------------------------
(* Types. *)

LEMMA TypeInit == Init => TypeOK
<1> SUFFICES ASSUME Init PROVE TypeOK
  OBVIOUS
<1>1. NoShape \in Shape
  BY DEF NoShape, Shape
<1>2. shape \in [Shifts -> Shape]
  BY <1>1, ShapesAssumption DEF Init
<1>3. day \in [Shifts -> Days \cup {None}]
  BY RotasAssumption DEF Init
<1>4. \A s \in Shifts : Exists(s) <=> rota[RotaOf[s]] \in {"unallocated", "allocated"}
  BY RotasAssumption, PeopleAssumption DEF Init, Exists
<1>5. edit \in [Editors -> Requests]
  BY IdleEditType DEF Init
<1>6. pins \subseteq Pin /\ IsFiniteSet(pins) /\ \A p \in pins : p.id <= minted /\ Exists(p.shift)
  BY FS_EmptySet DEF Init
<1> QED
  BY <1>2, <1>3, <1>4, <1>5, <1>6, BoundsAssumption DEF Init, TypeOK

LEMMA TypeStep ==
    ASSUME TypeOK, RequestsInOrder, [Next]_vars
    PROVE  TypeOK'
<1> USE DEF TypeOK
<1>0. CASE UNCHANGED vars
  BY <1>0 DEF vars, db, shifts, Exists
<1> SUFFICES ASSUME Next PROVE TypeOK'
  BY <1>0
<1>1. clock' \in 0 .. MaxClock /\ edit' \in [Editors -> Requests]
  BY EditType
<1>2. ASSUME UNCHANGED db
      PROVE  TypeOK'
  BY <1>1, <1>2 DEF db, shifts, Exists
<1>3. ASSUME NEW e \in Editors, edit[e].at = "begun"
      PROVE  /\ edit[e].shift \in Shifts
             /\ RotaOf[edit[e].shift] \in Rotas
             /\ Stamped(RotaOf[edit[e].shift], edit[e].time) \in [Rotas -> 0 .. MaxClock]
  BY <1>3, RotasAssumption, StampedType DEF RequestsInOrder, Requests
<1>4. ASSUME NEW e \in Editors, CommitPin(e)
      PROVE  TypeOK'
  <2> DEFINE s   == edit[e].shift
             ask == edit[e].what
             pin == [id |-> minted + 1, shift |-> s, role |-> ask.role,
                     who |-> ask.who, seeded |-> FALSE]
  <2>1. /\ edit[e].at = "begun" /\ edit[e].does = "pin"
        /\ rota[RotaOf[s]] = "unallocated"
        /\ minted < MaxPins
        /\ minted' = minted + 1
        /\ pins' = pins \cup {pin}
        /\ stamp' = Stamped(RotaOf[s], edit[e].time)
        /\ UNCHANGED <<rota, shifts, clock>>
    BY <1>4 DEF CommitPin, Begun, LockUnallocated
  <2>2. ask \in PinAsk
    BY <2>1 DEF RequestsInOrder
  <2>3. minted' \in 0 .. MaxPins /\ minted + 1 \in 1 .. MaxPins
    BY <2>1, BoundsAssumption
  <2>4. pin \in Pin /\ Exists(s)
    BY <1>3, <2>1, <2>2, <2>3 DEF Pin, PinAsk
  <2>5. pins' \subseteq Pin /\ IsFiniteSet(pins')
    BY <2>1, <2>4, FS_AddElement
  <2>6. \A p \in pins' : p.id <= minted' /\ Exists(p.shift)
    BY <2>1, <2>4 DEF Pin
  <2> QED
    BY <1>1, <1>3, <2>1, <2>3, <2>5, <2>6 DEF shifts, Exists
<1>5. ASSUME NEW e \in Editors, CommitUnpin(e)
      PROVE  TypeOK'
  <2>1. /\ edit[e].at = "begun"
        /\ UNCHANGED <<rota, shifts, minted, clock>>
        /\ \E p \in pins : /\ pins' = pins \ {p}
                          /\ stamp' = Stamped(RotaOf[p.shift], edit[e].time)
    BY <1>5 DEF CommitUnpin, Begun
  <2>2. pins' \subseteq pins /\ IsFiniteSet(pins')
    BY <2>1, FS_RemoveElement
  <2>3. stamp' \in [Rotas -> 0 .. MaxClock]
    BY <2>1, StampedType DEF Requests
  <2> QED
    BY <1>1, <2>1, <2>2, <2>3 DEF shifts, Exists
<1>6. ASSUME NEW e \in Editors, CommitShape(e)
      PROVE  TypeOK'
  <2> DEFINE s   == edit[e].shift
             new == edit[e].what.shape
  <2>1. /\ edit[e].at = "begun" /\ edit[e].does = "shape"
        /\ shape' = [shape EXCEPT ![s] = new]
        /\ stamp' = Stamped(RotaOf[s], edit[e].time)
        /\ UNCHANGED <<rota, day, closed, pins, minted, clock>>
    BY <1>6 DEF CommitShape, Begun
  <2>2. new \in Shape
    BY <2>1, ShapesAssumption DEF RequestsInOrder, ShapeAsk
  <2>3. shape' \in [Shifts -> Shape]
    BY <2>1, <2>2
  <2> QED
    BY <1>1, <1>3, <2>1, <2>3 DEF Exists
<1>7. ASSUME NEW e \in Editors, CommitUpdate(e)
      PROVE  TypeOK'
  <2> DEFINE s   == edit[e].shift
             ask == edit[e].what
  <2>1. /\ edit[e].at = "begun" /\ edit[e].does = "update"
        /\ Exists(s)
        /\ closed' = [closed EXCEPT ![s] = IF ask.closed # None THEN ask.closed ELSE closed[s]]
        /\ day' = [day EXCEPT ![s] = IF ask.day # None THEN ask.day ELSE day[s]]
        /\ stamp' \in {Stamped(RotaOf[s], edit[e].time), stamp}
        /\ UNCHANGED <<rota, shape, pins, minted, clock>>
    BY <1>7 DEF CommitUpdate, Begun
  <2>2. ask \in UpdateAsk
    BY <2>1 DEF RequestsInOrder
  <2>3. closed' \in [Shifts -> BOOLEAN] /\ day' \in [Shifts -> Days \cup {None}]
    BY <2>1, <2>2 DEF UpdateAsk
  <2>4. \A t \in Shifts : Exists(t)' <=> Exists(t)
    BY <1>3, <2>1, <2>2, PeopleAssumption DEF UpdateAsk, Exists
  <2>5. \A p \in pins' : p.shift \in Shifts
    BY <2>1 DEF Pin
  <2>6. stamp' \in [Rotas -> 0 .. MaxClock]
    BY <1>3, <2>1
  <2> QED
    BY <1>1, <2>1, <2>3, <2>4, <2>5, <2>6
<1>8. ASSUME NEW r \in Rotas, Define(r)
      PROVE  TypeOK'
  <2>1. PICK seeds, num :
            /\ seeds \in Standing
            /\ \A p \in seeds : RotaOf[p.shift] = r
            /\ minted' \in 0 .. MaxPins
            /\ minted <= minted'
            /\ \A p \in seeds : num[p] \in 1 .. minted'
            /\ pins' = pins \cup Seeded(seeds, num)
    BY <1>8, DefineEffect
  <2>2. /\ rota[r] = "undefined"
        /\ rota' = [rota EXCEPT ![r] = "unallocated"]
        /\ day' = [s \in Shifts |-> IF RotaOf[s] = r THEN FirstDay[s] ELSE day[s]]
        /\ \E new \in Shapes \ {NoShape} :
              shape' = [s \in Shifts |-> IF RotaOf[s] = r THEN new ELSE shape[s]]
        /\ UNCHANGED <<stamp, closed, clock, edit>>
    BY <1>8 DEF Define
  <2>3. day' \in [Shifts -> Days \cup {None}] /\ shape' \in [Shifts -> Shape]
    BY <2>2, RotasAssumption, ShapesAssumption
  <2>4. \A s \in Shifts : IF RotaOf[s] = r THEN Exists(s)' ELSE Exists(s)' <=> Exists(s)
    BY <2>2, RotasAssumption, PeopleAssumption DEF Exists
  <2>5. seeds \subseteq Seed /\ IsFiniteSet(seeds)
    BY <2>1, StandingAssumption
  <2>6. \A p \in Seeded(seeds, num) : p \in Pin /\ p.id <= minted' /\ Exists(p.shift)'
    <3> SUFFICES ASSUME NEW q \in seeds
                 PROVE  LET p == [id |-> num[q], shift |-> q.shift, role |-> q.role,
                                  who |-> q.who, seeded |-> TRUE]
                        IN  p \in Pin /\ p.id <= minted' /\ Exists(p.shift)'
      BY DEF Seeded
    <3>1. num[q] \in 1 .. MaxPins /\ num[q] <= minted' /\ q \in Seed
      BY <2>1, <2>5, BoundsAssumption
    <3> QED
      BY <2>1, <2>4, <3>1 DEF Pin, Seed
  <2>7. \A p \in pins : p.id <= minted' /\ Exists(p.shift)'
    <3>1. \A p \in pins : p.shift \in Shifts /\ p.id \in Nat
      BY DEF Pin
    <3> QED
      BY <2>1, <2>4, <3>1
  <2>8. pins' \subseteq Pin /\ IsFiniteSet(pins')
    <3>1. IsFiniteSet(Seeded(seeds, num))
      BY <2>5, SeededFinite
    <3> QED
      BY <2>1, <2>6, <3>1, FS_Union
  <2>9. \A s \in Shifts : Exists(s)' <=> rota'[RotaOf[s]] \in {"unallocated", "allocated"}
    BY <2>2, <2>4, RotasAssumption
  <2> QED
    BY <1>1, <2>1, <2>2, <2>3, <2>6, <2>7, <2>8, <2>9
<1>9. ASSUME NEW r \in Rotas, Allocate(r)
      PROVE  TypeOK'
  BY <1>1, <1>9, RotasAssumption DEF Allocate, shifts, Exists
<1>10. ASSUME NEW r \in Rotas, Discard(r)
       PROVE  TypeOK'
  <2>1. /\ rota[r] = "unallocated"
        /\ rota' = [rota EXCEPT ![r] = "discarded"]
        /\ pins' = {p \in pins : RotaOf[p.shift] # r}
        /\ day' = [s \in Shifts |-> IF RotaOf[s] = r THEN None ELSE day[s]]
        /\ closed' = [s \in Shifts |-> RotaOf[s] # r /\ closed[s]]
        /\ shape' = [s \in Shifts |-> IF RotaOf[s] = r THEN NoShape ELSE shape[s]]
        /\ UNCHANGED <<stamp, minted, clock, edit>>
    BY <1>10 DEF Discard
  <2>2. shape' \in [Shifts -> Shape] /\ day' \in [Shifts -> Days \cup {None}]
    BY <2>1 DEF NoShape, Shape
  <2>3. pins' \in SUBSET pins /\ IsFiniteSet(pins')
    BY <2>1, FS_Subset
  <2>4. \A s \in Shifts : Exists(s)' <=> RotaOf[s] # r /\ Exists(s)
    BY <2>1 DEF Exists
  <2>5. \A p \in pins' : p.id <= minted' /\ Exists(p.shift)'
    BY <2>1, <2>4 DEF Pin
  <2>6. \A s \in Shifts : Exists(s)' <=> rota'[RotaOf[s]] \in {"unallocated", "allocated"}
    BY <2>1, <2>4, RotasAssumption
  <2> QED
    BY <1>1, <2>1, <2>2, <2>3, <2>5, <2>6
<1>11. ASSUME NEW e \in Editors, Finds(e) \/ BeginEdit(e) \/ GiveUp(e)
       PROVE  UNCHANGED db
  BY <1>11, FindsEffect DEF BeginEdit, GiveUp
<1> QED
  BY <1>2, <1>4, <1>5, <1>6, <1>7, <1>8, <1>9, <1>10, <1>11, NextCases DEF Commits

-----------------------------------------------------------------------------
(* Closures. *)

LEMMA ClosableStep ==
    ASSUME TypeOK, RequestsInOrder, ClosableOnly, [Next]_vars
    PROVE  ClosableOnly'
<1>0. CASE UNCHANGED vars
  BY <1>0 DEF vars, db, shifts, ClosableOnly
<1> SUFFICES ASSUME Next PROVE ClosableOnly'
  BY <1>0
<1>1. edit \in [Editors -> Requests]
  BY DEF TypeOK
<1>2. ASSUME NEW s \in Shifts, closed'[s] PROVE s \in Closable
  <2>1. CASE UNCHANGED closed
    BY <1>2, <2>1 DEF ClosableOnly
  <2>2. CASE \E e \in Editors : CommitUpdate(e)
    <3>1. PICK e \in Editors : CommitUpdate(e)
      BY <2>2
    <3>2. /\ edit[e].at = "begun" /\ edit[e].does = "update"
          /\ closed' = [closed EXCEPT ![edit[e].shift] =
                IF edit[e].what.closed # None THEN edit[e].what.closed
                                              ELSE closed[edit[e].shift]]
      BY <3>1 DEF CommitUpdate, Begun
    <3>3. edit[e].what \in UpdateAsk /\ edit[e].shift \in Shifts
      BY <3>2 DEF RequestsInOrder
    <3>4. closed \in [Shifts -> BOOLEAN]
      BY DEF TypeOK
    <3>5. CASE s # edit[e].shift \/ edit[e].what.closed = None
      BY <1>2, <3>2, <3>3, <3>4, <3>5 DEF ClosableOnly
    <3>6. CASE s = edit[e].shift /\ edit[e].what.closed # None
      <4>1. edit[e].what.closed \in BOOLEAN
        BY <3>3, <3>6 DEF UpdateAsk
      <4>2. edit[e].what.closed = TRUE
        BY <1>2, <3>2, <3>4, <3>6, <4>1
      <4> QED
        BY <3>2, <3>6, <4>2 DEF ClosableOnly
    <3> QED
      BY <3>5, <3>6
  <2>3. CASE \E r \in Rotas : Discard(r)
    <3>1. closed[s]
      BY <1>2, <2>3 DEF Discard
    <3> QED
      BY <3>1 DEF ClosableOnly
  <2>4. UNCHANGED closed \/ (\E e \in Editors : CommitUpdate(e)) \/ (\E r \in Rotas : Discard(r))
    <3>1. ASSUME NEW e \in Editors, Finds(e) PROVE UNCHANGED closed
      BY <3>1, FindsEffect DEF db, shifts
    <3> QED
      BY <3>1, NextCases DEF Commits, BeginEdit, GiveUp, CommitPin, CommitUnpin,
         CommitShape, Define, Allocate, db, shifts
  <2> QED
    BY <2>1, <2>2, <2>3, <2>4
<1> DEFINE Sound(x) == x.at # "idle" =>
              /\ x.closed => x.shift \in Closable
              /\ x.does = "update" /\ x.what.closed = TRUE => x.shift \in Closable
<1>3. \A f \in Editors : Sound(edit[f])
  BY DEF ClosableOnly
<1>4. \A f \in Editors : Sound(edit'[f])
  <2>1. CASE edit' = edit
    BY <1>3, <2>1
  <2>2. ASSUME NEW e \in Editors, Ends(e)
        PROVE  \A f \in Editors : Sound(edit'[f])
    BY <1>1, <1>3, <2>2 DEF Ends, IdleEdit
  <2>3. ASSUME NEW e \in Editors, BeginEdit(e)
        PROVE  \A f \in Editors : Sound(edit'[f])
    <3>1. \A f \in Editors : /\ edit'[f].shift = edit[f].shift
                             /\ edit'[f].does = edit[f].does
                             /\ edit'[f].what = edit[f].what
                             /\ edit'[f].closed = edit[f].closed
                             /\ edit'[f].at # "idle" => edit[f].at # "idle"
      BY <1>1, <2>3 DEF BeginEdit, Requests
    <3> QED
      BY <1>3, <3>1
  <2>4. ASSUME NEW e \in Editors, NEW does, NEW s, NEW what,
               WellAsked(does, s, what), Looked(e, does, s, what)
        PROVE  \A f \in Editors : Sound(edit'[f])
    <3>1. s \in Shifts /\ (closed[s] => s \in Closable)
      BY <2>4 DEF WellAsked, ClosableOnly
    <3>2. does = "update" => (what.closed = TRUE => s \in Closable)
      BY <2>4 DEF WellAsked
    <3>3. Sound([at |-> "found", does |-> does, shift |-> s, closed |-> closed[s],
                 what |-> what, time |-> 0])
      BY <3>1, <3>2
    <3>4. \A f \in Editors : edit'[f] = IF f = e
             THEN [at |-> "found", does |-> does, shift |-> s, closed |-> closed[s],
                   what |-> what, time |-> 0]
             ELSE edit[f]
      BY <1>1, <2>4 DEF Looked
    <3> HIDE DEF Sound
    <3> QED
      BY <1>3, <3>3, <3>4
  <2> QED
    BY <2>1, <2>2, <2>3, <2>4, EditSteps
<1> QED
  BY <1>2, <1>4 DEF ClosableOnly

-----------------------------------------------------------------------------
(* Pins. *)

\* What a step does to the pins: one more under the lock, one fewer, those of a
\* definition, or those of a rota that goes.
LEMMA PinSteps ==
    ASSUME TypeOK, Next
    PROVE  \/ pins' = pins
           \/ \E e \in Editors : CommitPin(e) \/ CommitUnpin(e)
           \/ \E r \in Rotas : Define(r) \/ Discard(r)
<1>1. ASSUME NEW e \in Editors, Finds(e) PROVE pins' = pins
  BY <1>1, FindsEffect DEF db
<1> QED
  BY <1>1, NextCases DEF Commits, BeginEdit, GiveUp, CommitShape, CommitUpdate, Allocate, db

\* A new pin gets a number no request can be about to delete.
LEMMA NamedStep ==
    ASSUME TypeOK, RequestsInOrder, PinsNamed, [Next]_vars
    PROVE  PinsNamed'
<1>0. CASE UNCHANGED vars
  BY <1>0 DEF vars, db, PinsNamed
<1> SUFFICES ASSUME Next PROVE PinsNamed'
  BY <1>0
<1> DEFINE Knows(x, m, set) == x.at # "idle" /\ x.does = "unpin" =>
              /\ x.what.pin <= m
              /\ \A p \in set : p.id = x.what.pin => p.shift = x.shift
<1>1. /\ edit \in [Editors -> Requests] /\ minted \in Nat /\ minted' \in Nat
      /\ \A p \in pins : p.id \in Nat /\ p.id <= minted
  <2>1. TypeOK'
    BY TypeStep
  <2> QED
    BY <2>1, BoundsAssumption DEF TypeOK, Pin
<1>2. \A f \in Editors : Knows(edit[f], minted, pins)
  BY DEF PinsNamed
<1>3. \A f \in Editors : edit[f].at # "idle" /\ edit[f].does = "unpin" => edit[f].what.pin \in Nat
  BY DEF RequestsInOrder, PinAsk, UnpinAsk, ShapeAsk, UpdateAsk
\* No pin comes or goes but under its own number.
<1>4. /\ minted <= minted'
      /\ \A p \in pins' \ pins : p.id \in Nat /\ p.id > minted
      /\ \A p, q \in pins' \ pins : p.id = q.id => p = q
  <2>1. CASE pins' \subseteq pins /\ minted' = minted
    BY <1>1, <2>1
  <2>2. ASSUME NEW e \in Editors, CommitPin(e)
        PROVE  <1>4!:
    <3> DEFINE row == [id |-> minted + 1, shift |-> edit[e].shift,
                       role |-> edit[e].what.role, who |-> edit[e].what.who,
                       seeded |-> FALSE]
    <3>1. pins' = pins \cup {row} /\ minted' = minted + 1
      BY <2>2 DEF CommitPin
    <3>2. row.id = minted + 1
      OBVIOUS
    <3> HIDE DEF row
    <3> QED
      BY <1>1, <3>1, <3>2
  <2>3. ASSUME NEW r \in Rotas, Define(r)
        PROVE  <1>4!:
    <3>1. PICK seeds, num :
              /\ seeds \in Standing
              /\ minted <= minted'
              /\ \A p \in seeds : num[p] \in 1 .. minted' /\ num[p] > minted
              /\ \A p, q \in seeds : num[p] = num[q] => p = q
              /\ pins' = pins \cup Seeded(seeds, num)
      BY <2>3, DefineEffect
    <3> DEFINE row(a) == [id |-> num[a], shift |-> a.shift, role |-> a.role,
                          who |-> a.who, seeded |-> TRUE]
    <3>2. \A p \in pins' \ pins : \E a \in seeds : p = row(a)
      BY <3>1 DEF Seeded
    <3>3. \A p \in pins' \ pins : p.id \in Nat /\ p.id > minted
      BY <1>1, <3>1, <3>2
    <3>4. ASSUME NEW p \in pins' \ pins, NEW q \in pins' \ pins, p.id = q.id
          PROVE  p = q
      <4>1. PICK a \in seeds : p = row(a)
        BY <3>2
      <4>2. PICK b \in seeds : q = row(b)
        BY <3>2
      <4>3. num[a] = num[b]
        BY <3>4, <4>1, <4>2
      <4> QED
        BY <3>1, <4>1, <4>2, <4>3
    <3> QED
      BY <3>1, <3>3, <3>4
  <2>4. ASSUME NEW e \in Editors, Finds(e) PROVE pins' = pins /\ minted' = minted
    BY <2>4, FindsEffect DEF db
  <2> QED
    BY <2>1, <2>2, <2>3, <2>4, NextCases DEF Commits, BeginEdit, GiveUp, CommitUnpin,
       CommitShape, CommitUpdate, Allocate, Discard, db
<1>5. \A p, q \in pins' : p.id = q.id => p = q
  <2> SUFFICES ASSUME NEW p \in pins', NEW q \in pins', p.id = q.id PROVE p = q
    OBVIOUS
  <2>1. CASE p \in pins /\ q \in pins
    BY <2>1 DEF PinsNamed
  <2> QED
    BY <1>1, <1>4, <2>1
<1>6. \A f \in Editors : Knows(edit[f], minted', pins')
  BY <1>1, <1>2, <1>3, <1>4
<1>7. \A f \in Editors : Knows(edit'[f], minted', pins')
  <2>1. CASE edit' = edit
    BY <1>6, <2>1
  <2>2. ASSUME NEW e \in Editors, Ends(e)
        PROVE  <1>7!:
    <3>1. \A f \in Editors : edit'[f] = IF f = e THEN IdleEdit ELSE edit[f]
      BY <1>1, <2>2 DEF Ends
    <3>2. Knows(IdleEdit, minted', pins')
      BY DEF IdleEdit
    <3> HIDE DEF Knows
    <3> QED
      BY <1>6, <3>1, <3>2
  <2>3. ASSUME NEW e \in Editors, BeginEdit(e)
        PROVE  <1>7!:
    <3>1. \A f \in Editors : /\ edit'[f].shift = edit[f].shift
                             /\ edit'[f].does = edit[f].does
                             /\ edit'[f].what = edit[f].what
                             /\ edit'[f].at # "idle" => edit[f].at # "idle"
      BY <1>1, <2>3 DEF BeginEdit, Requests
    <3> QED
      BY <1>6, <3>1
  <2>4. ASSUME NEW e \in Editors, Finds(e)
        PROVE  <1>7!:
    <3>1. pins' = pins /\ minted' = minted
      BY <2>4, FindsEffect DEF db
    <3>2. \A f \in Editors \ {e} : edit'[f] = edit[f]
      BY <1>1, <2>4, FindsEffect DEF Looked
    <3>3. Knows(edit'[e], minted, pins)
      <4>1. CASE FindPin(e)
        <5>1. PICK p \in pins : Looked(e, "unpin", p.shift, [pin |-> p.id])
          BY <4>1 DEF FindPin
        <5>2. edit'[e].what.pin = p.id /\ edit'[e].shift = p.shift
          BY <1>1, <5>1 DEF Looked
        <5> QED
          BY <1>1, <5>2 DEF PinsNamed
      <4>2. CASE ~FindPin(e)
        <5>1. edit'[e].does # "unpin"
          BY <1>1, <2>4, <4>2 DEF Finds, FindShiftToPin, FindShiftToShape,
             FindShiftToUpdate, Looked
        <5> QED
          BY <5>1
      <4> QED
        BY <4>1, <4>2
    <3> HIDE DEF Knows
    <3> QED
      BY <1>6, <3>1, <3>2, <3>3
  <2>5. ASSUME NEW e \in Editors, GiveUp(e) \/ Commits(e) PROVE Ends(e)
    BY <2>5, CommitsEffect DEF GiveUp, Ends
  <2> QED
    BY <2>1, <2>2, <2>3, <2>4, <2>5, NextCases DEF Define, Allocate, Discard
<1> QED
  BY <1>5, <1>7 DEF PinsNamed

LEMMA OnceStep ==
    ASSUME TypeOK, RequestsInOrder, PinnedOnce, [Next]_vars
    PROVE  PinnedOnce'
<1>0. CASE UNCHANGED vars
  BY <1>0 DEF vars, db, PinnedOnce
<1> SUFFICES ASSUME Next PROVE PinnedOnce'
  BY <1>0
<1>1. CASE pins' \subseteq pins
  BY <1>1 DEF PinnedOnce
<1>2. ASSUME NEW e \in Editors, CommitPin(e)
      PROVE  PinnedOnce'
  <2> DEFINE s   == edit[e].shift
             ask == edit[e].what
             pin == [id |-> minted + 1, shift |-> s, role |-> ask.role,
                     who |-> ask.who, seeded |-> FALSE]
  <2>1. Unpinned(s, ask.role, ask.who) /\ pins' = pins \cup {pin}
    BY <1>2 DEF CommitPin
  <2>2. \A p \in pins : ~(p.shift = s /\ p.who = ask.who /\ ask.who \in Volunteers)
    BY <2>1 DEF Unpinned
  <2> SUFFICES ASSUME NEW p \in pins', NEW q \in pins',
                      p.shift = q.shift, p.who = q.who, p.who \in Volunteers
               PROVE  p = q
    BY DEF PinnedOnce
  <2>3. CASE p \in pins /\ q \in pins
    BY <2>3 DEF PinnedOnce
  <2>4. pin.shift = s /\ pin.who = ask.who
    OBVIOUS
  <2> HIDE DEF pin
  <2> QED
    BY <2>1, <2>2, <2>3, <2>4
<1>3. ASSUME NEW r \in Rotas, Define(r)
      PROVE  PinnedOnce'
  <2>1. PICK seeds, num :
            /\ seeds \in Standing
            /\ \A p \in seeds : RotaOf[p.shift] = r
            /\ pins' = pins \cup Seeded(seeds, num)
    BY <1>3, DefineEffect
  <2>2. \A p \in pins : RotaOf[p.shift] # r
    BY <1>3 DEF Define, TypeOK, Pin
  <2>3. \A p, q \in seeds : p.shift = q.shift /\ p.who = q.who => p = q
    BY <2>1, StandingAssumption
  <2>4. \A p \in Seeded(seeds, num) : RotaOf[p.shift] = r
    BY <2>1 DEF Seeded
  <2>5. \A p, q \in Seeded(seeds, num) : p.shift = q.shift /\ p.who = q.who => p = q
    <3> SUFFICES ASSUME NEW p \in Seeded(seeds, num), NEW q \in Seeded(seeds, num),
                        p.shift = q.shift, p.who = q.who
                 PROVE  p = q
      OBVIOUS
    <3> DEFINE row(a) == [id |-> num[a], shift |-> a.shift, role |-> a.role,
                          who |-> a.who, seeded |-> TRUE]
    <3>1. PICK a \in seeds : p = row(a)
      BY DEF Seeded
    <3>2. PICK b \in seeds : q = row(b)
      BY DEF Seeded
    <3>3. a.shift = b.shift /\ a.who = b.who
      BY <3>1, <3>2
    <3>4. a = b
      BY <2>3, <3>3
    <3> QED
      BY <3>1, <3>2, <3>4
  <2> SUFFICES ASSUME NEW p \in pins', NEW q \in pins',
                      p.shift = q.shift, p.who = q.who, p.who \in Volunteers
               PROVE  p = q
    BY DEF PinnedOnce
  <2>6. CASE p \in pins /\ q \in pins
    BY <2>6 DEF PinnedOnce
  <2>7. CASE p \in Seeded(seeds, num) /\ q \in Seeded(seeds, num)
    BY <2>5, <2>7
  <2>8. ~(p \in pins /\ q \in Seeded(seeds, num)) /\ ~(q \in pins /\ p \in Seeded(seeds, num))
    BY <2>2, <2>4
  <2> QED
    BY <2>1, <2>6, <2>7, <2>8
<1>4. ASSUME (\E e \in Editors : CommitUnpin(e)) \/ (\E r \in Rotas : Discard(r))
      PROVE  pins' \subseteq pins
  BY <1>4 DEF CommitUnpin, Discard
<1> QED
  BY <1>1, <1>2, <1>3, <1>4, PinSteps

\* The pins of a Shift's Role that a step leaves alone.
LEMMA FitKept ==
    ASSUME TypeOK, NEW s, NEW k,
           Pinned(s, k) > shape[s][k] => \A p \in PinsOf(s, k) : p.seeded,
           PinsOf(s, k)' \subseteq PinsOf(s, k),
           shape'[s][k] = shape[s][k], shape[s][k] \in Nat
    PROVE  Pinned(s, k)' > shape'[s][k] => \A p \in PinsOf(s, k)' : p.seeded
<1>1. IsFiniteSet(PinsOf(s, k)) /\ Pinned(s, k) \in Nat
  BY PinnedType DEF TypeOK
<1>2. IsFiniteSet(PinsOf(s, k)') /\ Pinned(s, k)' <= Pinned(s, k)
  BY <1>1, FS_Subset DEF Pinned
<1>3. Pinned(s, k)' \in Nat
  BY <1>2, FS_CardinalityType DEF Pinned
<1> QED
  BY <1>1, <1>2, <1>3

LEMMA FitStep ==
    ASSUME TypeOK, RequestsInOrder, ClosableOnly, PinsFit, [Next]_vars
    PROVE  PinsFit'
<1>0. CASE UNCHANGED vars
  BY <1>0 DEF vars, db, shifts, PinsFit, Pinned, PinsOf
<1> SUFFICES ASSUME Next,
                    NEW s \in Shifts \ Closable, NEW k \in Roles
             PROVE  Pinned(s, k)' > shape'[s][k] => \A p \in PinsOf(s, k)' : p.seeded
  BY <1>0 DEF PinsFit
<1>1. shape[s][k] \in Nat /\ Pinned(s, k) \in Nat /\ IsFiniteSet(PinsOf(s, k))
  BY PinnedType DEF TypeOK, Shape
<1>2. Pinned(s, k) > shape[s][k] => \A p \in PinsOf(s, k) : p.seeded
  BY DEF PinsFit
<1>3. CASE pins' \subseteq pins /\ shape'[s] = shape[s]
  <2>1. PinsOf(s, k)' \subseteq PinsOf(s, k)
    BY <1>3 DEF PinsOf
  <2> QED
    BY <1>1, <1>2, <1>3, <2>1, FitKept
<1>4. ASSUME NEW e \in Editors, CommitPin(e)
      PROVE  Pinned(s, k)' > shape'[s][k] => \A p \in PinsOf(s, k)' : p.seeded
  <2> DEFINE ask == edit[e].what
             pin == [id |-> minted + 1, shift |-> edit[e].shift, role |-> ask.role,
                     who |-> ask.who, seeded |-> FALSE]
  <2>1. /\ Pinned(edit[e].shift, ask.role) < shape[edit[e].shift][ask.role]
        /\ pins' = pins \cup {pin}
        /\ shape' = shape
    BY <1>4 DEF CommitPin, SeatLeft, shifts
  <2>2. CASE edit[e].shift = s /\ ask.role = k
    <3>1. PinsOf(s, k)' = PinsOf(s, k) \cup {pin}
      BY <2>1, <2>2 DEF PinsOf
    <3>2. IsFiniteSet(PinsOf(s, k) \cup {pin})
          /\ Cardinality(PinsOf(s, k) \cup {pin}) =
                IF pin \in PinsOf(s, k) THEN Cardinality(PinsOf(s, k))
                                         ELSE Cardinality(PinsOf(s, k)) + 1
      <4> HIDE DEF pin
      <4> QED
        BY <1>1, FS_AddElement
    <3>3. Pinned(s, k)' = Cardinality(PinsOf(s, k) \cup {pin})
      BY <3>1 DEF Pinned
    <3> HIDE DEF pin
    <3>4. Pinned(s, k)' <= Pinned(s, k) + 1 /\ Pinned(s, k)' \in Nat
      BY <1>1, <3>2, <3>3 DEF Pinned
    <3> QED
      BY <1>1, <2>1, <2>2, <3>4
  <2>3. CASE ~(edit[e].shift = s /\ ask.role = k)
    <3>1. PinsOf(s, k)' \subseteq PinsOf(s, k)
      BY <2>1, <2>3 DEF PinsOf
    <3> QED
      BY <1>1, <1>2, <2>1, <3>1, FitKept
  <2> QED
    BY <2>2, <2>3
<1>5. ASSUME NEW e \in Editors, CommitShape(e), edit[e].shift = s
      PROVE  Pinned(s, k)' > shape'[s][k] => \A p \in PinsOf(s, k)' : p.seeded
  <2>1. ~edit[e].closed
    BY <1>5 DEF CommitShape, Begun, ClosableOnly
  <2>2. /\ Pinned(s, k) <= edit[e].what.shape[k]
        /\ shape'[s] = edit[e].what.shape
        /\ pins' = pins
    BY <1>5, <2>1 DEF CommitShape, HoldsThePins, TypeOK
  <2>3. Pinned(s, k)' = Pinned(s, k)
    BY <2>2 DEF Pinned, PinsOf
  <2>4. shape'[s][k] \in Nat
    <3>1. edit[e].what \in ShapeAsk
      BY <1>5 DEF CommitShape, Begun, RequestsInOrder
    <3> QED
      BY <2>2, <3>1, ShapesAssumption DEF ShapeAsk, Shape
  <2> QED
    BY <1>1, <2>2, <2>3, <2>4
<1>6. ASSUME NEW r \in Rotas, Define(r)
      PROVE  Pinned(s, k)' > shape'[s][k] => \A p \in PinsOf(s, k)' : p.seeded
  <2>1. PICK seeds, num :
            /\ seeds \in Standing
            /\ \A p \in seeds : RotaOf[p.shift] = r
            /\ pins' = pins \cup Seeded(seeds, num)
    BY <1>6, DefineEffect
  <2>2. \A p \in pins : RotaOf[p.shift] # r
    BY <1>6 DEF Define, TypeOK, Pin
  <2>3. \A p \in Seeded(seeds, num) : RotaOf[p.shift] = r /\ p.seeded
    BY <2>1 DEF Seeded
  <2>4. CASE RotaOf[s] = r
    BY <2>1, <2>2, <2>3, <2>4 DEF PinsOf
  <2>5. CASE RotaOf[s] # r
    <3>1. PinsOf(s, k)' \subseteq PinsOf(s, k)
      BY <2>1, <2>3, <2>5 DEF PinsOf
    <3>2. shape'[s] = shape[s]
      BY <1>6, <2>5 DEF Define
    <3> QED
      BY <1>1, <1>2, <3>1, <3>2, FitKept
  <2> QED
    BY <2>4, <2>5
<1>7. ASSUME NEW r \in Rotas, Discard(r)
      PROVE  Pinned(s, k)' > shape'[s][k] => \A p \in PinsOf(s, k)' : p.seeded
  <2>1. CASE RotaOf[s] = r
    BY <1>7, <2>1 DEF Discard, PinsOf
  <2>2. CASE RotaOf[s] # r
    BY <1>3, <1>7, <2>2 DEF Discard
  <2> QED
    BY <2>1, <2>2
<1>8. ASSUME NEW e \in Editors, CommitUnpin(e) \/ CommitUpdate(e)
                                \/ (CommitShape(e) /\ edit[e].shift # s)
      PROVE  pins' \subseteq pins /\ shape'[s] = shape[s]
  BY <1>8 DEF CommitUnpin, CommitUpdate, CommitShape, shifts, TypeOK
<1>9. ASSUME NEW e \in Editors, Finds(e) \/ BeginEdit(e) \/ GiveUp(e)
      PROVE  pins' \subseteq pins /\ shape'[s] = shape[s]
  BY <1>9, FindsEffect DEF BeginEdit, GiveUp, db, shifts
<1>10. ASSUME NEW r \in Rotas, Allocate(r)
       PROVE  pins' \subseteq pins /\ shape'[s] = shape[s]
  BY <1>10 DEF Allocate, shifts
<1> QED
  BY <1>3, <1>4, <1>5, <1>6, <1>7, <1>8, <1>9, <1>10, NextCases DEF Commits

-----------------------------------------------------------------------------
(* The invariants. *)

LEMMA InitInv == Init => IndInv
<1> SUFFICES ASSUME Init PROVE IndInv
  OBVIOUS
<1>1. TypeOK
  BY TypeInit
<1>2. \A e \in Editors : edit[e].at = "idle"
  BY DEF Init, IdleEdit
<1>3. pins = {} /\ \A s \in Shifts : ~closed[s]
  BY DEF Init
<1>4. RequestsInOrder /\ TimesDistinct /\ ClosableOnly /\ PinsNamed /\ PinnedOnce /\ PinsFit
  BY <1>2, <1>3 DEF RequestsInOrder, TimesDistinct, ClosableOnly, PinsNamed, PinnedOnce, PinsFit, PinsOf
<1> QED
  BY <1>1, <1>4 DEF IndInv

LEMMA StepInv == IndInv /\ [Next]_vars => IndInv'
<1> SUFFICES ASSUME IndInv, [Next]_vars PROVE IndInv'
  OBVIOUS
<1> USE DEF IndInv
<1>1. TypeOK' /\ ClosableOnly' /\ PinsNamed' /\ PinnedOnce' /\ PinsFit'
  BY TypeStep, ClosableStep, NamedStep, OnceStep, FitStep
<1>2. RequestsInOrder' /\ TimesDistinct'
  <2>1. CASE UNCHANGED vars
    BY <2>1 DEF vars, RequestsInOrder, TimesDistinct
  <2>2. CASE Next
    BY <2>2, OrderStep, TimesStep
  <2> QED
    BY <2>1, <2>2
<1> QED
  BY <1>1, <1>2

\* The strengthening holds of every run of the program: requests are in order,
\* open transactions have times of their own, and only Shifts that are ever
\* closed are believed to be closed.
THEOREM Inductive == Spec => []IndInv
<1>1. Init => IndInv
  BY InitInv
<1>2. IndInv /\ [Next]_vars => IndInv'
  BY StepInv
<1> QED
  BY <1>1, <1>2, PTL DEF Spec

\* Every variable has its type, whatever is edited, allocated and discarded.
THEOREM TypeCorrect == Spec => []TypeOK
<1>1. IndInv => TypeOK
  BY DEF IndInv
<1> QED
  BY <1>1, Inductive, PTL

\* No volunteer is pinned to a Shift twice (AddPreallocation checks and inserts
\* under the rotation row lock, seedPreallocations collapses).
THEOREM OncePinned == Spec => []PinnedOnce
<1>1. IndInv => PinnedOnce
  BY DEF IndInv
<1> QED
  BY <1>1, Inductive, PTL

\* On a Shift that is never closed, requests never leave more pins than Seats
\* (seatsForRole on one side, seatsHoldThePins on the other).
THEOREM PinsHaveSeats == Spec => []PinsFit
<1>1. IndInv => PinsFit
  BY DEF IndInv
<1> QED
  BY <1>1, Inductive, PTL

-----------------------------------------------------------------------------
(* Refinement of StampedInputs. *)

AbsInputs == [r \in Rotas |-> InputsOf(r)]
AbsDays   == [r \in Rotas |-> [s \in ShiftsOf(r) |-> day[s]]]

\* The inputs of a rota are made of its own Shifts and their pins.
LEMMA InputsKept ==
    ASSUME NEW r \in Rotas,
           \A s \in ShiftsOf(r) :
              /\ closed'[s] = closed[s] /\ shape'[s] = shape[s]
              /\ {p \in pins' : p.shift = s} = {p \in pins : p.shift = s}
    PROVE  AbsInputs'[r] = AbsInputs[r]
BY DEF AbsInputs, InputsOf

LEMMA DaysKept ==
    ASSUME NEW r \in Rotas, \A s \in ShiftsOf(r) : day'[s] = day[s]
    PROVE  AbsDays'[r] = AbsDays[r]
BY DEF AbsDays

\* Nothing is different if nothing the inputs are made of is.
LEMMA AllKept ==
    ASSUME UNCHANGED <<shifts, pins>>
    PROVE  AbsInputs' = AbsInputs /\ AbsDays' = AbsDays
BY DEF AbsInputs, AbsDays, InputsOf, shifts

\* A request that ends closes its transaction, if it had begun one.
LEMMA OpenEnds ==
    ASSUME TypeOK, TimesDistinct, NEW e \in Editors, Ends(e)
    PROVE  /\ edit[e].at = "begun" => edit[e].time \in Open /\ Open' = Open \ {edit[e].time}
           /\ edit[e].at # "begun" => Open' = Open
<1>1. \A f \in Editors : edit'[f] = IF f = e THEN IdleEdit ELSE edit[f]
  BY DEF Ends, TypeOK
<1>2. IdleEdit.at # "begun"
  BY DEF IdleEdit
<1>3. \A f \in Editors : edit[f].at = "begun" /\ edit[e].at = "begun"
                          /\ edit[f].time = edit[e].time => f = e
  BY DEF TimesDistinct
<1> QED
  BY <1>1, <1>2, <1>3 DEF Open

LEMMA OpenBegins ==
    ASSUME TypeOK, NEW e \in Editors, BeginEdit(e)
    PROVE  Open' = Open \cup {clock + 1}
<1>1. /\ edit[e].at = "found"
      /\ \A f \in Editors \ {e} : edit'[f] = edit[f]
      /\ edit'[e].at = "begun" /\ edit'[e].time = clock + 1
  BY DEF BeginEdit, TypeOK, Requests
<1> QED
  BY <1>1 DEF Open

LEMMA OpenFinds ==
    ASSUME TypeOK, NEW e \in Editors, Finds(e)
    PROVE  Open' = Open
<1>1. PICK does, s, what : edit[e].at = "idle" /\ Looked(e, does, s, what)
  BY FindsEffect
<1>2. /\ \A f \in Editors \ {e} : edit'[f] = edit[f]
      /\ edit'[e].at = "found"
  BY <1>1 DEF Looked, TypeOK
<1> QED
  BY <1>1, <1>2 DEF Open

LEMMA InitStamped == Init => Stamping!Init
<1> SUFFICES ASSUME Init PROVE Stamping!Init
  OBVIOUS
<1>1. Open = {}
  BY DEF Init, Open, IdleEdit
<1> QED
  BY <1>1 DEF Init, Stamping!Init

\* The edits that move an input of a rota: the rota is unallocated, its stamp
\* is the time of the transaction, and no other rota is touched.
LEMMA EditStamps ==
    ASSUME TypeOK, NEW r \in Rotas, NEW e \in Editors, NEW t,
           edit[e].at = "begun", edit[e].time = t, TimesDistinct, Ends(e),
           rota[r] = "unallocated",
           stamp' = Stamped(r, t),
           UNCHANGED <<rota, clock>>,
           \A s \in Shifts : RotaOf[s] # r =>
              /\ day'[s] = day[s]
              /\ closed'[s] = closed[s]
              /\ shape'[s] = shape[s]
              /\ {p \in pins' : p.shift = s} = {p \in pins : p.shift = s}
    PROVE  t \in Open /\ Stamping!Edit(r, t)
<1>1. t \in Open /\ Open' = Open \ {t}
  BY OpenEnds
<1>2. stamp'[r] = t /\ \A q \in Rotas \ {r} : stamp'[q] = stamp[q]
  BY DEF TypeOK, Stamped
<1>3. ASSUME NEW q \in Rotas \ {r}
      PROVE  AbsInputs'[q] = AbsInputs[q] /\ AbsDays'[q] = AbsDays[q]
  <2>1. \A s \in ShiftsOf(q) : s \in Shifts /\ RotaOf[s] # r
    BY DEF ShiftsOf
  <2> QED
    BY <2>1, InputsKept, DaysKept
<1> QED
  BY <1>1, <1>2, <1>3 DEF Stamping!Edit, Stamping!OnlyOf, AbsInputs, AbsDays

LEMMA PinStamps ==
    ASSUME TypeOK, RequestsInOrder, TimesDistinct, NEW e \in Editors, CommitPin(e)
    PROVE  \E r \in Rotas, t \in Open : Stamping!Edit(r, t)
<1> DEFINE row == [id |-> minted + 1, shift |-> edit[e].shift,
                   role |-> edit[e].what.role, who |-> edit[e].what.who,
                   seeded |-> FALSE]
<1>0. PICK r, t : r = RotaOf[edit[e].shift] /\ t = edit[e].time
  OBVIOUS
<1>1. /\ edit[e].at = "begun" /\ rota[r] = "unallocated" /\ Ends(e)
      /\ stamp' = Stamped(r, t)
      /\ pins' = pins \cup {row}
      /\ UNCHANGED <<rota, shifts, clock>>
  BY <1>0 DEF CommitPin, Begun, LockUnallocated
<1>2. row.shift = edit[e].shift
  OBVIOUS
<1>3. r \in Rotas
  BY <1>0, <1>1, RotasAssumption DEF RequestsInOrder
<1> HIDE DEF row
<1>4. \A s \in Shifts : RotaOf[s] # r =>
          {p \in pins' : p.shift = s} = {p \in pins : p.shift = s}
  <2> SUFFICES ASSUME NEW s \in Shifts, RotaOf[s] # r
               PROVE  {p \in pins' : p.shift = s} = {p \in pins : p.shift = s}
    OBVIOUS
  <2>1. row.shift # s
    BY <1>0, <1>2
  <2> QED
    BY <1>1, <2>1
<1>5. t \in Open /\ Stamping!Edit(r, t)
  <2>1. \A s \in Shifts : day'[s] = day[s] /\ closed'[s] = closed[s] /\ shape'[s] = shape[s]
    BY <1>1 DEF shifts
  <2> QED
    BY <1>0, <1>1, <1>3, <1>4, <2>1, EditStamps
<1> QED
  BY <1>3, <1>5

LEMMA UnpinStamps ==
    ASSUME TypeOK, TimesDistinct, PinsNamed, NEW e \in Editors, CommitUnpin(e)
    PROVE  \E r \in Rotas, t \in Open : Stamping!Edit(r, t)
<1>1. PICK p \in pins : /\ p.id = edit[e].what.pin
                        /\ pins' = pins \ {p}
                        /\ stamp' = Stamped(RotaOf[p.shift], edit[e].time)
  BY DEF CommitUnpin
<1>0. PICK r, t : r = RotaOf[p.shift] /\ t = edit[e].time
  OBVIOUS
<1>2. /\ edit[e].at = "begun" /\ Ends(e)
      /\ edit[e].does = "unpin" /\ rota[RotaOf[edit[e].shift]] = "unallocated"
      /\ UNCHANGED <<rota, shifts, clock>>
  BY DEF CommitUnpin, Begun, LockUnallocated
<1>3. p.shift \in Shifts /\ r \in Rotas
  BY <1>0, RotasAssumption DEF TypeOK, Pin
<1>4. \A s \in Shifts : RotaOf[s] # r =>
          {q \in pins' : q.shift = s} = {q \in pins : q.shift = s}
  BY <1>0, <1>1
<1>5. rota[r] = "unallocated"
  BY <1>0, <1>1, <1>2 DEF PinsNamed
<1>6. \A s \in Shifts : day'[s] = day[s] /\ closed'[s] = closed[s] /\ shape'[s] = shape[s]
  BY <1>2 DEF shifts
<1>7. stamp' = Stamped(r, t)
  BY <1>0, <1>1
<1> QED
  BY <1>0, <1>2, <1>3, <1>4, <1>5, <1>6, <1>7, EditStamps

LEMMA ShapeStamps ==
    ASSUME TypeOK, RequestsInOrder, TimesDistinct, NEW e \in Editors, CommitShape(e)
    PROVE  \E r \in Rotas, t \in Open : Stamping!Edit(r, t)
<1>0. PICK r, t : r = RotaOf[edit[e].shift] /\ t = edit[e].time
  OBVIOUS
<1>1. /\ edit[e].at = "begun" /\ rota[r] = "unallocated" /\ Ends(e)
      /\ stamp' = Stamped(r, t)
      /\ shape' = [shape EXCEPT ![edit[e].shift] = edit[e].what.shape]
      /\ UNCHANGED <<rota, day, closed, pins, minted, clock>>
  BY <1>0 DEF CommitShape, Begun, LockUnallocated
<1>2. r \in Rotas
  BY <1>0, <1>1, RotasAssumption DEF RequestsInOrder
<1>3. \A s \in Shifts : RotaOf[s] # r => shape'[s] = shape[s]
  BY <1>0, <1>1 DEF TypeOK
<1>4. t \in Open /\ Stamping!Edit(r, t)
  BY <1>0, <1>1, <1>2, <1>3, EditStamps
<1> QED
  BY <1>2, <1>4

\* An update of an unallocated rota's Shift stamps if it closes or moves the
\* Shift; an allocated rota's Shift only moves; otherwise nothing is different.
LEMMA UpdateStamps ==
    ASSUME TypeOK, RequestsInOrder, TimesDistinct, NEW e \in Editors, CommitUpdate(e)
    PROVE  \/ \E r \in Rotas, t \in Open : Stamping!Edit(r, t) \/ Stamping!Redate(r, t)
           \/ \E t \in Open : Stamping!End(t)
<1> DEFINE s   == edit[e].shift
           ask == edit[e].what
           shut  == ask.closed # None
           moves == ask.day # None /\ ask.day # day[s]
<1>0. PICK r, t : r = RotaOf[s] /\ t = edit[e].time
  OBVIOUS
<1>1. /\ edit[e].at = "begun" /\ edit[e].does = "update" /\ Ends(e)
      /\ Exists(s)
      /\ shut => rota[r] = "unallocated"
      /\ closed' = [closed EXCEPT ![s] = IF shut THEN ask.closed ELSE closed[s]]
      /\ day' = [day EXCEPT ![s] = IF ask.day # None THEN ask.day ELSE day[s]]
      /\ stamp' = IF shut \/ moves THEN Stamped(r, t) ELSE stamp
      /\ UNCHANGED <<rota, shape, pins, minted, clock>>
  BY <1>0 DEF CommitUpdate, Begun, LockUnallocated
<1>2. t \in Open /\ Open' = Open \ {t} /\ s \in Shifts /\ r \in Rotas
  BY <1>0, <1>1, OpenEnds, RotasAssumption DEF RequestsInOrder
<1>3. closed \in [Shifts -> BOOLEAN] /\ day \in [Shifts -> Days \cup {None}]
  BY DEF TypeOK
<1>4. rota[r] \in {"unallocated", "allocated"}
  BY <1>0, <1>1, <1>2 DEF TypeOK
<1>5. ~shut => closed' = closed
  BY <1>1, <1>3
<1>6. \A u \in Shifts : RotaOf[u] # r => closed'[u] = closed[u] /\ day'[u] = day[u]
  BY <1>0, <1>1, <1>3
<1>7. ~moves => day' = day
  BY <1>1, <1>3
<1>8. CASE rota[r] = "unallocated" /\ (shut \/ moves)
  <2>1. stamp' = Stamped(r, t)
    BY <1>1, <1>8
  <2>2. Stamping!Edit(r, t)
    BY <1>0, <1>1, <1>2, <1>6, <1>8, <2>1, EditStamps
  <2> QED
    BY <1>2, <2>2
<1>9. CASE rota[r] = "allocated" /\ ~shut /\ moves
  <2>1. stamp' = stamp
    BY <1>1, <1>3, <1>9 DEF Stamped, TypeOK
  <2>2. AbsInputs' = AbsInputs
    BY <1>1, <1>5, <1>9 DEF AbsInputs, InputsOf
  <2>3. \A q \in Rotas \ {r} : AbsDays'[q] = AbsDays[q]
    BY <1>6, DaysKept DEF ShiftsOf
  <2>4. Stamping!Redate(r, t)
    BY <1>1, <1>2, <1>9, <2>1, <2>2, <2>3
       DEF Stamping!Redate, Stamping!OnlyOf, AbsInputs, AbsDays
  <2> QED
    BY <1>2, <2>4
<1>10. CASE ~shut /\ ~moves
  <2>1. UNCHANGED <<shifts, pins>> /\ stamp' = stamp
    BY <1>1, <1>5, <1>7, <1>10 DEF shifts
  <2>2. AbsInputs' = AbsInputs /\ AbsDays' = AbsDays
    BY <2>1, AllKept
  <2>3. Stamping!End(t)
    BY <1>1, <1>2, <2>1, <2>2 DEF Stamping!End, AbsInputs, AbsDays
  <2> QED
    BY <1>2, <2>3
<1> QED
  BY <1>1, <1>4, <1>8, <1>9, <1>10

\* The definition and the discard of a rota touch the inputs of that rota only.
LEMMA LifeStamps ==
    ASSUME TypeOK, NEW r \in Rotas, Define(r) \/ Discard(r)
    PROVE  Stamping!Define(r) \/ Stamping!Discard(r)
<1>1. Open' = Open
  BY DEF Define, Discard, Open
<1>2. \A s \in Shifts : RotaOf[s] # r =>
          /\ day'[s] = day[s] /\ closed'[s] = closed[s] /\ shape'[s] = shape[s]
          /\ {p \in pins' : p.shift = s} = {p \in pins : p.shift = s}
  <2> SUFFICES ASSUME NEW s \in Shifts, RotaOf[s] # r
               PROVE  /\ day'[s] = day[s] /\ closed'[s] = closed[s] /\ shape'[s] = shape[s]
                      /\ {p \in pins' : p.shift = s} = {p \in pins : p.shift = s}
    OBVIOUS
  <2>1. CASE Define(r)
    <3>1. PICK seeds, num :
              /\ seeds \in Standing
              /\ \A p \in seeds : RotaOf[p.shift] = r
              /\ pins' = pins \cup Seeded(seeds, num)
      BY <2>1, DefineEffect
    <3>2. \A p \in Seeded(seeds, num) : RotaOf[p.shift] = r
      BY <3>1 DEF Seeded
    <3>3. {p \in pins' : p.shift = s} = {p \in pins : p.shift = s}
      BY <3>1, <3>2
    <3>4. day'[s] = day[s] /\ closed'[s] = closed[s] /\ shape'[s] = shape[s]
      BY <2>1 DEF Define
    <3> QED
      BY <3>3, <3>4
  <2>2. CASE Discard(r)
    BY <2>2 DEF Discard, TypeOK
  <2> QED
    BY <2>1, <2>2
<1>3. ASSUME NEW q \in Rotas \ {r}
      PROVE  AbsInputs'[q] = AbsInputs[q] /\ AbsDays'[q] = AbsDays[q]
  <2>1. \A s \in ShiftsOf(q) : s \in Shifts /\ RotaOf[s] # r
    BY DEF ShiftsOf
  <2> QED
    BY <1>2, <2>1, InputsKept, DaysKept
<1>4. CASE Define(r)
  <2>1. Stamping!Define(r)
    BY <1>1, <1>3, <1>4 DEF Define, Stamping!Define, Stamping!OnlyOf, AbsInputs, AbsDays
  <2> QED
    BY <2>1
<1>5. CASE Discard(r)
  <2>1. Stamping!Discard(r)
    BY <1>1, <1>3, <1>5 DEF Discard, Stamping!Discard, Stamping!OnlyOf, AbsInputs, AbsDays
  <2> QED
    BY <2>1
<1> QED
  BY <1>4, <1>5

LEMMA StepStamped ==
    ASSUME IndInv, [Next]_vars
    PROVE  [Stamping!Next]_(Stamping!vars)
<1> USE DEF IndInv
<1>0. ASSUME UNCHANGED <<rota, stamp, shifts, pins, clock>>, Open' = Open
      PROVE  UNCHANGED Stamping!vars
  <2>1. AbsInputs' = AbsInputs /\ AbsDays' = AbsDays
    BY <1>0, AllKept
  <2> QED
    BY <1>0, <2>1 DEF Stamping!vars, AbsInputs, AbsDays
<1>1. CASE UNCHANGED vars
  BY <1>0, <1>1 DEF vars, db, Open
<1>2. ASSUME NEW e \in Editors, Finds(e)
      PROVE  UNCHANGED Stamping!vars
  BY <1>0, <1>2, OpenFinds, FindsEffect DEF db
<1>3. ASSUME NEW e \in Editors, BeginEdit(e)
      PROVE  Stamping!Begin
  <2>1. Open' = Open \cup {clock + 1} /\ UNCHANGED db /\ clock' = clock + 1
    BY <1>3, OpenBegins DEF BeginEdit
  <2>2. AbsInputs' = AbsInputs /\ AbsDays' = AbsDays
    BY <2>1, AllKept DEF db
  <2> QED
    BY <2>1, <2>2 DEF Stamping!Begin, AbsInputs, AbsDays, db
<1>4. ASSUME NEW e \in Editors, GiveUp(e)
      PROVE  UNCHANGED Stamping!vars \/ \E t \in Open : Stamping!End(t)
  <2>1. Ends(e) /\ UNCHANGED <<db, clock>>
    BY <1>4 DEF GiveUp, Ends
  <2>2. CASE edit[e].at # "begun"
    BY <1>0, <2>1, <2>2, OpenEnds DEF db
  <2>3. CASE edit[e].at = "begun"
    <3>1. PICK t : t = edit[e].time
      OBVIOUS
    <3>2. t \in Open /\ Open' = Open \ {t}
      BY <2>1, <2>3, <3>1, OpenEnds
    <3>3. AbsInputs' = AbsInputs /\ AbsDays' = AbsDays
      BY <2>1, AllKept DEF db
    <3>4. Stamping!End(t)
      BY <2>1, <3>2, <3>3 DEF Stamping!End, AbsInputs, AbsDays, db
    <3> QED
      BY <3>2, <3>4
  <2> QED
    BY <2>2, <2>3
<1>5. ASSUME NEW e \in Editors, Commits(e)
      PROVE  \/ \E r \in Rotas, t \in Open : Stamping!Edit(r, t) \/ Stamping!Redate(r, t)
             \/ \E t \in Open : Stamping!End(t)
  BY <1>5, PinStamps, UnpinStamps, ShapeStamps, UpdateStamps DEF Commits
<1>6. ASSUME NEW r \in Rotas, Allocate(r)
      PROVE  Stamping!Allocate(r)
  <2>1. UNCHANGED <<shifts, pins>> /\ Open' = Open
    BY <1>6 DEF Allocate, Open
  <2>2. AbsInputs' = AbsInputs /\ AbsDays' = AbsDays
    BY <2>1, AllKept
  <2> QED
    BY <1>6, <2>1, <2>2 DEF Allocate, Stamping!Allocate, AbsInputs, AbsDays
<1>7. ASSUME NEW r \in Rotas, Define(r) \/ Discard(r)
      PROVE  Stamping!Define(r) \/ Stamping!Discard(r)
  BY <1>7, LifeStamps
<1> QED
  BY <1>1, <1>2, <1>3, <1>4, <1>5, <1>6, <1>7, NextCases DEF Stamping!Next

\* Every edit stamps what it moves and nothing moves an allocated rota's inputs:
\* the promise DraftRotaAllocation builds on (markRotaInputsChanged,
\* rotaAllocated), for any number of requests, rotas and Shifts.
THEOREM Implements == Spec => InputsSpec
<1>1. Init => Stamping!Init
  BY InitStamped
<1>2. IndInv /\ [Next]_vars => [Stamping!Next]_(Stamping!vars)
  BY StepStamped
<1> QED
  BY <1>1, <1>2, Inductive, PTL DEF Spec, InputsSpec, Stamping!Spec
=============================================================================
