------------------------ MODULE AvailabilityRoundProofs ------------------------
(***************************************************************************)
(* Proofs about AvailabilityRound, for any roster, groups, Shifts, pins    *)
(* and requests.                                                           *)
(***************************************************************************)
EXTENDS AvailabilityRound, WellFoundedInduction, TLAPS

\* Every time on record was handed out.
Clocked ==
    /\ stamp <= clock
    /\ solve.stamp <= clock
    /\ \A t \in Times : response[t].by # None => t <= clock

\* An answer is being written.
Begun(u) == submit[u].at = "begun"

\* Each has a time of its own, later than what its sender saw, and it is neither
\* the stamp of the rota nor the one a solve goes by.
OwnTimes ==
    \A u \in Submits : Begun(u) =>
        /\ submit[u].time \in 1 .. clock
        /\ submit[u].seen < submit[u].time
        /\ submit[u].time # stamp
        /\ submit[u].time # solve.stamp
        /\ \A w \in Submits \ {u} : Begun(w) => submit[w].time # submit[u].time

\* A request that found its link has a volunteer.
Named == \A u \in Submits : submit[u].at # "idle" => submit[u].by \in Volunteers

\* Only an unallocated rota is being discarded.
DiscardsOpen == discarding => rota = "unallocated"

IndInv ==
    /\ TypeOK
    /\ AnswersHaveLinks
    /\ StampTellsAnswers
    /\ Clocked
    /\ OwnTimes
    /\ Named
    /\ DiscardsOpen

-----------------------------------------------------------------------------
(* The newest answer. *)

\* The order of the numbers, as a relation.
Less == {ss \in Nat \X Nat : ss[1] < ss[2]}

LEMMA LessWellFounded == IsWellFoundedOn(Less, Nat)
BY NatLessThanWellFounded DEF OpToRel, Less

\* Some time of a set of times is not before any of them.
LEMMA TimesHaveMax ==
    ASSUME NEW T \in SUBSET Times, T # {}
    PROVE  \E t \in T : \A u \in T : u <= t
<1> DEFINE D == {MaxClock - t : t \in T}
<1>1. D \subseteq Nat /\ D # {}
  <2>1. ASSUME NEW t \in T PROVE MaxClock - t \in Nat
    <3>1. t \in 1 .. MaxClock
      BY DEF Times
    <3> QED
      BY <3>1, BoundsAssumption
  <2>2. \E t \in T : MaxClock - t \in D
    OBVIOUS
  <2> QED
    BY <2>1, <2>2
<1>2. PICK x \in D : \A y \in D : <<y, x>> \notin Less
  <2> HIDE DEF D
  <2> QED
    BY <1>1, LessWellFounded, WFMin
<1>3. PICK t \in T : x = MaxClock - t
  BY <1>2
<1>4. ASSUME NEW u \in T PROVE u <= t
  <2>1. MaxClock - u \in D
    OBVIOUS
  <2>2. <<MaxClock - u, MaxClock - t>> \notin Less
    BY <1>2, <1>3, <2>1
  <2>3. MaxClock - u \in Nat /\ MaxClock - t \in Nat
    BY <1>1
  <2>4. ~ (MaxClock - u < MaxClock - t)
    BY <2>2, <2>3 DEF Less
  <2> QED
    BY <2>4, BoundsAssumption DEF Times
<1> QED
  BY <1>4

\* LatestAt is 0, or the time of an answer of the volunteer up to the bound.
LEMMA LatestAtIs ==
    ASSUME NEW v, NEW bound
    PROVE  \/ LatestAt(v, bound) = 0
           \/ /\ LatestAt(v, bound) \in Times
              /\ response[LatestAt(v, bound)].by = v
              /\ LatestAt(v, bound) <= bound
<1> DEFINE said == {t \in Times : response[t].by = v /\ t <= bound}
<1>1. CASE said = {}
  BY <1>1 DEF LatestAt
<1>2. CASE said # {}
  <2>1. \E t \in said : \A u \in said : u <= t
    BY <1>2, TimesHaveMax
  <2>2. LatestAt(v, bound) \in said
    BY <1>2, <2>1 DEF LatestAt
  <2> QED
    BY <2>2
<1> QED
  BY <1>1, <1>2

\* No answer of the volunteer up to the bound is later.
LEMMA LatestAtBeats ==
    ASSUME NEW v, NEW bound, NEW t \in Times, response[t].by = v, t <= bound
    PROVE  t <= LatestAt(v, bound)
<1> DEFINE said == {x \in Times : response[x].by = v /\ x <= bound}
<1>1. t \in said
  OBVIOUS
<1>2. \E x \in said : \A u \in said : u <= x
  BY <1>1, TimesHaveMax
<1>3. \A u \in said : u <= LatestAt(v, bound)
  BY <1>1, <1>2 DEF LatestAt
<1> QED
  BY <1>1, <1>3

LEMMA LastAtType ==
    ASSUME NEW v
    PROVE  LastAt(v) \in 0 .. MaxClock
BY LatestAtIs, BoundsAssumption DEF LastAt, Times

\* While the answers stay as they are, so does the newest.
LEMMA LastAtStays ==
    ASSUME UNCHANGED response, NEW v
    PROVE  LastAt(v)' = LastAt(v)
BY DEF LastAt, LatestAt

-----------------------------------------------------------------------------
(* The steps. *)

\* A deadlock is broken by rolling back one of those who wait.
LEMMA NextCases ==
    ASSUME Next
    PROVE  \/ \E m \in Mints : StartMint(m) \/ CommitMint(m)
           \/ \E u \in Submits :
                 Resolve(u) \/ BeginAnswer(u) \/ LandAnswer(u) \/ FailAnswer(u)
           \/ PickRota \/ ReadAnswers \/ TimeAllocation \/ CommitAllocation
           \/ \E s \in Shifts : CloseOrReopen(s)
           \/ \E v \in Movers : MoveOnRoster(v)
           \/ LockDiscard \/ CommitDiscard \/ RollBackDiscard
BY DEF Next

Requests ==
    [at : {"idle", "valid", "begun"},
     by : Volunteers \cup {None}, days : SUBSET Shifts,
     seen : 0 .. MaxClock, time : 0 .. MaxClock]

Solves ==
    [at : {"idle", "picked", "solved", "timed", "done"},
     stamp : 0 .. MaxClock, time : 0 .. MaxClock,
     answers : [Volunteers -> 0 .. MaxClock]]

LEMMA IdleSubmitType == IdleSubmit \in Requests
BY BoundsAssumption DEF IdleSubmit, Requests

LEMMA IdleSolveType == IdleSolve \in Solves
BY BoundsAssumption DEF IdleSolve, Solves

\* What an answer being written holds.
LEMMA RequestFields ==
    ASSUME TypeOK, NEW u \in Submits
    PROVE  submit[u] \in Requests
BY DEF TypeOK, Requests

LEMMA SolveFields ==
    ASSUME TypeOK
    PROVE  solve \in Solves
BY DEF TypeOK, Solves

-----------------------------------------------------------------------------
(* Types. *)

\* Types after a request has moved.
LEMMA SubmitSetType ==
    ASSUME TypeOK, NEW u \in Submits, NEW r \in Requests,
           submit' = [submit EXCEPT ![u] = r]
    PROVE  submit' \in [Submits -> Requests]
<1>1. submit \in [Submits -> Requests]
  BY DEF TypeOK, Requests
<1> QED
  BY <1>1

LEMMA SubmitType ==
    ASSUME TypeOK, NEW u \in Submits,
           Resolve(u) \/ BeginAnswer(u) \/ LandAnswer(u) \/ FailAnswer(u)
    PROVE  TypeOK'
<1>0. submit[u] \in Requests
  BY RequestFields
<1>1. CASE Resolve(u)
  <2>1. PICK v \in Volunteers, days \in SUBSET (Shifts \ closed) :
           submit' = [submit EXCEPT ![u] =
                         [IdleSubmit EXCEPT !.at = "valid", !.by = v, !.days = days]]
    BY <1>1 DEF Resolve
  <2>2. [IdleSubmit EXCEPT !.at = "valid", !.by = v, !.days = days] \in Requests
    <3>1. days \in SUBSET Shifts
      OBVIOUS
    <3> QED
      BY <3>1, IdleSubmitType DEF Requests
  <2>3. submit' \in [Submits -> Requests]
    BY <2>1, <2>2, SubmitSetType
  <2> QED
    BY <1>1, <2>3 DEF Resolve, TypeOK, Requests, db
<1>2. CASE BeginAnswer(u)
  <2>1. clock + 1 \in 0 .. MaxClock
    BY <1>2, BoundsAssumption DEF BeginAnswer, TypeOK
  <2>2. LastAt(submit[u].by) \in 0 .. MaxClock
    BY LastAtType
  <2>3. [submit[u] EXCEPT !.at = "begun", !.time = clock + 1,
                          !.seen = LastAt(submit[u].by)] \in Requests
    BY <1>0, <2>1, <2>2 DEF Requests
  <2>4. submit' = [submit EXCEPT ![u] =
           [submit[u] EXCEPT !.at = "begun", !.time = clock + 1,
                             !.seen = LastAt(submit[u].by)]]
    BY <1>2 DEF BeginAnswer, TypeOK
  <2>5. submit' \in [Submits -> Requests]
    BY <2>3, <2>4, SubmitSetType
  <2> QED
    BY <1>2, <2>1, <2>5 DEF BeginAnswer, TypeOK, Requests, db
<1>3. CASE LandAnswer(u)
  <2>1. submit' \in [Submits -> Requests]
    BY <1>3, IdleSubmitType, SubmitSetType DEF LandAnswer
  <2>2. StampAfter(u) \in 0 .. MaxClock
    BY <1>0 DEF StampAfter, TypeOK, Requests
  <2>3. [by |-> submit[u].by, days |-> submit[u].days]
           \in [by : Volunteers \cup {None}, days : SUBSET Shifts]
    BY <1>0 DEF Requests
  <2>4. response' \in [Times -> [by : Volunteers \cup {None}, days : SUBSET Shifts]]
    BY <1>3, <2>3 DEF LandAnswer, TypeOK
  <2> QED
    BY <1>3, <2>1, <2>2, <2>4 DEF LandAnswer, TypeOK, Requests
<1>4. CASE FailAnswer(u)
  <2>1. submit' \in [Submits -> Requests]
    BY <1>4, IdleSubmitType, SubmitSetType DEF FailAnswer
  <2> QED
    BY <1>4, <2>1 DEF FailAnswer, TypeOK, Requests, db
<1> QED
  BY <1>1, <1>2, <1>3, <1>4

LEMMA SolveType ==
    ASSUME TypeOK,
           PickRota \/ ReadAnswers \/ TimeAllocation \/ CommitAllocation
    PROVE  TypeOK'
<1>0. solve \in Solves /\ IdleSolve \in Solves
  BY SolveFields, IdleSolveType
<1>1. CASE PickRota
  <2>1. solve' \in Solves
    BY <1>0, <1>1 DEF PickRota, TypeOK, Solves
  <2> QED
    BY <1>1, <2>1 DEF PickRota, TypeOK, Solves, db
<1>2. CASE ReadAnswers
  <2>1. Answers \in [Volunteers -> 0 .. MaxClock]
    BY LastAtType DEF Answers
  <2>2. solve' \in Solves
    BY <1>0, <1>2, <2>1 DEF ReadAnswers, Solves
  <2> QED
    BY <1>2, <2>2 DEF ReadAnswers, TypeOK, Solves, db
<1>3. CASE TimeAllocation
  <2>1. clock + 1 \in 0 .. MaxClock
    BY <1>3, BoundsAssumption DEF TimeAllocation, TypeOK
  <2>2. solve' \in Solves
    BY <1>0, <1>3, <2>1 DEF TimeAllocation, Solves
  <2> QED
    BY <1>3, <2>1, <2>2 DEF TimeAllocation, TypeOK, Solves, db
<1>4. CASE CommitAllocation
  <2>1. solve' \in Solves
    BY <1>0, <1>4 DEF CommitAllocation, Solves
  <2>2. allocated' \in 0 .. MaxClock
    BY <1>0, <1>4 DEF CommitAllocation, Solves
  <2> QED
    BY <1>4, <2>1, <2>2 DEF CommitAllocation, TypeOK, Solves
<1> QED
  BY <1>1, <1>2, <1>3, <1>4

LEMMA TypeStep ==
    ASSUME TypeOK, [Next]_vars
    PROVE  TypeOK'
<1>1. ASSUME NEW m \in Mints, StartMint(m) PROVE TypeOK'
  BY <1>1 DEF StartMint, TypeOK, db
<1>2. ASSUME NEW m \in Mints, CommitMint(m) PROVE TypeOK'
  <2>1. request' \in [Volunteers -> Mints \cup {None}]
    BY <1>2 DEF CommitMint, TokenOf, TypeOK
  <2> QED
    BY <1>2, <2>1 DEF CommitMint, TypeOK
<1>3. ASSUME NEW s \in Shifts, CloseOrReopen(s) PROVE TypeOK'
  <2>1. clock + 1 \in 0 .. MaxClock
    BY <1>3, BoundsAssumption DEF CloseOrReopen, TypeOK
  <2> QED
    BY <1>3, <2>1 DEF CloseOrReopen, TypeOK
<1>4. ASSUME NEW v \in Movers, MoveOnRoster(v) PROVE TypeOK'
  BY <1>4, PeopleAssumption DEF MoveOnRoster, TypeOK, db
<1>5. CASE LockDiscard
  BY <1>5 DEF LockDiscard, TypeOK, db
<1>6. CASE CommitDiscard
  <2>1. request' \in [Volunteers -> Mints \cup {None}]
    BY <1>6 DEF CommitDiscard
  <2>2. response' \in [Times -> [by : Volunteers \cup {None}, days : SUBSET Shifts]]
    BY <1>6 DEF CommitDiscard, NoResponse
  <2> QED
    BY <1>6, <2>1, <2>2 DEF CommitDiscard, TypeOK
<1>7. CASE RollBackDiscard
  BY <1>7 DEF RollBackDiscard, TypeOK, db
<1>8. CASE UNCHANGED vars
  BY <1>8 DEF TypeOK, vars, db
<1> QED
  BY <1>1, <1>2, <1>3, <1>4, <1>5, <1>6, <1>7, <1>8, SubmitType, SolveType, NextCases

-----------------------------------------------------------------------------
(* Links and answers. *)

\* The steps that move a link, an answer, a request answering or the life of the
\* rota.
LEMMA OthersKeepLinks ==
    ASSUME Next
    PROVE  \/ \E m \in Mints : CommitMint(m)
           \/ \E u \in Submits :
                 Resolve(u) \/ BeginAnswer(u) \/ LandAnswer(u) \/ FailAnswer(u)
           \/ CommitAllocation \/ LockDiscard \/ CommitDiscard
           \/ /\ UNCHANGED <<rota, request, response, submit>>
              /\ discarding' => discarding
<1>1. ASSUME NEW m \in Mints, StartMint(m)
      PROVE  UNCHANGED <<rota, request, response, submit, discarding>>
  BY <1>1 DEF StartMint, db
<1>2. CASE PickRota \/ ReadAnswers \/ TimeAllocation
  BY <1>2 DEF PickRota, ReadAnswers, TimeAllocation, db
<1>3. ASSUME NEW s \in Shifts, CloseOrReopen(s)
      PROVE  UNCHANGED <<rota, request, response, submit, discarding>>
  BY <1>3 DEF CloseOrReopen
<1>4. ASSUME NEW v \in Movers, MoveOnRoster(v)
      PROVE  UNCHANGED <<rota, request, response, submit, discarding>>
  BY <1>4 DEF MoveOnRoster, db
<1>5. CASE RollBackDiscard
  BY <1>5 DEF RollBackDiscard, db
<1> QED
  BY <1>1, <1>2, <1>3, <1>4, <1>5, NextCases

\* A request that found its link keeps its volunteer until it ends.
LEMMA NamedStep ==
    ASSUME TypeOK, Named, [Next]_vars
    PROVE  Named'
<1>1. ASSUME NEW u \in Submits,
             Resolve(u) \/ BeginAnswer(u) \/ LandAnswer(u) \/ FailAnswer(u)
      PROVE  Named'
  <2>1. CASE Resolve(u)
    BY <2>1 DEF Resolve, Named, TypeOK, IdleSubmit
  <2>2. CASE BeginAnswer(u)
    BY <2>2 DEF BeginAnswer, Named, TypeOK
  <2>3. CASE LandAnswer(u)
    BY <2>3 DEF LandAnswer, Named, TypeOK, IdleSubmit
  <2>4. CASE FailAnswer(u)
    BY <2>4 DEF FailAnswer, Named, TypeOK, IdleSubmit
  <2> QED
    BY <1>1, <2>1, <2>2, <2>3, <2>4
<1>2. CASE UNCHANGED submit
  BY <1>2 DEF Named
<1> QED
  BY <1>1, <1>2, OthersKeepLinks
     DEF CommitMint, CommitAllocation, LockDiscard, CommitDiscard, vars

LEMMA DiscardsStep ==
    ASSUME DiscardsOpen, [Next]_vars
    PROVE  DiscardsOpen'
<1>1. ASSUME NEW u \in Submits,
             Resolve(u) \/ BeginAnswer(u) \/ LandAnswer(u) \/ FailAnswer(u)
      PROVE  UNCHANGED <<rota, discarding>>
  BY <1>1 DEF Resolve, BeginAnswer, LandAnswer, FailAnswer, db
<1> QED
  BY <1>1, OthersKeepLinks
     DEF DiscardsOpen, CommitMint, CommitAllocation, LockDiscard, CommitDiscard,
         db, vars

\* Minting leaves everybody who had a link with the one they had.
LEMMA MintKeepsLinks ==
    ASSUME TypeOK, NEW m \in Mints, CommitMint(m), NEW v \in Volunteers, Asked(v)
    PROVE  request'[v] = request[v]
BY DEF CommitMint, TokenOf

LEMMA LinksStep ==
    ASSUME TypeOK, AnswersHaveLinks, Named, [Next]_vars
    PROVE  AnswersHaveLinks'
<1>0. /\ \A t \in Times : response[t].by \in Volunteers \cup {None}
      /\ \A u \in Submits : submit[u].by \in Volunteers \cup {None}
  BY DEF TypeOK
<1>1. ASSUME NEW m \in Mints, CommitMint(m) PROVE AnswersHaveLinks'
  <2>1. \A v \in Volunteers : Asked(v) => Asked(v)'
    BY <1>1, MintKeepsLinks DEF Asked
  <2>2. rota' # "discarded" /\ UNCHANGED <<response, submit>>
    BY <1>1 DEF CommitMint
  <2>3. \A u \in Submits : submit[u].at = "begun" => submit[u].by \in Volunteers
    BY DEF Named
  <2> QED
    BY <1>0, <2>1, <2>2, <2>3 DEF AnswersHaveLinks
<1>2. ASSUME NEW u \in Submits, Resolve(u) PROVE AnswersHaveLinks'
  <2>1. \A w \in Submits : submit'[w].at = "begun" =>
            submit[w].at = "begun" /\ submit'[w] = submit[w]
    BY <1>2 DEF Resolve, TypeOK, IdleSubmit
  <2> QED
    BY <1>2, <2>1 DEF Resolve, AnswersHaveLinks, Asked, db
<1>3. ASSUME NEW u \in Submits, BeginAnswer(u) PROVE AnswersHaveLinks'
  <2>1. \A w \in Submits : submit'[w].by = submit[w].by
    BY <1>3 DEF BeginAnswer, TypeOK
  <2>2. \A w \in Submits \ {u} : submit'[w] = submit[w]
    BY <1>3 DEF BeginAnswer, TypeOK
  <2> QED
    BY <1>3, <2>1, <2>2 DEF BeginAnswer, HasRequest, AnswersHaveLinks, Asked, db
<1>4. ASSUME NEW u \in Submits, LandAnswer(u) PROVE AnswersHaveLinks'
  <2>1. \A t \in Times : response'[t].by = response[t].by \/ response'[t].by = submit[u].by
    BY <1>4 DEF LandAnswer, TypeOK
  <2>2. Asked(submit[u].by)
    BY <1>4 DEF LandAnswer, AnswersHaveLinks
  <2>3. \A w \in Submits : submit'[w].at = "begun" => submit'[w] = submit[w]
    BY <1>4 DEF LandAnswer, TypeOK, IdleSubmit
  <2>4. UNCHANGED <<rota, request>>
    BY <1>4 DEF LandAnswer
  <2> QED
    BY <2>1, <2>2, <2>3, <2>4 DEF AnswersHaveLinks, Asked
<1>5. ASSUME NEW u \in Submits, FailAnswer(u) PROVE AnswersHaveLinks'
  <2>1. \A w \in Submits : submit'[w].at = "begun" => submit'[w] = submit[w]
    BY <1>5 DEF FailAnswer, TypeOK, IdleSubmit
  <2> QED
    BY <1>5, <2>1 DEF FailAnswer, AnswersHaveLinks, Asked, db
<1>6. CASE CommitDiscard
  <2>1. \A t \in Times : response'[t].by = None
    BY <1>6 DEF CommitDiscard, NoResponse
  <2>2. \A u \in Submits : submit'[u].at # "begun"
    BY <1>6 DEF CommitDiscard, LinksFree
  <2>3. \A v \in Volunteers : ~ Asked(v)'
    BY <1>6 DEF CommitDiscard, Asked
  <2> QED
    BY <2>1, <2>2, <2>3 DEF AnswersHaveLinks
<1>7. CASE CommitAllocation \/ LockDiscard
  BY <1>7 DEF CommitAllocation, LockDiscard, AnswersHaveLinks, Asked, db
<1>8. CASE UNCHANGED <<rota, request, response, submit>>
  BY <1>8 DEF AnswersHaveLinks, Asked
<1> QED
  BY <1>1, <1>2, <1>3, <1>4, <1>5, <1>6, <1>7, <1>8, OthersKeepLinks DEF vars, db

-----------------------------------------------------------------------------
(* Times and stamps. *)

\* The steps that move the clock, a stamp, an answer or a request being written.
LEMMA OthersKeepTimes ==
    ASSUME Next
    PROVE  \/ \E u \in Submits :
                 Resolve(u) \/ BeginAnswer(u) \/ LandAnswer(u) \/ FailAnswer(u)
           \/ PickRota \/ ReadAnswers \/ TimeAllocation \/ CommitAllocation
           \/ \E s \in Shifts : CloseOrReopen(s)
           \/ CommitDiscard
           \/ UNCHANGED <<rota, stamp, response, clock, submit, solve>>
BY NextCases DEF StartMint, CommitMint, MoveOnRoster, LockDiscard, RollBackDiscard, db

LEMMA ClockedStep ==
    ASSUME TypeOK, Clocked, OwnTimes, [Next]_vars
    PROVE  Clocked'
<1>0. /\ clock \in Nat /\ stamp \in Nat /\ solve.stamp \in Nat
      /\ \A t \in Times : t \in Nat
  BY BoundsAssumption DEF TypeOK, Times
<1>1. ASSUME NEW u \in Submits,
             Resolve(u) \/ BeginAnswer(u) \/ LandAnswer(u) \/ FailAnswer(u)
      PROVE  Clocked'
  <2>1. CASE Resolve(u) \/ FailAnswer(u)
    BY <2>1 DEF Resolve, FailAnswer, Clocked, db
  <2>2. CASE BeginAnswer(u)
    BY <1>0, <2>2 DEF BeginAnswer, Clocked, db
  <2>3. CASE LandAnswer(u)
    <3>1. submit[u].time \in Nat /\ submit[u].time <= clock
      BY <1>0, <2>3 DEF LandAnswer, OwnTimes, Begun
    <3>2. stamp' <= clock
      BY <2>3, <3>1 DEF LandAnswer, StampAfter, Clocked
    <3>3. \A t \in Times : t # submit[u].time => response'[t] = response[t]
      BY <2>3 DEF LandAnswer, TypeOK
    <3>4. UNCHANGED <<clock, solve>>
      BY <2>3 DEF LandAnswer
    <3> QED
      BY <3>1, <3>2, <3>3, <3>4 DEF Clocked
  <2> QED
    BY <1>1, <2>1, <2>2, <2>3
<1>2. CASE PickRota
  BY <1>0, <1>2 DEF PickRota, IdleSolve, Clocked, db
<1>3. CASE ReadAnswers
  BY <1>3 DEF ReadAnswers, Clocked, TypeOK, db
<1>4. CASE TimeAllocation
  <2>1. solve'.stamp = solve.stamp /\ clock' = clock + 1 /\ UNCHANGED <<stamp, response>>
    BY <1>4 DEF TimeAllocation, TypeOK, db
  <2> QED
    BY <1>0, <2>1 DEF Clocked
<1>5. CASE CommitAllocation
  BY <1>0, <1>5 DEF CommitAllocation, IdleSolve, Clocked
<1>6. ASSUME NEW s \in Shifts, CloseOrReopen(s) PROVE Clocked'
  BY <1>0, <1>6 DEF CloseOrReopen, Clocked
<1>7. CASE CommitDiscard
  BY <1>7 DEF CommitDiscard, NoResponse, Clocked
<1>8. CASE UNCHANGED <<stamp, response, clock, solve>>
  BY <1>8 DEF Clocked
<1> QED
  BY <1>1, <1>2, <1>3, <1>4, <1>5, <1>6, <1>7, <1>8, OthersKeepTimes DEF vars, db

\* What a volunteer is known to have said was said by now.
LEMMA LastAtPast ==
    ASSUME TypeOK, Clocked, NEW v \in Volunteers
    PROVE  LastAt(v) <= clock
<1>1. CASE LastAt(v) = 0
  BY <1>1 DEF TypeOK
<1>2. CASE LastAt(v) # 0
  <2>1. LastAt(v) \in Times /\ response[LastAt(v)].by = v
    BY <1>2, LatestAtIs DEF LastAt
  <2> QED
    BY <2>1, PeopleAssumption DEF Clocked
<1> QED
  BY <1>1, <1>2

\* When some requests being written end and no time moves, the others keep theirs.
LEMMA EndedKeepTimes ==
    ASSUME OwnTimes, UNCHANGED <<stamp, clock>>,
           solve'.stamp = solve.stamp \/ solve'.stamp = 0 \/ solve'.stamp = stamp,
           clock \in Nat,
           \A w \in Submits : Begun(w)' => Begun(w) /\ submit'[w] = submit[w]
    PROVE  OwnTimes'
BY DEF OwnTimes, Begun

LEMMA OwnTimesStep ==
    ASSUME TypeOK, Named, Clocked, OwnTimes, [Next]_vars
    PROVE  OwnTimes'
<1>0. /\ clock \in Nat /\ stamp \in Nat /\ solve.stamp \in Nat
      /\ stamp <= clock /\ solve.stamp <= clock
  BY BoundsAssumption DEF TypeOK, Clocked
<1>1. ASSUME NEW u \in Submits, Resolve(u) \/ FailAnswer(u) PROVE OwnTimes'
  <2>1. \A w \in Submits : Begun(w)' => Begun(w) /\ submit'[w] = submit[w]
    <3>1. \A w \in Submits \ {u} : submit'[w] = submit[w]
      BY <1>1 DEF Resolve, FailAnswer, TypeOK
    <3>2. submit'[u].at # "begun"
      <4>1. CASE Resolve(u)
        BY <4>1 DEF Resolve, TypeOK, IdleSubmit
      <4>2. CASE FailAnswer(u)
        BY <4>2 DEF FailAnswer, TypeOK, IdleSubmit
      <4> QED
        BY <1>1, <4>1, <4>2
    <3> QED
      BY <3>1, <3>2 DEF Begun
  <2>2. UNCHANGED <<stamp, clock, solve>>
    BY <1>1 DEF Resolve, FailAnswer, db
  <2> QED
    BY <1>0, <2>1, <2>2, EndedKeepTimes
<1>2. ASSUME NEW u \in Submits, BeginAnswer(u) PROVE OwnTimes'
  <2>1. /\ clock' = clock + 1 /\ UNCHANGED <<stamp, solve>>
        /\ submit'[u].time = clock + 1
        /\ submit'[u].seen = LastAt(submit[u].by)
    BY <1>2 DEF BeginAnswer, TypeOK, db
  <2>2. \A w \in Submits \ {u} : submit'[w] = submit[w]
    BY <1>2 DEF BeginAnswer, TypeOK
  <2>3. submit[u].by \in Volunteers
    BY <1>2 DEF BeginAnswer, Named
  <2>4. LastAt(submit[u].by) \in Nat /\ LastAt(submit[u].by) < clock + 1
    BY <1>0, <2>3, LastAtPast, LastAtType, BoundsAssumption
  <2>5. \A w \in Submits \ {u} : Begun(w)' =>
           /\ submit[w].time \in 1 .. clock
           /\ submit'[w].seen < submit'[w].time
           /\ submit'[w].time # stamp /\ submit'[w].time # solve.stamp
           /\ \A x \in Submits \ {u} :
                 x # w /\ Begun(x)' => submit'[x].time # submit'[w].time
    BY <2>2 DEF OwnTimes, Begun
  <2>6. \A w \in Submits \ {u} : Begun(w)' =>
           submit'[w].time \in 1 .. clock' /\ submit'[w].time # submit'[u].time
    BY <1>0, <2>1, <2>2, <2>5
  <2>7. /\ submit'[u].time \in 1 .. clock'
        /\ submit'[u].seen < submit'[u].time
        /\ submit'[u].time # stamp /\ submit'[u].time # solve.stamp
    BY <1>0, <2>1, <2>4
  <2> QED
    BY <2>1, <2>5, <2>6, <2>7 DEF OwnTimes
<1>3. ASSUME NEW u \in Submits, LandAnswer(u) PROVE OwnTimes'
  <2>1. Begun(u) /\ ~ Begun(u)'
    BY <1>3 DEF LandAnswer, Begun, TypeOK, IdleSubmit
  <2>2. \A w \in Submits \ {u} : submit'[w] = submit[w]
    BY <1>3 DEF LandAnswer, TypeOK
  <2>3. stamp' = stamp \/ stamp' = submit[u].time
    BY <1>3 DEF LandAnswer, StampAfter
  <2>4. UNCHANGED <<clock, solve>>
    BY <1>3 DEF LandAnswer
  <2> QED
    BY <2>1, <2>2, <2>3, <2>4 DEF OwnTimes, Begun
<1>4. CASE PickRota
  BY <1>0, <1>4, EndedKeepTimes DEF PickRota, IdleSolve, Begun, db
<1>5. CASE ReadAnswers
  BY <1>0, <1>5, EndedKeepTimes DEF ReadAnswers, TypeOK, Begun, db
<1>6. CASE TimeAllocation
  <2>1. /\ solve'.stamp = solve.stamp /\ clock' = clock + 1
        /\ UNCHANGED <<stamp, submit>>
    BY <1>6 DEF TimeAllocation, TypeOK, db
  <2>2. \A u \in Submits : Begun(u) => submit[u].time \in 1 .. clock'
    BY <1>0, <2>1 DEF OwnTimes
  <2> QED
    BY <2>1, <2>2 DEF OwnTimes, Begun
<1>7. CASE CommitAllocation
  BY <1>0, <1>7, EndedKeepTimes DEF CommitAllocation, IdleSolve, Begun
<1>8. ASSUME NEW s \in Shifts, CloseOrReopen(s) PROVE OwnTimes'
  <2>1. /\ stamp' = clock + 1 /\ clock' = clock + 1
        /\ UNCHANGED <<submit, solve>>
    BY <1>8 DEF CloseOrReopen
  <2>2. \A u \in Submits : Begun(u) =>
           submit[u].time \in 1 .. clock' /\ submit[u].time # stamp'
    BY <1>0, <2>1 DEF OwnTimes
  <2> QED
    BY <2>1, <2>2 DEF OwnTimes, Begun
<1>9. CASE CommitDiscard
  BY <1>0, <1>9, EndedKeepTimes DEF CommitDiscard, Begun
<1>10. CASE UNCHANGED <<stamp, clock, submit, solve>>
  BY <1>0, <1>10, EndedKeepTimes DEF Begun
<1> QED
  BY <1>1, <1>2, <1>3, <1>4, <1>5, <1>6, <1>7, <1>8, <1>9, <1>10, OthersKeepTimes
     DEF vars, db

\* While answers, solve and stamp stay, the stamp says of the answers what it said.
LEMMA StampStays ==
    ASSUME StampTellsAnswers, UNCHANGED <<rota, stamp, response, solve>>
    PROVE  StampTellsAnswers'
<1>1. Answers' = Answers
  BY LastAtStays DEF Answers
<1> QED
  BY <1>1 DEF StampTellsAnswers

LEMMA StampStep ==
    ASSUME TypeOK, Clocked, OwnTimes, StampTellsAnswers, [Next]_vars
    PROVE  StampTellsAnswers'
<1>1. ASSUME NEW u \in Submits,
             Resolve(u) \/ BeginAnswer(u) \/ LandAnswer(u) \/ FailAnswer(u)
      PROVE  StampTellsAnswers'
  <2>1. CASE Resolve(u) \/ BeginAnswer(u) \/ FailAnswer(u)
    BY <2>1, StampStays DEF Resolve, BeginAnswer, FailAnswer, db
  <2>2. CASE LandAnswer(u)
    <3>1. submit[u].time # solve.stamp
      BY <2>2 DEF LandAnswer, OwnTimes, Begun
    <3>2. rota = "unallocated" => stamp' # solve'.stamp
      BY <2>2, <3>1 DEF LandAnswer, StampAfter
    <3> QED
      BY <2>2, <3>2 DEF LandAnswer, StampTellsAnswers
  <2> QED
    BY <1>1, <2>1, <2>2
<1>2. CASE PickRota
  BY <1>2 DEF PickRota, IdleSolve, StampTellsAnswers
<1>3. CASE ReadAnswers
  <2>1. solve'.answers = Answers
    BY <1>3 DEF ReadAnswers, TypeOK
  <2>2. Answers' = Answers
    BY <1>3, LastAtStays DEF Answers, ReadAnswers, db
  <2> QED
    BY <2>1, <2>2 DEF StampTellsAnswers
<1>4. CASE TimeAllocation
  <2>1. /\ solve.at = "solved"
        /\ solve'.stamp = solve.stamp /\ solve'.answers = solve.answers
        /\ UNCHANGED <<rota, stamp, response>>
    BY <1>4 DEF TimeAllocation, TypeOK, db
  <2>2. Answers' = Answers
    BY <2>1, LastAtStays DEF Answers
  <2> QED
    BY <2>1, <2>2 DEF StampTellsAnswers
<1>5. CASE CommitAllocation \/ CommitDiscard
  BY <1>5 DEF CommitAllocation, CommitDiscard, StampTellsAnswers
<1>6. ASSUME NEW s \in Shifts, CloseOrReopen(s) PROVE StampTellsAnswers'
  <2>1. stamp' = clock + 1 /\ solve' = solve
    BY <1>6 DEF CloseOrReopen
  <2>2. stamp' # solve'.stamp
    BY <2>1, BoundsAssumption DEF Clocked, TypeOK
  <2> QED
    BY <2>2 DEF StampTellsAnswers
<1>7. CASE UNCHANGED <<rota, stamp, response, solve>>
  BY <1>7, StampStays
<1> QED
  BY <1>1, <1>2, <1>3, <1>4, <1>5, <1>6, <1>7, OthersKeepTimes DEF vars, db

-----------------------------------------------------------------------------
(* The invariants. *)

LEMMA InitInv ==
    ASSUME Init
    PROVE  IndInv
<1>1. TypeOK
  <2>1. submit \in [Submits -> Requests]
    BY IdleSubmitType DEF Init
  <2>2. solve \in Solves
    BY IdleSolveType DEF Init
  <2>3. response \in [Times -> [by : Volunteers \cup {None}, days : SUBSET Shifts]]
    BY DEF Init, NoResponse
  <2>4. active \subseteq Volunteers
    BY DEF Init
  <2>5. /\ stamp \in 0 .. MaxClock /\ allocated \in 0 .. MaxClock
        /\ clock \in 0 .. MaxClock
    BY BoundsAssumption DEF Init
  <2> QED
    BY <2>1, <2>2, <2>3, <2>4, <2>5 DEF Init, TypeOK, Requests, Solves
<1>2. \A u \in Submits : submit[u].at = "idle"
  BY DEF Init, IdleSubmit
<1>3. \A t \in Times : response[t].by = None
  BY DEF Init, NoResponse
<1>4. AnswersHaveLinks
  BY <1>2, <1>3 DEF AnswersHaveLinks, Init
<1>5. solve.at = "idle" /\ solve.stamp = 0
  BY DEF Init, IdleSolve
<1>6. StampTellsAnswers /\ Clocked
  BY <1>3, <1>5 DEF StampTellsAnswers, Clocked, Init
<1>7. OwnTimes /\ Named /\ DiscardsOpen
  BY <1>2 DEF OwnTimes, Begun, Named, DiscardsOpen, Init
<1> QED
  BY <1>1, <1>4, <1>6, <1>7 DEF IndInv

LEMMA StepInv ==
    ASSUME IndInv, [Next]_vars
    PROVE  IndInv'
BY TypeStep, LinksStep, StampStep, ClockedStep, OwnTimesStep, NamedStep, DiscardsStep
   DEF IndInv

\* The invariant the others follow from.
THEOREM Inductive == Spec => []IndInv
<1>1. Init => IndInv
  BY InitInv
<1>2. IndInv /\ [Next]_vars => IndInv'
  BY StepInv
<1> QED
  BY <1>1, <1>2, PTL DEF Spec

\* Every variable has its type.
THEOREM TypeCorrect == Spec => []TypeOK
<1>1. IndInv => TypeOK
  BY DEF IndInv
<1> QED
  BY <1>1, Inductive, PTL

\* A discard leaves no answer behind and no link, and no answer is on record or
\* being written without the link it came through (DiscardRota,
\* InsertAvailabilityResponse).
THEOREM LinksOfAnswers == Spec => []AnswersHaveLinks
<1>1. IndInv => AnswersHaveLinks
  BY DEF IndInv
<1> QED
  BY <1>1, Inductive, PTL

\* A solve that missed an answer finds another stamp than the one it picked the
\* rota with (InsertAvailabilityResponse stamps with its own now()).
THEOREM MissedAnswersShow == Spec => []StampTellsAnswers
<1>1. IndInv => StampTellsAnswers
  BY DEF IndInv
<1> QED
  BY <1>1, Inductive, PTL

-----------------------------------------------------------------------------
(* What no step may do. *)

\* However often and concurrently a round is minted, nobody's link moves
\* (MintAvailabilityRequests, ON CONFLICT DO NOTHING).
THEOREM LinksStay == Spec => LinksKeepWorking
<1>1. ASSUME TypeOK, [Next]_vars, rota' # "discarded",
             NEW v \in Volunteers, Asked(v)
      PROVE  request'[v] = request[v]
  <2>1. ASSUME NEW m \in Mints, CommitMint(m) PROVE request'[v] = request[v]
    BY <1>1, <2>1, MintKeepsLinks
  <2>2. ASSUME NEW u \in Submits,
               Resolve(u) \/ BeginAnswer(u) \/ LandAnswer(u) \/ FailAnswer(u)
        PROVE  UNCHANGED request
    BY <2>2 DEF Resolve, BeginAnswer, LandAnswer, FailAnswer, db
  <2>3. CASE CommitDiscard
    BY <1>1, <2>3 DEF CommitDiscard
  <2>4. CASE CommitAllocation \/ LockDiscard
    BY <2>4 DEF CommitAllocation, LockDiscard, db
  <2> QED
    BY <1>1, <2>1, <2>2, <2>3, <2>4, OthersKeepLinks DEF vars, db
<1>2. TypeOK /\ [Next]_vars =>
        [rota' # "discarded" =>
            \A v \in Volunteers : Asked(v) => request'[v] = request[v]]_vars
  BY <1>1
<1> QED
  BY <1>2, TypeCorrect, PTL DEF Spec, LinksKeepWorking

\* The steps after which other answers are on record.
LEMMA AnswersMove ==
    ASSUME [Next]_vars, response' # response
    PROVE  CommitDiscard \/ \E u \in Submits : LandAnswer(u)
BY OthersKeepTimes
   DEF Resolve, BeginAnswer, FailAnswer, PickRota, ReadAnswers, TimeAllocation,
       CommitAllocation, CloseOrReopen, vars, db

\* An answer that lands is newer than all its sender saw (SubmitAvailability,
\* GetLatestAvailability).
THEOREM NewAnswerWins == Spec => NewAnswerSupersedes
<1>1. ASSUME IndInv, [Next]_vars, NEW u \in Submits, NEW v \in Volunteers,
             submit[u].by = v, response' # response, submit'[u] # submit[u],
             rota' # "discarded"
      PROVE  LastAt(v)' > submit[u].seen
  <2>1. PICK w \in Submits : LandAnswer(w)
    BY <1>1, AnswersMove DEF CommitDiscard
  <2>2. w = u
    BY <1>1, <2>1 DEF LandAnswer, IndInv, TypeOK
  <2>3. Begun(u)
    BY <2>1, <2>2 DEF LandAnswer, Begun
  <2>4. /\ submit[u].time \in 1 .. clock /\ clock \in 0 .. MaxClock
        /\ submit[u].seen < submit[u].time
        /\ submit[u].seen \in 0 .. MaxClock
    BY <1>1, <2>3 DEF IndInv, OwnTimes, TypeOK
  <2>5. submit[u].time \in Times
    BY <2>4, BoundsAssumption DEF Times
  <2>6. response'[submit[u].time].by = v
    BY <1>1, <2>1, <2>2, <2>5 DEF LandAnswer, IndInv, TypeOK
  <2>7. submit[u].time <= MaxClock
    BY <2>5, BoundsAssumption DEF Times
  <2>8. submit[u].time <= LastAt(v)'
    <3> DEFINE said == {x \in Times : response'[x].by = v /\ x <= MaxClock}
    <3>1. submit[u].time \in said
      BY <2>5, <2>6, <2>7
    <3>2. \E x \in said : \A y \in said : y <= x
      BY <3>1, TimesHaveMax
    <3>3. LastAt(v)' = CHOOSE x \in said : \A y \in said : y <= x
      BY <3>1 DEF LastAt, LatestAt
    <3> QED
      BY <3>1, <3>2, <3>3
  <2>9. LastAt(v)' \in 0 .. MaxClock
    <3> DEFINE said == {x \in Times : response'[x].by = v /\ x <= MaxClock}
    <3>1. submit[u].time \in said
      BY <2>5, <2>6, <2>7
    <3>2. \E x \in said : \A y \in said : y <= x
      BY <3>1, TimesHaveMax
    <3>3. LastAt(v)' \in said
      BY <3>1, <3>2 DEF LastAt, LatestAt
    <3> QED
      BY <3>3, BoundsAssumption DEF Times
  <2> QED
    BY <2>4, <2>8, <2>9, BoundsAssumption
<1>2. IndInv /\ [Next]_vars =>
        [\A u \in Submits, v \in Volunteers :
            submit[u].by = v /\ response' # response /\ submit'[u] # submit[u]
            /\ rota' # "discarded" => LastAt(v)' > submit[u].seen]_vars
  BY <1>1
<1> QED
  BY <1>2, Inductive, PTL DEF Spec, NewAnswerSupersedes

\* The cutoff of an allocated rota is not after its allocation.
LEMMA CutoffAt ==
    ASSUME TypeOK, rota = "allocated"
    PROVE  Cutoff \in Nat /\ Cutoff <= allocated
<1>1. allocated \in Nat /\ Second \in Nat \ {0}
  BY BoundsAssumption DEF TypeOK
<1>2. allocated % Second \in 0 .. allocated
  BY <1>1, SMTT(30)
<1> QED
  BY <1>1, <1>2 DEF Cutoff

\* Once nobody who began before the allocation is left, what is read back of the
\* round stays (rotaCutoff, GetLatestAvailability).
THEOREM RoundSettles == Spec => AllocatedRoundSettles
<1>1. ASSUME IndInv, [Next]_vars, rota = "allocated",
             \A u \in Submits :
                submit[u].at = "begun" => submit[u].time > allocated,
             NEW v \in Volunteers
      PROVE  ReadBackAt(v)' = ReadBackAt(v)
  <2>0. TypeOK /\ ~ discarding
    BY <1>1 DEF IndInv, DiscardsOpen
  <2>1. Cutoff \in Nat /\ Cutoff <= allocated
    BY <1>1, <2>0, CutoffAt
  <2>2. UNCHANGED <<rota, allocated>>
    <3>1. ASSUME NEW m \in Mints, StartMint(m) \/ CommitMint(m)
          PROVE  UNCHANGED <<rota, allocated>>
      BY <3>1 DEF StartMint, CommitMint, db
    <3>2. ASSUME NEW u \in Submits,
                 Resolve(u) \/ BeginAnswer(u) \/ LandAnswer(u) \/ FailAnswer(u)
          PROVE  UNCHANGED <<rota, allocated>>
      BY <3>2 DEF Resolve, BeginAnswer, LandAnswer, FailAnswer, db
    <3>3. CASE PickRota \/ ReadAnswers \/ TimeAllocation \/ CommitAllocation
      BY <1>1, <3>3 DEF PickRota, ReadAnswers, TimeAllocation, CommitAllocation, db
    <3>4. ASSUME NEW s \in Shifts, CloseOrReopen(s)
          PROVE  UNCHANGED <<rota, allocated>>
      BY <3>4 DEF CloseOrReopen
    <3>5. ASSUME NEW w \in Movers, MoveOnRoster(w)
          PROVE  UNCHANGED <<rota, allocated>>
      BY <3>5 DEF MoveOnRoster, db
    <3>6. CASE LockDiscard \/ CommitDiscard \/ RollBackDiscard
      BY <1>1, <2>0, <3>6 DEF LockDiscard, CommitDiscard, RollBackDiscard
    <3> QED
      BY <1>1, <3>1, <3>2, <3>3, <3>4, <3>5, <3>6, NextCases DEF vars, db
  <2>3. Cutoff' = Cutoff
    BY <2>2 DEF Cutoff
  <2>4. \A t \in Times : t <= Cutoff => response'[t] = response[t]
    <3>1. CASE response' = response
      BY <3>1
    <3>2. CASE response' # response
      <4>1. PICK w \in Submits : LandAnswer(w)
        BY <1>1, <2>0, <3>2, AnswersMove DEF CommitDiscard
      <4>2. submit[w].time > allocated /\ submit[w].time \in Nat /\ allocated \in Nat
        BY <1>1, <2>0, <4>1, BoundsAssumption DEF LandAnswer, TypeOK
      <4>3. \A t \in Times : t <= Cutoff => t # submit[w].time
        BY <2>1, <4>2, BoundsAssumption DEF Times
      <4> QED
        BY <2>0, <4>1, <4>3 DEF LandAnswer, TypeOK
    <3> QED
      BY <3>1, <3>2
  <2> DEFINE said == {t \in Times : response[t].by = v /\ t <= Cutoff}
             then == {t \in Times : response'[t].by = v /\ t <= Cutoff'}
  <2>5. then = said
    BY <2>3, <2>4
  <2>6. ReadBackAt(v) =
           IF said = {} THEN 0 ELSE CHOOSE t \in said : \A u \in said : u <= t
    BY DEF ReadBackAt, LatestAt
  <2>7. ReadBackAt(v)' =
           IF then = {} THEN 0 ELSE CHOOSE t \in then : \A u \in then : u <= t
    BY DEF ReadBackAt, LatestAt
  <2> HIDE DEF said, then
  <2> QED
    BY <2>5, <2>6, <2>7
<1>2. IndInv /\ [Next]_vars =>
        [rota = "allocated" /\ (\A u \in Submits :
              submit[u].at = "begun" => submit[u].time > allocated)
         => \A v \in Volunteers : ReadBackAt(v)' = ReadBackAt(v)]_vars
  BY <1>1
<1> QED
  BY <1>2, Inductive, PTL DEF Spec, AllocatedRoundSettles

-----------------------------------------------------------------------------
(* Two readings of one round. *)

\* No two volunteers have one name, and no group is called what somebody without a
\* group is known by.
KeysApart ==
    /\ \A v, w \in Volunteers : Name[v] = Name[w] => v = w
    /\ \A v, w \in Volunteers :
          Group[v] # None => Group[v] # w /\ Group[v] # Name[w]

\* The page and the solver then make the same groups.
LEMMA SameGroups ==
    ASSUME KeysApart, TypeOK, NEW v \in Volunteers
    PROVE  RoundGroup(v) = {w \in SolverGroup(v) : Asked(w)}
<1>1. ASSUME NEW w \in Volunteers
      PROVE  RoundKey(w) = RoundKey(v) <=> SolverKey(w) = SolverKey(v)
  BY <1>1 DEF KeysApart, RoundKey, SolverKey
<1>2. active \subseteq Volunteers
  BY DEF TypeOK
<1> QED
  BY <1>1, <1>2 DEF RoundGroup, SolverGroup, Allocatable

\* Whom the page counts as free the solver may seat, when the two cannot take
\* different people for a group (buildCoverage, InitShifts).
THEOREM PageCountsSeatable ==
    ASSUME KeysApart
    PROVE  Spec => []CountedCanBeSeated
<1>1. ASSUME TypeOK, rota = "unallocated", NEW s \in Shifts, NEW v \in Counted(s)
      PROVE  /\ v \in Seatable(s)
             /\ \A w \in Allocatable :
                   RoundKey(w) = RoundKey(v) /\ ReadBackAt(w) # 0 => s \in Form(w)
  <2>1. ReadBack = Answers
    BY <1>1 DEF ReadBack, Answers, ReadBackAt, LastAt, Cutoff
  <2>2. v \in active /\ v \in Volunteers /\ s \notin closed
    BY <1>1 DEF Counted, Allocatable, TypeOK
  <2>3. SaidYes(RoundGroup(v), s, ReadBack)
    BY <1>1 DEF Counted
  <2>4. RoundGroup(v) = {w \in SolverGroup(v) : Asked(w)}
    BY <1>1, <2>2, SameGroups
  <2>5. SaidYes({w \in SolverGroup(v) : Asked(w)}, s, Answers)
    BY <2>1, <2>3, <2>4
  <2>6. v \in Seatable(s)
    BY <2>2, <2>5 DEF Seatable, SaysYes
  <2>7. ASSUME NEW w \in Allocatable, RoundKey(w) = RoundKey(v), ReadBackAt(w) # 0
        PROVE  s \in Form(w)
    <3>1. w \in RoundGroup(v) /\ ReadBack[w] = ReadBackAt(w)
      BY <1>1, <2>7 DEF RoundGroup, Allocatable, ReadBack, TypeOK
    <3>2. s \in response[ReadBackAt(w)].days
      BY <2>3, <2>7, <3>1 DEF SaidYes
    <3> QED
      BY <2>2, <2>7, <3>2 DEF Form
  <2> QED
    BY <2>6, <2>7
<1>2. TypeOK => CountedCanBeSeated
  BY <1>1 DEF CountedCanBeSeated
<1> QED
  BY <1>2, TypeCorrect, PTL
=============================================================================
