------------------------ MODULE AvailabilitySendProofs ------------------------
(***************************************************************************)
(* Proofs about AvailabilitySend, for any number of volunteers, groups and *)
(* sends.                                                                  *)
(***************************************************************************)
EXTENDS AvailabilitySend, FiniteSetTheorems, TLAPS

\* What a send has done and has left to do.
JobOK(j) ==
    /\ job[j].at \in {"idle", "started", "resolved", "read", "done"} =>
          job[j].chosen = {} /\ job[j].sent = {} /\ job[j].failed = {}
    /\ job[j].left \subseteq job[j].chosen
    /\ job[j].at = "mailed" => job[j].mailing \in job[j].left
    /\ job[j].at # "mailed" => job[j].mailing = None
    /\ job[j].sent \cap job[j].failed = {}
    /\ job[j].chosen \ job[j].left = job[j].sent \cup job[j].failed
    /\ job[j].unsent \subseteq job[j].asked

\* What its page says of it.
PageOK(j) ==
    /\ job[j].at = "idle" => ~page[j].on
    /\ page[j].on =>
          /\ page[j].finished <=> ~Running(j)
          /\ Running(j) => page[j].done = Outcomes(j)
          /\ job[j].at \in {"started", "resolved", "read"} => page[j].total = 0
          /\ job[j].at \in {"sending", "mailed"} => page[j].total = Total(j)
          /\ page[j].finished /\ page[j].total # 0 => page[j].done = page[j].total

\* It is for volunteers who have a link, until a discard.
AskedOK(j) ==
    rota # "discarded" =>
        \A v \in job[j].asked \cup job[j].chosen : request[v] # "none"

\* A round send that runs alone is for those whom no other has invited.
InviteOK(j) ==
    ~overlapped /\ job[j].mode = "round" =>
        \A v \in Volunteers \ doubtful :
            /\ job[j].at = "read" /\ v \in job[j].unsent => invited[v] = 0
            /\ job[j].at \in {"sending", "mailed"} /\ v \in job[j].left
               /\ job[j].mailing # v => invited[v] = 0

\* A reminder finds the answers of before it began.
ReminderOK(j) ==
    rota = "unallocated" =>
        /\ job[j].before \subseteq answered
        /\ job[j].at = "read" => job[j].before \subseteq job[j].asked

SendsOK ==
    \A j \in Jobs : JobOK(j) /\ PageOK(j) /\ AskedOK(j) /\ InviteOK(j) /\ ReminderOK(j)

\* Unless sends have overlapped, one runs at a time.
Alone == ~overlapped => \A j, k \in Jobs : Running(j) /\ Running(k) => j = k

\* Who has answered or has been invited has a link, until a discard.
HasLinks ==
    rota # "discarded" =>
        /\ \A v \in answered : request[v] # "none"
        /\ \A v \in Volunteers : request[v] = "none" => invited[v] = 0

IndInv ==
    /\ TypeOK
    /\ SendsOK
    /\ Alone
    /\ HasLinks
    /\ StampIsTrue
    /\ InvitedOnce

-----------------------------------------------------------------------------
(* What a step does to one send. *)

LEMMA IdleType == IdleJob \in JobTypes
BY DEF IdleJob, JobTypes, Modes

LEMMA NoPageType == NoPage \in PageTypes
BY PeopleAssumption, FS_CardinalityType DEF NoPage, PageTypes

LEMMA Counts ==
    ASSUME NEW S \in SUBSET Volunteers
    PROVE  IsFiniteSet(S) /\ Cardinality(S) \in 0 .. Cardinality(Volunteers)
BY PeopleAssumption, FS_CardinalityType, FS_Subset

LEMMA StartEffect ==
    ASSUME TypeOK, NEW j \in Jobs, StartSend(j)
    PROVE  /\ job[j].at = "idle"
           /\ \A k \in Jobs \ {j} : job'[k] = job[k] /\ page'[k] \in {page[k], NoPage}
           /\ job' \in [Jobs -> JobTypes] /\ page' \in [Jobs -> PageTypes]
           /\ job'[j].at = "started" /\ job'[j].chosen = {} /\ job'[j].left = {}
           /\ job'[j].sent = {} /\ job'[j].failed = {} /\ job'[j].mailing = None
           /\ job'[j].unsent = {} /\ job'[j].asked = {}
           /\ job'[j].before \subseteq answered
           /\ page'[j].on /\ page'[j].done = 0 /\ page'[j].total = 0
           /\ ~page'[j].finished
<1>0. job \in [Jobs -> JobTypes] /\ page \in [Jobs -> PageTypes]
      /\ answered \subseteq Volunteers
  BY DEF TypeOK
<1>1. PICK mode \in Modes, who \in Volunteers \cup {None} :
         job' = [job EXCEPT ![j] = [IdleJob EXCEPT
                    !.at = "started", !.mode = mode, !.who = who,
                    !.before = IF mode = "reminder" THEN answered ELSE {}]]
  BY DEF StartSend
<1> DEFINE before == IF mode = "reminder" THEN answered ELSE {}
           new == [IdleJob EXCEPT !.at = "started", !.mode = mode, !.who = who,
                                  !.before = before]
<1>2. before \in SUBSET Volunteers /\ before \subseteq answered
  BY <1>0
<1>3. /\ new.at = "started" /\ new.chosen = {} /\ new.left = {} /\ new.sent = {}
      /\ new.failed = {} /\ new.mailing = None /\ new.unsent = {} /\ new.asked = {}
      /\ new.before = before /\ new \in JobTypes
  <2> HIDE DEF before
  <2> QED
    BY <1>2, ZenonT(60) DEF IdleJob, JobTypes
<1>4. job' = [job EXCEPT ![j] = new]
  BY <1>1
<1>5. page' = [k \in Jobs |-> IF k = j THEN [NoPage EXCEPT !.on = TRUE]
                              ELSE IF page[k].aged THEN NoPage ELSE page[k]]
  BY DEF StartSend
<1>6. [NoPage EXCEPT !.on = TRUE] \in PageTypes
  BY NoPageType DEF PageTypes
<1>7. page' \in [Jobs -> PageTypes]
  BY <1>0, <1>5, <1>6, NoPageType
<1>8. /\ page'[j].on /\ page'[j].done = 0 /\ page'[j].total = 0
      /\ ~page'[j].finished
      /\ \A k \in Jobs \ {j} : page'[k] \in {page[k], NoPage}
  BY <1>5 DEF NoPage
<1>9. job' \in [Jobs -> JobTypes] /\ job'[j] = new
      /\ \A k \in Jobs \ {j} : job'[k] = job[k]
  <2> HIDE DEF new
  <2> QED
    BY <1>0, <1>3, <1>4
<1> HIDE DEF new, before
<1> QED
  BY <1>2, <1>3, <1>7, <1>8, <1>9 DEF StartSend

\* What every step leaves be, or adds to.
Grows ==
    /\ rota' # "discarded" => rota # "discarded"
    /\ rota' = "unallocated" => rota = "unallocated"
    /\ rota' # "discarded" =>
          \A v \in Volunteers : request[v] # "none" => request'[v] # "none"
    /\ rota' = "unallocated" => answered \subseteq answered'
    /\ doubtful \subseteq doubtful'
    /\ ~overlapped' => ~overlapped

Own(j) == JobOK(j) /\ PageOK(j) /\ AskedOK(j) /\ InviteOK(j) /\ ReminderOK(j)

\* The others are as they were.
Others(j) == \A k \in Jobs \ {j} : job'[k] = job[k] /\ page'[k] \in {page[k], NoPage}

Typed == job' \in [Jobs -> JobTypes] /\ page' \in [Jobs -> PageTypes]

LEMMA Frame ==
    ASSUME NEW k \in Jobs, Own(k), Grows, TypeOK,
           job'[k] = job[k], page'[k] \in {page[k], NoPage},
           ~overlapped' => \/ ~Running(k)
                           \/ \A v \in Volunteers \ doubtful' : invited'[v] = invited[v]
    PROVE  Own(k)'
<1>1. JobOK(k)'
  BY DEF Own, JobOK
<1>2. PageOK(k)'
  <2>1. CASE page'[k] = NoPage
    BY <2>1 DEF PageOK, NoPage
  <2>2. CASE page'[k] = page[k]
    BY <2>2 DEF Own, PageOK, Running, Outcomes, Total
  <2> QED
    BY <2>1, <2>2
<1>3. AskedOK(k)'
  <2>1. \A v \in job[k].asked \cup job[k].chosen : v \in Volunteers
    BY DEF TypeOK, JobTypes
  <2> QED
    BY <2>1 DEF Own, AskedOK, Grows
<1>4. InviteOK(k)'
  BY DEF Own, InviteOK, Grows, Running
<1>5. ReminderOK(k)'
  BY DEF Own, ReminderOK, Grows
<1> QED
  BY <1>1, <1>2, <1>3, <1>4, <1>5 DEF Own

LEMMA StartOwn ==
    ASSUME TypeOK, NEW j \in Jobs, StartSend(j)
    PROVE  Typed /\ Others(j) /\ Own(j)'
<1>1. Typed /\ Others(j)
  BY StartEffect DEF Typed, Others
<1>2. JobOK(j)'
  BY StartEffect DEF JobOK
<1>3. PageOK(j)'
  <2>1. Outcomes(j)' = 0
    BY StartEffect, FS_EmptySet DEF Outcomes
  <2> QED
    BY <2>1, StartEffect DEF PageOK, Running
<1>4. AskedOK(j)' /\ InviteOK(j)'
  BY StartEffect DEF AskedOK, InviteOK
<1>5. ReminderOK(j)'
  BY StartEffect DEF ReminderOK, StartSend, data
<1> QED
  BY <1>1, <1>2, <1>3, <1>4, <1>5 DEF Own

LEMMA StopOwn ==
    ASSUME TypeOK, NEW j \in Jobs, Own(j), StopSend(j), Running(j),
           job[j].at \in {"started", "resolved", "read"} \/ job[j].left = {}
    PROVE  Typed /\ Others(j) /\ Own(j)'
<1>0. job \in [Jobs -> JobTypes] /\ page \in [Jobs -> PageTypes]
  BY DEF TypeOK
<1> DEFINE new == [IdleJob EXCEPT !.at = "done"]
<1>1. /\ new \in JobTypes /\ new.at = "done" /\ new.chosen = {} /\ new.left = {}
      /\ new.sent = {} /\ new.failed = {} /\ new.mailing = None /\ new.unsent = {}
      /\ new.asked = {} /\ new.before = {}
  BY IdleType, ZenonT(60) DEF IdleJob, JobTypes
<1>2. job' = [job EXCEPT ![j] = new]
  BY DEF StopSend
<1> HIDE DEF new
<1>3. job' \in [Jobs -> JobTypes] /\ job'[j] = new
      /\ \A k \in Jobs \ {j} : job'[k] = job[k]
  BY <1>0, <1>1, <1>2
<1>4. page' = IF page[j].on THEN [page EXCEPT ![j].finished = TRUE] ELSE page
  BY DEF StopSend, Finished
<1>5. /\ page' \in [Jobs -> PageTypes]
      /\ page'[j].on <=> page[j].on
      /\ page'[j].done = page[j].done /\ page'[j].total = page[j].total
      /\ page[j].on => page'[j].finished
      /\ \A k \in Jobs \ {j} : page'[k] = page[k]
  BY <1>0, <1>4 DEF PageTypes
<1>6. JobOK(j)'
  BY <1>1, <1>3 DEF JobOK
<1>7. PageOK(j)'
  <2>1. page[j].on /\ job[j].at \in {"sending", "mailed"} /\ job[j].left = {} =>
           page[j].done = page[j].total
    BY DEF Own, PageOK, JobOK, Running, Outcomes, Total
  <2>2. page[j].on /\ job[j].at \in {"started", "resolved", "read"} => page[j].total = 0
    BY DEF Own, PageOK
  <2> QED
    BY <1>1, <1>3, <1>5, <2>1, <2>2 DEF PageOK, Running
<1>8. AskedOK(j)' /\ InviteOK(j)' /\ ReminderOK(j)'
  BY <1>1, <1>3 DEF AskedOK, InviteOK, ReminderOK
<1> QED
  BY <1>3, <1>5, <1>6, <1>7, <1>8 DEF Typed, Others, Own

LEMMA ExpireOwn ==
    ASSUME TypeOK, NEW j \in Jobs, Own(j), Expire(j)
    PROVE  Typed /\ Others(j) /\ Own(j)'
<1>0. job \in [Jobs -> JobTypes] /\ page \in [Jobs -> PageTypes]
  BY DEF TypeOK
<1>1. job' = [job EXCEPT ![j] = [job[j] EXCEPT !.late = TRUE]]
      /\ UNCHANGED <<data, page, past>>
  BY <1>0 DEF Expire
<1>2. job' \in [Jobs -> JobTypes]
  <2>1. [job[j] EXCEPT !.late = TRUE] \in JobTypes
    BY <1>0, ZenonT(60) DEF JobTypes
  <2> QED
    BY <1>0, <1>1, <2>1
<1>3. /\ job'[j].at = job[j].at /\ job'[j].chosen = job[j].chosen
      /\ job'[j].left = job[j].left /\ job'[j].sent = job[j].sent
      /\ job'[j].failed = job[j].failed /\ job'[j].mailing = job[j].mailing
      /\ job'[j].unsent = job[j].unsent /\ job'[j].asked = job[j].asked
      /\ job'[j].before = job[j].before /\ job'[j].mode = job[j].mode
      /\ \A k \in Jobs \ {j} : job'[k] = job[k]
  BY <1>0, <1>1 DEF JobTypes
<1>4. JobOK(j)'
  BY <1>3 DEF Own, JobOK
<1>5. PageOK(j)'
  BY <1>1, <1>3 DEF Own, PageOK, Running, Outcomes, Total
<1>6. AskedOK(j)' /\ InviteOK(j)' /\ ReminderOK(j)'
  BY <1>1, <1>3 DEF Own, AskedOK, InviteOK, ReminderOK, data, past
<1> QED
  BY <1>0, <1>1, <1>2, <1>3, <1>4, <1>5, <1>6 DEF Typed, Others, Own

LEMMA ResolveOwn ==
    ASSUME TypeOK, NEW j \in Jobs, Own(j), ResolveRota(j)
    PROVE  Typed /\ Others(j) /\ Own(j)'
<1>0. job \in [Jobs -> JobTypes] /\ page \in [Jobs -> PageTypes]
  BY DEF TypeOK
<1>1. job' = [job EXCEPT ![j] = [job[j] EXCEPT !.at = "resolved"]]
      /\ job[j].at = "started" /\ UNCHANGED <<data, page, past>>
  BY <1>0 DEF ResolveRota
<1>2. job' \in [Jobs -> JobTypes]
  <2>1. [job[j] EXCEPT !.at = "resolved"] \in JobTypes
    BY <1>0, SMTT(30) DEF JobTypes
  <2> QED
    BY <1>0, <1>1, <2>1
<1>3. /\ job'[j].at = "resolved" /\ job'[j].chosen = job[j].chosen
      /\ job'[j].left = job[j].left /\ job'[j].sent = job[j].sent
      /\ job'[j].failed = job[j].failed /\ job'[j].mailing = job[j].mailing
      /\ job'[j].unsent = job[j].unsent /\ job'[j].asked = job[j].asked
      /\ job'[j].before = job[j].before /\ job'[j].mode = job[j].mode
      /\ \A k \in Jobs \ {j} : job'[k] = job[k]
  BY <1>0, <1>1 DEF JobTypes
<1>4. JobOK(j)'
  BY <1>1, <1>3 DEF Own, JobOK
<1>5. PageOK(j)'
  BY <1>1, <1>3 DEF Own, PageOK, Running, Outcomes, Total
<1>6. AskedOK(j)' /\ InviteOK(j)' /\ ReminderOK(j)'
  BY <1>1, <1>3 DEF Own, AskedOK, InviteOK, ReminderOK, data, past
<1> QED
  BY <1>0, <1>1, <1>2, <1>3, <1>4, <1>5, <1>6 DEF Typed, Others, Own

\* Whoever is not sent to, has not been invited: nobody is just being stamped.
LEMMA ReadOwn ==
    ASSUME TypeOK, NEW j \in Jobs, Own(j), HasLinks, Alone, StampIsTrue,
           ReadRequests(j)
    PROVE  Typed /\ Others(j) /\ Own(j)'
<1>0. /\ job \in [Jobs -> JobTypes] /\ page \in [Jobs -> PageTypes]
      /\ answered \subseteq Volunteers /\ invited \in [Volunteers -> Nat]
  BY DEF TypeOK
<1> DEFINE asked == {v \in Volunteers : request[v] # "none"}
           unsent == {v \in Volunteers : request[v] = "unsent"}
           new == [job[j] EXCEPT !.at = "read", !.asked = asked, !.unsent = unsent]
<1>1. /\ job' = [job EXCEPT ![j] = new]
      /\ job[j].at = "resolved" /\ UNCHANGED <<data, page, past>>
  BY <1>0 DEF ReadRequests
<1>a. asked \in SUBSET Volunteers /\ unsent \in SUBSET Volunteers
  OBVIOUS
<1>2. /\ new.at = "read" /\ new.chosen = job[j].chosen
      /\ new.left = job[j].left /\ new.sent = job[j].sent
      /\ new.failed = job[j].failed /\ new.mailing = job[j].mailing
      /\ new.unsent = unsent /\ new.asked = asked
      /\ new.before = job[j].before /\ new.mode = job[j].mode
      /\ new \in JobTypes
  <2> HIDE DEF asked, unsent
  <2>1. job[j] \in JobTypes
    BY <1>0
  <2>2. new \in JobTypes
    BY <1>a, <2>1, ZenonT(60) DEF JobTypes
  <2>3. /\ new.at = "read" /\ new.unsent = unsent /\ new.asked = asked
        /\ new.chosen = job[j].chosen /\ new.left = job[j].left
    BY <2>1, SMTT(30) DEF JobTypes
  <2>4. /\ new.sent = job[j].sent /\ new.failed = job[j].failed
        /\ new.mailing = job[j].mailing
        /\ new.before = job[j].before /\ new.mode = job[j].mode
    BY <2>1, SMTT(30) DEF JobTypes
  <2> QED
    BY <2>2, <2>3, <2>4
<1> HIDE DEF new
<1>3. /\ job' \in [Jobs -> JobTypes] /\ job'[j] = new
      /\ \A k \in Jobs \ {j} : job'[k] = job[k]
  BY <1>0, <1>1, <1>2
<1>4. JobOK(j)'
  <2>1. unsent \subseteq asked
    OBVIOUS
  <2> HIDE DEF asked, unsent
  <2> QED
    BY <1>1, <1>2, <1>3, <2>1 DEF Own, JobOK
<1>5. PageOK(j)'
  BY <1>1, <1>2, <1>3 DEF Own, PageOK, Running, Outcomes, Total
<1>6. AskedOK(j)'
  BY <1>1, <1>2, <1>3 DEF Own, AskedOK, JobOK, data
<1>7. InviteOK(j)'
  <2>1. ASSUME ~overlapped, NEW v \in Volunteers \ doubtful, v \in unsent
        PROVE  invited[v] = 0
    <3>1. ~ \E k \in Jobs : job[k].at = "mailed"
      BY <1>1, <2>1 DEF Alone, Running
    <3>2. ~(invited[v] > 0)
      BY <2>1, <3>1 DEF StampIsTrue
    <3> QED
      BY <1>0, <3>2
  <2> QED
    BY <1>1, <1>2, <1>3, <2>1 DEF InviteOK, past
<1>8. ReminderOK(j)'
  <2>1. rota = "unallocated" => answered \subseteq asked
    BY <1>0 DEF HasLinks
  <2> HIDE DEF asked, unsent
  <2> QED
    BY <1>1, <1>2, <1>3, <2>1 DEF Own, ReminderOK, data
<1> QED
  BY <1>0, <1>1, <1>3, <1>4, <1>5, <1>6, <1>7, <1>8 DEF Typed, Others, Own

LEMMA SelectOwn ==
    ASSUME TypeOK, NEW j \in Jobs, Own(j), SelectRecipients(j)
    PROVE  Typed /\ Others(j) /\ Own(j)'
<1>0. /\ job \in [Jobs -> JobTypes] /\ page \in [Jobs -> PageTypes]
      /\ invited \in [Volunteers -> Nat]
  BY DEF TypeOK
<1> DEFINE chosen == IF job[j].mode = "resend" THEN {job[j].who} ELSE Recipients(j)
           new == [job[j] EXCEPT !.at = "sending", !.chosen = chosen, !.left = chosen,
                                 !.asked = {}, !.unsent = {}, !.before = {}]
<1>1. /\ job' = [job EXCEPT ![j] = new] /\ page' = Progressed(j, 0, Cardinality(chosen))
      /\ job[j].at = "read" /\ UNCHANGED <<data, past>>
  BY <1>0 DEF SelectRecipients
<1>2. /\ chosen \in SUBSET Volunteers
      /\ \A v \in chosen : v \in job[j].asked
      /\ job[j].mode = "round" => chosen \subseteq job[j].unsent
  <2>1. job[j].asked \in SUBSET Volunteers
    BY <1>0, SMTT(30) DEF JobTypes
  <2>2. job[j].mode = "resend" => job[j].who \in job[j].asked
    BY DEF SelectRecipients, CanResend
  <2>3. /\ Recipients(j) \subseteq job[j].asked
        /\ job[j].mode = "round" => Recipients(j) \subseteq job[j].unsent
    BY DEF Recipients
  <2> QED
    BY <2>1, <2>2, <2>3
<1> HIDE DEF chosen
<1>3. /\ new.at = "sending" /\ new.chosen = chosen /\ new.left = chosen
      /\ new.sent = job[j].sent /\ new.failed = job[j].failed
      /\ new.mailing = job[j].mailing /\ new.unsent = {} /\ new.asked = {}
      /\ new.before = {} /\ new.mode = job[j].mode /\ new \in JobTypes
  <2>1. job[j] \in JobTypes
    BY <1>0
  <2>2. new \in JobTypes
    BY <1>2, <2>1, ZenonT(60) DEF JobTypes
  <2>3. /\ new.at = "sending" /\ new.chosen = chosen /\ new.left = chosen
        /\ new.unsent = {} /\ new.asked = {} /\ new.before = {}
    BY <2>1, SMTT(30) DEF JobTypes
  <2>4. /\ new.sent = job[j].sent /\ new.failed = job[j].failed
        /\ new.mailing = job[j].mailing /\ new.mode = job[j].mode
    BY <2>1, SMTT(30) DEF JobTypes
  <2> QED
    BY <2>2, <2>3, <2>4
<1> HIDE DEF new
<1>4. /\ job' \in [Jobs -> JobTypes] /\ job'[j] = new
      /\ \A k \in Jobs \ {j} : job'[k] = job[k]
  BY <1>0, <1>1, <1>3
<1>5. page' = IF page[j].on
              THEN [page EXCEPT ![j] = [page[j] EXCEPT !.done = 0,
                                                       !.total = Cardinality(chosen)]]
              ELSE page
  BY <1>0, <1>1 DEF Progressed
<1>6. Cardinality(chosen) \in 0 .. Cardinality(Volunteers)
      /\ 0 \in 0 .. Cardinality(Volunteers)
  BY <1>2, Counts
<1>7. /\ page' \in [Jobs -> PageTypes]
      /\ page'[j].on <=> page[j].on
      /\ page[j].on => page'[j].done = 0 /\ page'[j].total = Cardinality(chosen)
                       /\ page'[j].finished = page[j].finished
      /\ \A k \in Jobs \ {j} : page'[k] = page[k]
  BY <1>0, <1>5, <1>6 DEF PageTypes
<1>8. JobOK(j)'
  BY <1>1, <1>3, <1>4 DEF Own, JobOK
<1>9. PageOK(j)'
  <2>1. Outcomes(j)' = 0
    BY <1>1, <1>3, <1>4, FS_EmptySet DEF Own, JobOK, Outcomes
  <2>2. Total(j)' = Cardinality(chosen)
    BY <1>3, <1>4 DEF Total
  <2>3. page[j].on => ~page[j].finished
    BY <1>1 DEF Own, PageOK, Running
  <2> QED
    BY <1>3, <1>4, <1>7, <2>1, <2>2, <2>3 DEF PageOK, Running
<1>10. AskedOK(j)'
  BY <1>1, <1>2, <1>3, <1>4 DEF Own, AskedOK, data
<1>11. InviteOK(j)'
  BY <1>1, <1>2, <1>3, <1>4 DEF Own, InviteOK, past
<1>12. ReminderOK(j)'
  BY <1>3, <1>4 DEF ReminderOK
<1> QED
  BY <1>4, <1>7, <1>8, <1>9, <1>10, <1>11, <1>12 DEF Typed, Others, Own

\* An email is told to have been sent or to have failed.
LEMMA CountOwn ==
    ASSUME TypeOK, NEW j \in Jobs, Own(j), NEW v \in job[j].left,
           job[j].at = "sending" \/ (job[j].at = "mailed" /\ job[j].mailing = v),
           Fail(j, v) \/ Succeed(j, v), Counting(j), Grows,
           \A u \in Volunteers \ {v} : invited'[u] = invited[u]
    PROVE  Typed /\ Others(j) /\ Own(j)'
<1>0. /\ job \in [Jobs -> JobTypes] /\ page \in [Jobs -> PageTypes]
      /\ v \in Volunteers
  BY DEF TypeOK, JobTypes
<1>1. /\ job' \in [Jobs -> JobTypes] /\ job'[j].at = "sending"
      /\ job'[j].left = job[j].left \ {v} /\ job'[j].mailing = None
      /\ job'[j].chosen = job[j].chosen /\ job'[j].asked = job[j].asked
      /\ job'[j].unsent = job[j].unsent /\ job'[j].before = job[j].before
      /\ job'[j].mode = job[j].mode
      /\ \/ job'[j].sent = job[j].sent \cup {v} /\ job'[j].failed = job[j].failed
         \/ job'[j].sent = job[j].sent /\ job'[j].failed = job[j].failed \cup {v}
      /\ \A k \in Jobs \ {j} : job'[k] = job[k]
  <2>1. CASE Fail(j, v)
    <3> DEFINE new == [job[j] EXCEPT !.at = "sending", !.left = @ \ {v},
                                     !.mailing = None, !.failed = @ \cup {v}]
    <3>1. job' = [job EXCEPT ![j] = new]
      BY <1>0, <2>1 DEF Fail
    <3>2. /\ new \in JobTypes /\ new.at = "sending" /\ new.left = job[j].left \ {v}
          /\ new.mailing = None /\ new.chosen = job[j].chosen
          /\ new.asked = job[j].asked /\ new.unsent = job[j].unsent
          /\ new.before = job[j].before /\ new.mode = job[j].mode
          /\ new.sent = job[j].sent /\ new.failed = job[j].failed \cup {v}
      <4>1. job[j] \in JobTypes
        BY <1>0
      <4>2. new \in JobTypes
        BY <1>0, <4>1, ZenonT(60) DEF JobTypes
      <4>3. /\ new.at = "sending" /\ new.left = job[j].left \ {v}
            /\ new.mailing = None
            /\ new.sent = job[j].sent /\ new.failed = job[j].failed \cup {v}
        BY <4>1, SMTT(30) DEF JobTypes
      <4>4. /\ new.chosen = job[j].chosen
            /\ new.asked = job[j].asked /\ new.unsent = job[j].unsent
            /\ new.before = job[j].before /\ new.mode = job[j].mode
        BY <4>1, SMTT(30) DEF JobTypes
      <4> QED
        BY <4>2, <4>3, <4>4
    <3> HIDE DEF new
    <3> QED
      BY <1>0, <3>1, <3>2
  <2>2. CASE Succeed(j, v)
    <3> DEFINE new == [job[j] EXCEPT !.at = "sending", !.left = @ \ {v},
                                     !.mailing = None, !.sent = @ \cup {v}]
    <3>1. job' = [job EXCEPT ![j] = new]
      BY <1>0, <2>2 DEF Succeed
    <3>2. /\ new \in JobTypes /\ new.at = "sending" /\ new.left = job[j].left \ {v}
          /\ new.mailing = None /\ new.chosen = job[j].chosen
          /\ new.asked = job[j].asked /\ new.unsent = job[j].unsent
          /\ new.before = job[j].before /\ new.mode = job[j].mode
          /\ new.sent = job[j].sent \cup {v} /\ new.failed = job[j].failed
      <4>1. job[j] \in JobTypes
        BY <1>0
      <4>2. new \in JobTypes
        BY <1>0, <4>1, ZenonT(60) DEF JobTypes
      <4>3. /\ new.at = "sending" /\ new.left = job[j].left \ {v}
            /\ new.mailing = None
            /\ new.sent = job[j].sent \cup {v} /\ new.failed = job[j].failed
        BY <4>1, SMTT(30) DEF JobTypes
      <4>4. /\ new.chosen = job[j].chosen
            /\ new.asked = job[j].asked /\ new.unsent = job[j].unsent
            /\ new.before = job[j].before /\ new.mode = job[j].mode
        BY <4>1, SMTT(30) DEF JobTypes
      <4> QED
        BY <4>2, <4>3, <4>4
    <3> HIDE DEF new
    <3> QED
      BY <1>0, <3>1, <3>2
  <2> QED
    BY <2>1, <2>2
<1>2. v \notin job[j].sent \cup job[j].failed /\ v \in job[j].chosen
  BY DEF Own, JobOK
<1> DEFINE told == job[j].sent \cup job[j].failed
<1>3. told' = told \cup {v} /\ told \in SUBSET Volunteers /\ told' \in SUBSET Volunteers
  BY <1>0, <1>1 DEF JobTypes
<1>4. /\ Outcomes(j)' = Outcomes(j) + 1
      /\ Outcomes(j) + 1 \in 0 .. Cardinality(Volunteers)
  <2> HIDE DEF told
  <2>1. IsFiniteSet(told) /\ v \notin told
    BY <1>2, <1>3, Counts DEF told
  <2>2. Cardinality(told \cup {v}) = Cardinality(told) + 1
    BY <2>1, FS_AddElement
  <2>3. Cardinality(told') \in 0 .. Cardinality(Volunteers)
    BY <1>3, Counts
  <2> QED
    BY <1>3, <2>2, <2>3 DEF Outcomes, told
<1>5. Total(j) \in 0 .. Cardinality(Volunteers) /\ Total(j)' = Total(j)
  <2>1. job[j].chosen \in SUBSET Volunteers
    BY <1>0, SMTT(30) DEF JobTypes
  <2> QED
    BY <1>1, <2>1, Counts DEF Total
<1>6. page' = IF page[j].on
              THEN [page EXCEPT ![j] = [page[j] EXCEPT !.done = Outcomes(j) + 1,
                                                       !.total = Total(j)]]
              ELSE page
  BY <1>0 DEF Counting, Progressed
<1>7. /\ page' \in [Jobs -> PageTypes]
      /\ page'[j].on <=> page[j].on
      /\ page[j].on => page'[j].done = Outcomes(j) + 1 /\ page'[j].total = Total(j)
                       /\ page'[j].finished = page[j].finished
      /\ \A k \in Jobs \ {j} : page'[k] = page[k]
  BY <1>0, <1>4, <1>5, <1>6 DEF PageTypes
<1>8. JobOK(j)'
  <2>1. job'[j].sent \cup job'[j].failed = (job[j].sent \cup job[j].failed) \cup {v}
    BY <1>1
  <2>2. job'[j].chosen \ job'[j].left = (job[j].chosen \ job[j].left) \cup {v}
    BY <1>1, <1>2
  <2>3. job'[j].sent \cap job'[j].failed = {}
    BY <1>1, <1>2 DEF Own, JobOK
  <2> QED
    BY <1>1, <2>1, <2>2, <2>3 DEF Own, JobOK
<1>9. PageOK(j)'
  <2>1. page[j].on => ~page[j].finished
    BY DEF Own, PageOK, Running
  <2> QED
    BY <1>1, <1>4, <1>5, <1>7, <2>1 DEF PageOK, Running
<1>10. AskedOK(j)'
  <2>1. \A u \in job[j].asked \cup job[j].chosen : u \in Volunteers
    BY <1>0, SMTT(30) DEF JobTypes
  <2> QED
    BY <1>1, <2>1 DEF Own, AskedOK, Grows
<1>11. InviteOK(j)'
  <2>1. \A u \in job[j].left \ {v} : u \in Volunteers /\ job[j].mailing # u
    BY <1>0, PeopleAssumption DEF Own, JobOK, JobTypes
  <2> QED
    BY <1>1, <2>1 DEF Own, InviteOK, Grows
<1>12. ReminderOK(j)'
  BY <1>1 DEF Own, ReminderOK, Grows
<1> QED
  BY <1>1, <1>7, <1>8, <1>9, <1>10, <1>11, <1>12 DEF Typed, Others, Own

\* An email has gone out and is about to be stamped.
LEMMA MailOwn ==
    ASSUME TypeOK, NEW j \in Jobs, Own(j), NEW v \in job[j].left,
           Email(j, v), job[j].mode # "reminder"
    PROVE  Typed /\ Others(j) /\ Own(j)'
<1>0. /\ job \in [Jobs -> JobTypes] /\ page \in [Jobs -> PageTypes]
      /\ v \in Volunteers /\ invited \in [Volunteers -> Nat]
  BY DEF TypeOK, JobTypes
<1> DEFINE new == [job[j] EXCEPT !.at = "mailed", !.mailing = v]
<1>1. /\ job' = [job EXCEPT ![j] = new] /\ job[j].at = "sending"
      /\ UNCHANGED <<data, page, doubtful, overlapped>>
  BY <1>0 DEF Email
<1>2. /\ new \in JobTypes /\ new.at = "mailed" /\ new.left = job[j].left
      /\ new.mailing = v /\ new.chosen = job[j].chosen
      /\ new.asked = job[j].asked /\ new.unsent = job[j].unsent
      /\ new.before = job[j].before /\ new.mode = job[j].mode
      /\ new.sent = job[j].sent /\ new.failed = job[j].failed
  <2>1. job[j] \in JobTypes
    BY <1>0
  <2>2. new \in JobTypes
    BY <1>0, <2>1, ZenonT(60) DEF JobTypes
  <2>3. /\ new.at = "mailed" /\ new.mailing = v /\ new.left = job[j].left
        /\ new.chosen = job[j].chosen
        /\ new.sent = job[j].sent /\ new.failed = job[j].failed
    BY <2>1, SMTT(30) DEF JobTypes
  <2>4. /\ new.asked = job[j].asked /\ new.unsent = job[j].unsent
        /\ new.before = job[j].before /\ new.mode = job[j].mode
    BY <2>1, SMTT(30) DEF JobTypes
  <2> QED
    BY <2>2, <2>3, <2>4
<1> HIDE DEF new
<1>3. /\ job' \in [Jobs -> JobTypes] /\ job'[j] = new
      /\ \A k \in Jobs \ {j} : job'[k] = job[k]
  BY <1>0, <1>1, <1>2
<1>4. \A u \in Volunteers \ {v} : invited'[u] = invited[u]
  BY <1>0 DEF Email, Invite
<1>5. JobOK(j)'
  BY <1>1, <1>2, <1>3 DEF Own, JobOK
<1>6. PageOK(j)'
  BY <1>1, <1>2, <1>3 DEF Own, PageOK, Running, Outcomes, Total
<1>7. AskedOK(j)' /\ ReminderOK(j)'
  BY <1>1, <1>2, <1>3 DEF Own, AskedOK, ReminderOK, data
<1>8. InviteOK(j)'
  <2>1. \A u \in Volunteers : job[j].mailing # u
    BY <1>1, PeopleAssumption DEF Own, JobOK
  <2> QED
    BY <1>1, <1>2, <1>3, <1>4, <2>1 DEF Own, InviteOK
<1> QED
  BY <1>0, <1>1, <1>3, <1>5, <1>6, <1>7, <1>8 DEF Typed, Others, Own

-----------------------------------------------------------------------------
(* The steps. *)

JobStep(j) == StartSend(j) \/ Step(j) \/ Expire(j)

RoundStep ==
    \/ Mint \/ Allocate \/ Discard
    \/ \E v \in Volunteers : AnswerRequest(v)
    \/ \E v \in Movers : MoveOnRoster(v)

LEMMA NextCases ==
    ASSUME Next
    PROVE  \/ \E j \in Jobs : JobStep(j) \/ Age(j)
           \/ Restart \/ RoundStep
BY DEF Next, JobStep, RoundStep

\* The emails of a send, one by one.
Outcome(j, v) ==
    \/ NoAddress(j, v) \/ EmailFails(j, v)
    \/ Email(j, v) /\ job[j].mode = "reminder"
    \/ v = job[j].mailing /\ (Stamp(j) \/ StampFails(j))

LEMMA StepCases ==
    ASSUME TypeOK, NEW j \in Jobs, Own(j), JobStep(j)
    PROVE  \/ StartSend(j) \/ Expire(j) \/ ResolveRota(j) \/ ReadRequests(j)
           \/ SelectRecipients(j)
           \/ /\ StopSend(j) /\ Running(j)
              /\ job[j].at \in {"started", "resolved", "read"} \/ job[j].left = {}
           \/ \E v \in job[j].left :
                 \/ Outcome(j, v)
                 \/ Email(j, v) /\ job[j].mode # "reminder"
<1>1. RefuseSend(j) => /\ StopSend(j) /\ Running(j)
                       /\ job[j].at \in {"started", "resolved", "read"}
  BY DEF RefuseSend, Running
<1>2. FinishSend(j) => StopSend(j) /\ Running(j) /\ job[j].left = {}
  BY DEF FinishSend, Running
<1>3. Stamp(j) \/ StampFails(j) => job[j].mailing \in job[j].left
  BY DEF Stamp, StampFails, Own, JobOK
<1>4. \A v : NoAddress(j, v) \/ Email(j, v) \/ EmailFails(j, v) => v \in job[j].left
  BY DEF NoAddress, Email, EmailFails
<1> QED
  BY <1>1, <1>2, <1>3, <1>4 DEF JobStep, Step, Outcome

LEMMA OutcomeEffect ==
    ASSUME TypeOK, NEW j \in Jobs, Own(j), NEW v \in job[j].left, Outcome(j, v)
    PROVE  /\ job[j].at = "sending" \/ (job[j].at = "mailed" /\ job[j].mailing = v)
           /\ Fail(j, v) \/ Succeed(j, v)
           /\ Counting(j)
           /\ UNCHANGED <<rota, answered, roster, addressed, overlapped>>
           /\ request' \in {request, SentAt(v)}
           /\ request' # request => job[j].at = "mailed"
           /\ doubtful' \in {doubtful, doubtful \cup {v}}
           /\ \/ UNCHANGED invited
              \/ job[j].mode = "round" /\ job[j].at = "sending"
                 /\ invited' = [invited EXCEPT ![v] = @ + 1] /\ v \in doubtful'
           /\ job[j].at = "mailed" => v \in doubtful' \/ request' = SentAt(v)
<1>1. CASE NoAddress(j, v)
  BY <1>1 DEF NoAddress, data, past
<1>2. CASE EmailFails(j, v)
  BY <1>2 DEF EmailFails, Invite, data
<1>3. CASE Email(j, v) /\ job[j].mode = "reminder"
  BY <1>3 DEF Email, Invite, data
<1>4. CASE v = job[j].mailing /\ Stamp(j)
  BY <1>4 DEF Stamp, past
<1>5. CASE v = job[j].mailing /\ StampFails(j)
  BY <1>5 DEF StampFails, data
<1> QED
  BY <1>1, <1>2, <1>3, <1>4, <1>5 DEF Outcome

\* Who is counted as invited, and by whom.
LEMMA InvitedBy ==
    ASSUME TypeOK, NEW j \in Jobs, Own(j), JobStep(j)
    PROVE  /\ UNCHANGED <<rota, answered, roster, addressed>>
           /\ \/ UNCHANGED invited
              \/ \E v \in job[j].left :
                    /\ job[j].mode = "round" /\ job[j].at = "sending"
                    /\ invited' = [invited EXCEPT ![v] = @ + 1]
                    /\ \/ v \in doubtful'
                       \/ job'[j].at = "mailed" /\ job'[j].mailing = v
                    /\ UNCHANGED overlapped
<1>1. CASE StartSend(j) \/ Expire(j) \/ ResolveRota(j) \/ ReadRequests(j)
           \/ SelectRecipients(j) \/ StopSend(j)
  BY <1>1 DEF StartSend, Expire, ResolveRota, ReadRequests, SelectRecipients, StopSend,
              data, past
<1>2. ASSUME NEW v \in job[j].left, Outcome(j, v)
      PROVE  /\ UNCHANGED <<rota, answered, roster, addressed, overlapped>>
             /\ \/ UNCHANGED invited
                \/ job[j].mode = "round" /\ job[j].at = "sending"
                   /\ invited' = [invited EXCEPT ![v] = @ + 1] /\ v \in doubtful'
  BY <1>2, OutcomeEffect
<1>3. ASSUME NEW v \in job[j].left, Email(j, v), job[j].mode # "reminder"
      PROVE  /\ UNCHANGED <<rota, answered, roster, addressed, overlapped>>
             /\ job[j].at = "sending"
             /\ job'[j].at = "mailed" /\ job'[j].mailing = v
             /\ \/ UNCHANGED invited
                \/ job[j].mode = "round" /\ invited' = [invited EXCEPT ![v] = @ + 1]
  <2>1. job \in [Jobs -> JobTypes]
    BY DEF TypeOK
  <2>2. job' = [job EXCEPT ![j] = [job[j] EXCEPT !.at = "mailed", !.mailing = v]]
    BY <1>3, <2>1 DEF Email
  <2>3. job'[j].at = "mailed" /\ job'[j].mailing = v
    BY <2>1, <2>2 DEF JobTypes
  <2> QED
    BY <1>3, <2>3 DEF Email, Invite, data
<1> QED
  BY <1>1, <1>2, <1>3, StepCases

LEMMA Growing ==
    ASSUME TypeOK, SendsOK, [Next]_vars
    PROVE  Grows
<1>0. request \in [Volunteers -> {"none", "unsent", "sent"}]
  BY DEF TypeOK
<1>1. ASSUME NEW j \in Jobs, JobStep(j)
      PROVE  Grows
  <2>0. Own(j)
    BY DEF SendsOK, Own
  <2>s. CASE StartSend(j)
    <3>1. ~overlapped' => ~overlapped
      BY <2>s, Zenon DEF StartSend
    <3>2. UNCHANGED <<rota, request, answered, doubtful>>
      BY <2>s DEF StartSend, data
    <3> QED
      BY <3>1, <3>2 DEF Grows
  <2>1. CASE Expire(j) \/ ResolveRota(j) \/ ReadRequests(j) \/ SelectRecipients(j)
             \/ StopSend(j)
    <3>1. UNCHANGED <<data, past>>
      BY <2>1 DEF Expire, ResolveRota, ReadRequests, SelectRecipients, StopSend
    <3> QED
      BY <3>1 DEF data, past, Grows
  <2>2. ASSUME NEW v \in job[j].left, Outcome(j, v)
        PROVE  Grows
    <3>1. \A u \in Volunteers : SentAt(v)[u] \in {request[u], "sent"}
      BY <1>0 DEF SentAt
    <3> QED
      BY <2>0, <2>2, <3>1, OutcomeEffect DEF Grows
  <2>3. ASSUME NEW v \in job[j].left, Email(j, v)
        PROVE  Grows
    BY <2>3 DEF Email, data, Grows
  <2> QED
    BY <1>1, <2>0, <2>s, <2>1, <2>2, <2>3, StepCases
<1>2. ASSUME NEW j \in Jobs, Age(j)
      PROVE  Grows
  BY <1>2 DEF Age, data, past, Grows
<1>3. CASE Restart
  BY <1>3 DEF Restart, data, Grows
<1>4. CASE RoundStep
  BY <1>0, <1>4 DEF RoundStep, Mint, Allocate, Discard, AnswerRequest, MoveOnRoster, past,
                   Grows
<1>5. CASE UNCHANGED vars
  BY <1>5 DEF vars, data, past, Grows
<1> QED
  BY <1>1, <1>2, <1>3, <1>4, <1>5, NextCases

LEMMA JobStepOwn ==
    ASSUME IndInv, Grows, NEW j \in Jobs, JobStep(j)
    PROVE  Typed /\ Others(j) /\ Own(j)'
<1>0. TypeOK /\ Own(j) /\ HasLinks /\ Alone /\ StampIsTrue
  BY DEF IndInv, SendsOK, Own
<1>1. ASSUME NEW v \in job[j].left, Outcome(j, v)
      PROVE  Typed /\ Others(j) /\ Own(j)'
  <2>1. \A u \in Volunteers \ {v} : invited'[u] = invited[u]
    BY <1>0, <1>1, OutcomeEffect DEF TypeOK
  <2> QED
    BY <1>0, <1>1, <2>1, OutcomeEffect, CountOwn
<1> QED
  BY <1>0, <1>1, StepCases, StartOwn, ExpireOwn, ResolveOwn, ReadOwn, SelectOwn, StopOwn,
     MailOwn

\* Whoever was running runs on or ends, and one that starts was not.
LEMMA RunsOn ==
    ASSUME IndInv, Grows, [Next]_vars, NEW k \in Jobs, Running(k)'
    PROVE  Running(k) \/ StartSend(k)
<1>0. job \in [Jobs -> JobTypes] /\ TypeOK
  BY DEF IndInv, TypeOK
<1>1. ASSUME NEW j \in Jobs, JobStep(j)
      PROVE  Running(k) \/ StartSend(k)
  <2>1. CASE j = k
    BY <1>1, <2>1 DEF JobStep, Step, Expire, ResolveRota, ReadRequests, RefuseSend,
       SelectRecipients, NoAddress, Email, EmailFails, Stamp, StampFails, FinishSend,
       Running
  <2>2. CASE j # k
    BY <1>1, <2>2, JobStepOwn DEF Others, Running
  <2> QED
    BY <2>1, <2>2
<1>2. ASSUME UNCHANGED job
      PROVE  Running(k)
  BY <1>2 DEF Running
<1>3. CASE Restart
  BY <1>0, <1>3 DEF Restart, Running
<1>4. (\E j \in Jobs : JobStep(j)) \/ Restart \/ UNCHANGED job
  BY NextCases DEF Age, RoundStep, Mint, Allocate, Discard, AnswerRequest, MoveOnRoster,
     vars
<1> QED
  BY <1>1, <1>2, <1>3, <1>4

-----------------------------------------------------------------------------
(* The invariants. *)

LEMMA SendsStep ==
    ASSUME IndInv, [Next]_vars
    PROVE  SendsOK' /\ Typed
<1>0. /\ job \in [Jobs -> JobTypes] /\ page \in [Jobs -> PageTypes]
      /\ TypeOK /\ Grows /\ \A k \in Jobs : Own(k)
  BY Growing DEF IndInv, TypeOK, SendsOK, Own
<1>1. ASSUME NEW j \in Jobs, JobStep(j)
      PROVE  SendsOK' /\ Typed
  <2>1. Typed /\ Others(j) /\ Own(j)'
    BY <1>0, <1>1, JobStepOwn
  <2>2. UNCHANGED invited \/ Running(j)
    BY <1>0, <1>1, InvitedBy DEF Running
  <2>3. ASSUME NEW k \in Jobs \ {j}
        PROVE  Own(k)'
    <3>1. ~overlapped' => ~Running(k)
                          \/ \A v \in Volunteers \ doubtful' : invited'[v] = invited[v]
      BY <1>0, <2>2 DEF IndInv, Alone, Grows
    <3> QED
      BY <1>0, <2>1, <3>1, Frame DEF Others
  <2> QED
    BY <2>1, <2>3 DEF SendsOK, Own
<1>2. ASSUME NEW j \in Jobs, Age(j)
      PROVE  SendsOK' /\ Typed
  <2>1. /\ page' = [page EXCEPT ![j] = [page[j] EXCEPT !.aged = TRUE]]
        /\ UNCHANGED <<data, job, past>>
    BY <1>0, <1>2 DEF Age
  <2>2. [page[j] EXCEPT !.aged = TRUE] \in PageTypes
    BY <1>0 DEF PageTypes
  <2>3. Typed
    BY <1>0, <2>1, <2>2 DEF Typed
  <2>4. /\ page'[j].on = page[j].on /\ page'[j].done = page[j].done
        /\ page'[j].total = page[j].total /\ page'[j].finished = page[j].finished
        /\ \A k \in Jobs \ {j} : page'[k] = page[k]
    BY <1>0, <2>1 DEF PageTypes
  <2>5. PageOK(j)'
    BY <1>0, <2>1, <2>4 DEF Own, PageOK, Running, Outcomes, Total
  <2>6. JobOK(j)' /\ AskedOK(j)' /\ InviteOK(j)' /\ ReminderOK(j)'
    BY <1>0, <2>1 DEF Own, JobOK, AskedOK, InviteOK, ReminderOK, data, past
  <2>7. \A k \in Jobs \ {j} : Own(k)'
    BY <1>0, <2>1, <2>4, Frame DEF past
  <2> QED
    BY <2>3, <2>5, <2>6, <2>7 DEF SendsOK, Own
<1>3. CASE Restart
  <2>1. /\ page' = [j \in Jobs |-> NoPage]
        /\ job' = [j \in Jobs |-> IF Running(j) THEN [IdleJob EXCEPT !.at = "done"]
                                  ELSE job[j]]
        /\ UNCHANGED <<data, invited, overlapped>>
    BY <1>3 DEF Restart
  <2> DEFINE new == [IdleJob EXCEPT !.at = "done"]
  <2>2. /\ new \in JobTypes /\ new.at = "done" /\ new.chosen = {} /\ new.left = {}
        /\ new.sent = {} /\ new.failed = {} /\ new.mailing = None /\ new.unsent = {}
        /\ new.asked = {} /\ new.before = {}
    BY IdleType, ZenonT(60) DEF IdleJob, JobTypes
  <2> HIDE DEF new
  <2>3. \A j \in Jobs : page'[j] = NoPage /\ job'[j] = IF Running(j) THEN new ELSE job[j]
    BY <2>1 DEF new
  <2>4. Typed
    BY <1>0, <2>1, <2>2, NoPageType DEF Typed, new
  <2>5. ASSUME NEW j \in Jobs, Running(j)
        PROVE  Own(j)'
    <3>1. JobOK(j)' /\ AskedOK(j)' /\ InviteOK(j)' /\ ReminderOK(j)'
      BY <2>2, <2>3, <2>5 DEF JobOK, AskedOK, InviteOK, ReminderOK
    <3>2. PageOK(j)'
      BY <2>3 DEF PageOK, NoPage
    <3> QED
      BY <3>1, <3>2 DEF Own
  <2>6. ASSUME NEW j \in Jobs, ~Running(j)
        PROVE  Own(j)'
    BY <1>0, <2>3, <2>6, Frame
  <2> QED
    BY <2>4, <2>5, <2>6 DEF SendsOK, Own
<1>4. ASSUME UNCHANGED <<job, page, invited>>
      PROVE  SendsOK' /\ Typed
  <2>1. \A k \in Jobs : Own(k)'
    BY <1>0, <1>4, Frame
  <2> QED
    BY <1>0, <1>4, <2>1 DEF SendsOK, Own, Typed
<1>5. \/ \E j \in Jobs : JobStep(j) \/ Age(j)
      \/ Restart
      \/ UNCHANGED <<job, page, invited>>
  BY NextCases DEF RoundStep, Mint, Allocate, Discard, AnswerRequest, MoveOnRoster, past,
     vars
<1> QED
  BY <1>1, <1>2, <1>3, <1>4, <1>5

LEMMA AloneStep ==
    ASSUME IndInv, [Next]_vars
    PROVE  Alone'
<1>0. Grows /\ Alone
  BY Growing DEF IndInv
<1>1. CASE \E j \in Jobs : StartSend(j)
  <2>1. PICK j \in Jobs : StartSend(j)
    BY <1>1
  <2>2. ~overlapped' => \A k \in Jobs : ~Running(k)
    BY <2>1, Zenon DEF StartSend
  <2>3. \A k \in Jobs \ {j} : job'[k] = job[k]
    BY <2>1, StartEffect DEF IndInv
  <2>4. ~overlapped' => \A k \in Jobs \ {j} : ~Running(k)'
    BY <2>2, <2>3 DEF Running
  <2> QED
    BY <2>4 DEF Alone
<1>2. CASE ~ \E j \in Jobs : StartSend(j)
  <2>1. \A k \in Jobs : Running(k)' => Running(k)
    BY <1>0, <1>2, RunsOn
  <2> QED
    BY <1>0, <2>1 DEF Alone, Grows
<1> QED
  BY <1>1, <1>2

\* What a step that is not a send's does to who has a link and who was invited.
LEMMA RoundEffect ==
    ASSUME TypeOK, [Next]_vars, ~ \E j \in Jobs : JobStep(j)
    PROVE  /\ UNCHANGED <<invited, overlapped>>
           /\ \/ rota' = "discarded" /\ \A v \in Volunteers : request'[v] = "none"
              \/ /\ rota' # "discarded" => rota # "discarded"
                 /\ \A v \in Volunteers :
                       \/ request'[v] = request[v]
                       \/ request[v] = "none" /\ rota = "unallocated"
                 /\ \A v \in Volunteers : request'[v] = "none" => request[v] = "none"
                 /\ \A v \in answered' : v \in answered \/ request[v] # "none"
<1>0. request \in [Volunteers -> {"none", "unsent", "sent"}]
  BY DEF TypeOK
<1>1. CASE Restart \/ (\E j \in Jobs : Age(j)) \/ UNCHANGED vars
  BY <1>1 DEF Restart, Age, vars, data, past
<1>2. CASE Discard
  BY <1>2 DEF Discard, past
<1>3. CASE Mint
  BY <1>0, <1>3 DEF Mint, past
<1>4. CASE Allocate \/ (\E v \in Volunteers : AnswerRequest(v))
           \/ (\E v \in Movers : MoveOnRoster(v))
  BY <1>4 DEF Allocate, AnswerRequest, MoveOnRoster, past
<1> QED
  BY <1>1, <1>2, <1>3, <1>4, NextCases DEF RoundStep

LEMMA RestOfType ==
    ASSUME IndInv, [Next]_vars
    PROVE  TypeOK'
<1>0. TypeOK /\ Typed
  BY SendsStep DEF IndInv
<1>1. invited' \in [Volunteers -> Nat]
  <2>1. CASE \E j \in Jobs : JobStep(j)
    <3>1. PICK j \in Jobs : JobStep(j)
      BY <2>1
    <3>2. Own(j)
      BY DEF IndInv, SendsOK, Own
    <3> QED
      BY <1>0, <3>1, <3>2, InvitedBy DEF TypeOK
  <2>2. CASE ~ \E j \in Jobs : JobStep(j)
    BY <1>0, <2>2, RoundEffect DEF TypeOK
  <2> QED
    BY <2>1, <2>2
<1>2. /\ rota' \in {"unallocated", "allocated", "discarded"}
      /\ request' \in [Volunteers -> {"none", "unsent", "sent"}]
      /\ answered' \subseteq Volunteers
      /\ addressed' \subseteq Volunteers
      /\ roster' \in [Volunteers -> {"active", "inactive", "gone"}]
  <2>1. ASSUME NEW j \in Jobs, JobStep(j)
        PROVE  UNCHANGED <<rota, answered, roster, addressed>>
               /\ request' \in [Volunteers -> {"none", "unsent", "sent"}]
    <3>0. Own(j)
      BY DEF IndInv, SendsOK, Own
    <3>1. \A v : SentAt(v) \in [Volunteers -> {"none", "unsent", "sent"}]
      BY <1>0 DEF SentAt, TypeOK
    <3>2. UNCHANGED request \/ \E v : request' = SentAt(v)
      BY <1>0, <2>1, <3>0, StepCases, OutcomeEffect
         DEF StartSend, Expire, ResolveRota, ReadRequests, SelectRecipients, StopSend,
             Email, data
    <3> QED
      BY <1>0, <2>1, <3>0, <3>1, <3>2, InvitedBy DEF TypeOK
  <2>2. CASE Restart \/ (\E j \in Jobs : Age(j)) \/ UNCHANGED vars
    BY <1>0, <2>2 DEF Restart, Age, vars, data, TypeOK
  <2>3. CASE RoundStep
    BY <1>0, <2>3, PeopleAssumption
       DEF RoundStep, Mint, Allocate, Discard, AnswerRequest, MoveOnRoster, TypeOK
  <2> QED
    BY <1>0, <2>1, <2>2, <2>3, NextCases DEF TypeOK
<1>3. doubtful' \subseteq Volunteers /\ overlapped' \in BOOLEAN
  <2>1. ASSUME NEW j \in Jobs, JobStep(j)
        PROVE  doubtful' \subseteq Volunteers /\ overlapped' \in BOOLEAN
    <3>0. Own(j) /\ job[j].left \subseteq Volunteers
      BY <1>0 DEF IndInv, SendsOK, Own, TypeOK, JobTypes
    <3>1. CASE StartSend(j)
      BY <1>0, <3>1 DEF StartSend, TypeOK
    <3>2. CASE Expire(j) \/ ResolveRota(j) \/ ReadRequests(j) \/ SelectRecipients(j)
               \/ StopSend(j)
      BY <1>0, <3>2 DEF Expire, ResolveRota, ReadRequests, SelectRecipients, StopSend,
                        past, TypeOK
    <3>3. ASSUME NEW v \in job[j].left, Outcome(j, v)
          PROVE  doubtful' \subseteq Volunteers /\ overlapped' \in BOOLEAN
      BY <1>0, <3>0, <3>3, OutcomeEffect DEF TypeOK
    <3>4. ASSUME NEW v, Email(j, v)
          PROVE  doubtful' \subseteq Volunteers /\ overlapped' \in BOOLEAN
      BY <1>0, <3>4 DEF Email, TypeOK
    <3> QED
      BY <1>0, <2>1, <3>0, <3>1, <3>2, <3>3, <3>4, StepCases
  <2>2. CASE Restart
    <3>1. \A j \in Jobs : job[j].at = "mailed" => job[j].mailing \in Volunteers
      BY <1>0 DEF IndInv, SendsOK, JobOK, TypeOK, JobTypes
    <3> QED
      BY <1>0, <2>2, <3>1 DEF Restart, TypeOK
  <2>3. ASSUME UNCHANGED past
        PROVE  doubtful' \subseteq Volunteers /\ overlapped' \in BOOLEAN
    BY <1>0, <2>3 DEF past, TypeOK
  <2> QED
    BY <2>1, <2>2, <2>3, NextCases
       DEF Age, RoundStep, Mint, Allocate, Discard, AnswerRequest, MoveOnRoster, vars
<1> QED
  BY <1>0, <1>1, <1>2, <1>3 DEF TypeOK, Typed, JobTypes, PageTypes

LEMMA RequestBy ==
    ASSUME TypeOK, NEW j \in Jobs, Own(j), JobStep(j), NEW v \in Volunteers
    PROVE  /\ request[v] # "none" => request'[v] # "none"
           /\ request[v] = "none" => request'[v] = "none" \/ request'[v] = "sent"
           /\ request'[v] = "unsent" => request[v] = "unsent"
           /\ request[v] = "none" /\ request'[v] # "none" => v \in job[j].left
<1>0. request \in [Volunteers -> {"none", "unsent", "sent"}]
  BY DEF TypeOK
<1>1. UNCHANGED request \/ \E u \in job[j].left : request' = SentAt(u)
  BY StepCases, OutcomeEffect
     DEF StartSend, Expire, ResolveRota, ReadRequests, SelectRecipients, StopSend, Email,
         data
<1> QED
  BY <1>0, <1>1 DEF SentAt

LEMMA LinksStep ==
    ASSUME IndInv, [Next]_vars
    PROVE  HasLinks'
<1>0. /\ TypeOK /\ HasLinks /\ \A j \in Jobs : Own(j)
      /\ answered \subseteq Volunteers
  BY DEF IndInv, SendsOK, Own, TypeOK
<1>1. ASSUME NEW j \in Jobs, JobStep(j)
      PROVE  HasLinks'
  <2>1. UNCHANGED <<rota, answered>>
    BY <1>0, <1>1, InvitedBy
  <2>2. ASSUME rota # "discarded", NEW v \in Volunteers, request'[v] = "none"
        PROVE  invited'[v] = 0
    <3>1. request[v] = "none"
      BY <1>0, <1>1, <2>2, RequestBy
    <3>2. v \notin job[j].left
      BY <1>0, <2>2, <3>1 DEF Own, JobOK, AskedOK
    <3>3. invited'[v] = invited[v]
      BY <1>0, <1>1, <3>2, InvitedBy DEF TypeOK
    <3> QED
      BY <1>0, <2>2, <3>1, <3>3 DEF HasLinks
  <2>3. \A v \in answered : rota # "discarded" => request'[v] # "none"
    BY <1>0, <1>1, RequestBy DEF HasLinks
  <2> QED
    BY <2>1, <2>2, <2>3 DEF HasLinks
<1>2. CASE ~ \E j \in Jobs : JobStep(j)
  <2>1. answered' \subseteq Volunteers
    BY RestOfType DEF TypeOK
  <2> QED
    BY <1>0, <1>2, <2>1, RoundEffect DEF HasLinks
<1> QED
  BY <1>1, <1>2

\* Whoever waits for the stamp gets it, or is in doubt.
LEMMA MailedStays ==
    ASSUME IndInv, [Next]_vars, NEW k \in Jobs, job[k].at = "mailed"
    PROVE  LET v == job[k].mailing
           IN  \/ job'[k].at = "mailed" /\ job'[k].mailing = v
               \/ v \in doubtful'
               \/ request'[v] # "unsent"
<1>0. /\ TypeOK /\ Grows /\ \A j \in Jobs : Own(j)
      /\ job \in [Jobs -> JobTypes] /\ request \in [Volunteers -> {"none", "unsent", "sent"}]
  BY Growing DEF IndInv, SendsOK, Own, TypeOK
<1>1. ASSUME NEW j \in Jobs \ {k}, JobStep(j)
      PROVE  job'[k] = job[k]
  BY <1>0, <1>1, JobStepOwn DEF Others
<1>2. CASE JobStep(k)
  <2>1. Expire(k) \/ \E v \in job[k].left : Outcome(k, v)
    BY <1>0, <1>2, StepCases
       DEF StartSend, ResolveRota, ReadRequests, SelectRecipients, Email, Own, JobOK
  <2>2. CASE Expire(k)
    BY <1>0, <2>2 DEF Expire, JobTypes
  <2>3. ASSUME NEW v \in job[k].left, Outcome(k, v)
        PROVE  v = job[k].mailing /\ (v \in doubtful' \/ request'[v] # "unsent")
    <3>1. v \in Volunteers
      BY <1>0, SMTT(30) DEF JobTypes
    <3>2. SentAt(v)[v] = "sent"
      BY <1>0, <3>1 DEF SentAt
    <3>3. v = job[k].mailing /\ (v \in doubtful' \/ request' = SentAt(v))
      BY <1>0, <2>3, OutcomeEffect
    <3> QED
      BY <3>2, <3>3
  <2> QED
    BY <2>1, <2>2, <2>3
<1>3. CASE Restart
  BY <1>3 DEF Restart
<1>4. (\E j \in Jobs : JobStep(j)) \/ Restart \/ UNCHANGED job
  BY NextCases DEF Age, RoundStep, Mint, Allocate, Discard, AnswerRequest, MoveOnRoster,
     vars
<1> QED
  BY <1>1, <1>2, <1>3, <1>4

LEMMA StampStep ==
    ASSUME IndInv, [Next]_vars
    PROVE  StampIsTrue'
<1>0. /\ TypeOK /\ HasLinks /\ StampIsTrue /\ Grows /\ \A j \in Jobs : Own(j)
      /\ invited \in [Volunteers -> Nat]
  BY Growing DEF IndInv, SendsOK, Own, TypeOK
<1> SUFFICES ASSUME NEW v \in Volunteers, request'[v] = "unsent", invited'[v] > 0
             PROVE  \/ v \in doubtful'
                    \/ \E j \in Jobs : job'[j].at = "mailed" /\ job'[j].mailing = v
  BY DEF StampIsTrue
<1>1. CASE request[v] = "unsent" /\ invited[v] > 0
  <2>1. v \in doubtful \/ \E k \in Jobs : job[k].at = "mailed" /\ job[k].mailing = v
    BY <1>0, <1>1 DEF StampIsTrue
  <2>2. CASE v \in doubtful
    BY <1>0, <2>2 DEF Grows
  <2>3. ASSUME NEW k \in Jobs, job[k].at = "mailed", job[k].mailing = v
        PROVE  \/ v \in doubtful'
               \/ \E j \in Jobs : job'[j].at = "mailed" /\ job'[j].mailing = v
    BY <2>3, MailedStays
  <2> QED
    BY <2>1, <2>2, <2>3
<1>2. ASSUME request[v] # "unsent" \/ ~(invited[v] > 0), NEW j \in Jobs, JobStep(j)
      PROVE  \/ v \in doubtful'
             \/ \E k \in Jobs : job'[k].at = "mailed" /\ job'[k].mailing = v
  <2>1. request[v] = "unsent"
    BY <1>0, <1>2, RequestBy
  <2>2. invited'[v] # invited[v]
    BY <1>2, <2>1
  <2> QED
    BY <1>0, <1>2, <2>2, InvitedBy
<1>3. ASSUME request[v] # "unsent" \/ ~(invited[v] > 0), ~ \E j \in Jobs : JobStep(j)
      PROVE  FALSE
  BY <1>0, <1>3, RoundEffect DEF HasLinks
<1> QED
  BY <1>1, <1>2, <1>3

LEMMA OnceStep ==
    ASSUME IndInv, [Next]_vars
    PROVE  InvitedOnce'
<1>0. /\ TypeOK /\ InvitedOnce /\ Grows /\ \A j \in Jobs : Own(j)
      /\ invited \in [Volunteers -> Nat]
  BY Growing DEF IndInv, SendsOK, Own, TypeOK
<1>1. ASSUME NEW j \in Jobs, JobStep(j)
      PROVE  InvitedOnce'
  <2>1. CASE UNCHANGED invited
    BY <1>0, <2>1 DEF InvitedOnce, Grows
  <2>2. ASSUME NEW v \in job[j].left, job[j].mode = "round", job[j].at = "sending",
               invited' = [invited EXCEPT ![v] = @ + 1]
        PROVE  InvitedOnce'
    <3>1. v \in Volunteers /\ job[j].mailing # v
      BY <1>0, <2>2, PeopleAssumption DEF TypeOK, JobTypes, Own, JobOK
    <3>2. ~overlapped /\ v \notin doubtful => invited[v] = 0
      BY <1>0, <2>2, <3>1 DEF Own, InviteOK
    <3>3. \A u \in Volunteers : invited'[u] = IF u = v THEN invited[v] + 1 ELSE invited[u]
      BY <1>0, <2>2
    <3> QED
      BY <1>0, <3>2, <3>3 DEF InvitedOnce, Grows
  <2> QED
    BY <1>0, <1>1, <2>1, <2>2, InvitedBy
<1>2. CASE ~ \E j \in Jobs : JobStep(j)
  BY <1>0, <1>2, RoundEffect DEF InvitedOnce, Grows
<1> QED
  BY <1>1, <1>2

LEMMA InitInv ==
    ASSUME Init
    PROVE  IndInv
<1>1. /\ \A j \in Jobs : job[j] = IdleJob /\ page[j] = NoPage
      /\ job \in [Jobs -> JobTypes] /\ page \in [Jobs -> PageTypes]
  BY IdleType, NoPageType DEF Init
<1>2. TypeOK
  <2>1. /\ request \in [Volunteers -> {"none", "unsent", "sent"}]
        /\ roster \in [Volunteers -> {"active", "inactive", "gone"}]
        /\ invited \in [Volunteers -> Nat]
    BY DEF Init
  <2> QED
    BY <1>1, <2>1, PeopleAssumption DEF Init, TypeOK
<1>3. ASSUME NEW j \in Jobs
      PROVE  Own(j)
  <2>1. JobOK(j)
    BY <1>1 DEF JobOK, IdleJob
  <2>2. PageOK(j)
    BY <1>1 DEF PageOK, IdleJob, NoPage
  <2>3. AskedOK(j) /\ InviteOK(j) /\ ReminderOK(j)
    BY <1>1 DEF AskedOK, InviteOK, ReminderOK, IdleJob
  <2> QED
    BY <2>1, <2>2, <2>3 DEF Own
<1>4. \A j \in Jobs : ~Running(j)
  BY <1>1 DEF Running, IdleJob
<1>5. \A v \in Volunteers : invited[v] = 0
  BY DEF Init
<1>6. Alone /\ StampIsTrue /\ InvitedOnce
  BY <1>4, <1>5 DEF Alone, StampIsTrue, InvitedOnce
<1>7. HasLinks
  BY <1>5 DEF HasLinks, Init
<1> QED
  BY <1>2, <1>3, <1>6, <1>7 DEF IndInv, SendsOK, Own

LEMMA StepInv ==
    ASSUME IndInv, [Next]_vars
    PROVE  IndInv'
BY RestOfType, SendsStep, AloneStep, LinksStep, StampStep, OnceStep DEF IndInv

\* The invariant the others follow from.
THEOREM Inductive == Spec => []IndInv
<1>1. Init => IndInv
  BY InitInv
<1>2. IndInv /\ [Next]_vars => IndInv'
  BY StepInv
<1> QED
  BY <1>1, <1>2, PTL DEF Spec

\* Every variable has its type: no page counts more emails than there are volunteers.
THEOREM TypeCorrect == Spec => []TypeOK
<1>1. IndInv => TypeOK
  BY DEF IndInv
<1> QED
  BY <1>1, Inductive, PTL

\* sent_at is true at every point, for any number of sends (sendAvailabilityEmails).
THEOREM StampsAreTrue == Spec => []StampIsTrue
<1>1. IndInv => StampIsTrue
  BY DEF IndInv
<1> QED
  BY <1>1, Inductive, PTL

\* Sends that do not overlap invite nobody twice but whom one left in doubt.
THEOREM InvitesOnce == Spec => []InvitedOnce
<1>1. IndInv => InvitedOnce
  BY DEF IndInv
<1> QED
  BY <1>1, Inductive, PTL

\* The lists and the page of a send account for everybody it is for.
THEOREM Accounts == Spec => []ReportAccounts
<1>1. ASSUME IndInv, NEW j \in Jobs
      PROVE  /\ job[j].sent \cap job[j].failed = {}
             /\ job[j].chosen \ job[j].left = job[j].sent \cup job[j].failed
             /\ Readable(j) /\ Running(j) => page[j].done = Outcomes(j)
             /\ Readable(j) => (page[j].finished <=> ~Running(j))
             /\ Readable(j) /\ page[j].finished /\ page[j].total # 0 =>
                   page[j].done = page[j].total
  BY <1>1 DEF IndInv, SendsOK, JobOK, PageOK, Readable
<1>2. IndInv => ReportAccounts
  BY <1>1 DEF ReportAccounts
<1> QED
  BY <1>2, Inductive, PTL

\* Nobody is reminded whose group had an answer before (groupsThatHaveAnswered).
THEOREM RemindersSkip == Spec => ReminderSkipsAnswered
<1>1. ASSUME IndInv, [Next]_vars, NEW j \in Jobs, NEW v \in Volunteers, NEW w \in Volunteers,
             job[j].at = "read", job'[j].at = "sending", job[j].mode = "reminder",
             v \in job'[j].chosen, Group[v] = Group[w], roster[w] # "gone",
             rota = "unallocated"
      PROVE  w \notin job[j].before
  <2>0. /\ TypeOK /\ Grows /\ \A k \in Jobs : Own(k)
        /\ job \in [Jobs -> JobTypes]
    BY <1>1, Growing DEF IndInv, SendsOK, Own, TypeOK
  <2>1. JobStep(j)
    <3>1. ASSUME NEW k \in Jobs \ {j}, JobStep(k)
          PROVE  FALSE
      BY <1>1, <2>0, <3>1, JobStepOwn DEF Others
    <3>2. ~Restart
      BY <1>1, <2>0 DEF Restart, Running, IdleJob
    <3> QED
      BY <1>1, <3>1, <3>2, NextCases
         DEF Age, RoundStep, Mint, Allocate, Discard, AnswerRequest, MoveOnRoster, vars
  <2>2. SelectRecipients(j)
    <3>1. ~ \E u \in job[j].left : Outcome(j, u) \/ Email(j, u)
      BY <1>1, <2>0, OutcomeEffect DEF Email
    <3>2. ~StopSend(j)
      BY <1>1, <2>0, IdleType DEF StopSend, IdleJob
    <3>3. ~Expire(j)
      BY <1>1, <2>0 DEF Expire, JobTypes
    <3> QED
      BY <1>1, <2>0, <2>1, <3>1, <3>2, <3>3, StepCases
         DEF StartSend, ResolveRota, ReadRequests
  <2>3. job'[j].chosen = Recipients(j)
    <3> DEFINE who == Recipients(j)
               new == [job[j] EXCEPT !.at = "sending", !.chosen = who, !.left = who,
                                     !.asked = {}, !.unsent = {}, !.before = {}]
    <3> HIDE DEF who
    <3>1. job' = [job EXCEPT ![j] = new]
      BY <1>1, <2>0, <2>2 DEF SelectRecipients, who
    <3>2. new.chosen = who
      BY <2>0 DEF JobTypes
    <3> HIDE DEF new
    <3> QED
      BY <2>0, <3>1, <3>2 DEF who
  <2>4. ~GroupReplied(v, job[j].asked)
    BY <1>1, <2>3 DEF Recipients
  <2>5. w \in job[j].before => w \in job[j].asked /\ w \in answered
    BY <1>1, <2>0 DEF Own, ReminderOK
  <2> QED
    BY <1>1, <2>4, <2>5 DEF GroupReplied
<1>2. IndInv /\ [Next]_vars =>
        [\A j \in Jobs, v, w \in Volunteers :
            /\ job[j].at = "read" /\ job'[j].at = "sending" /\ job[j].mode = "reminder"
            /\ v \in job'[j].chosen /\ Group[v] = Group[w] /\ roster[w] # "gone"
            /\ rota = "unallocated"
            => w \notin job[j].before]_vars
  BY <1>1
<1> QED
  BY <1>2, Inductive, PTL DEF Spec, ReminderSkipsAnswered
=============================================================================
