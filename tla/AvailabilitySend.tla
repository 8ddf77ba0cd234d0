--------------------------- MODULE AvailabilitySend ---------------------------
(***************************************************************************)
(* Emailing the links of an availability round (pkg/core/services/         *)
(* availabilitySend.go, pkg/api/gmailsend.go, sendjobs.go).  A send comes  *)
(* back from Google's consent screen and runs as a job of its own, one     *)
(* email every three seconds, while its page polls a register kept in      *)
(* memory.  What a send has done is in sent_at, stamped after each email:  *)
(* a restart loses the jobs and the register and keeps the stamps.         *)
(*                                                                         *)
(* The context of a job is over after fifteen minutes.  Its reads and its  *)
(* stamps heed that; the call to Gmail takes no context.                   *)
(***************************************************************************)
EXTENDS Naturals, FiniteSets

CONSTANTS
    Volunteers,
    Movers,    \* the volunteers whose place on the roster changes
    Addressings, \* who may have an email address
    Group,     \* the group each volunteer is in
    Jobs,      \* sends
    None       \* a field left empty

ASSUME PeopleAssumption ==
    /\ Movers \subseteq Volunteers /\ Addressings \subseteq SUBSET Volunteers
    /\ None \notin Volunteers
    /\ IsFiniteSet(Volunteers)

Modes == {"round", "reminder", "resend"}

VARIABLES
    rota,      \* rotation: its life
    request,   \* availability_request: "none", or what sent_at says
    answered,  \* the volunteers with an answer on record
    roster,    \* the sheet: active, inactive, or gone from it
    addressed, \* the volunteers with an email address on it
    job,       \* how far each send has got
    page,      \* sendJobs: what the page of each send can read
    invited,   \* history: how often a round send has emailed each volunteer
    doubtful,  \* history: of whom no send can tell whether an email went out
    overlapped \* history: two sends have run at once

data == <<rota, request, answered, roster, addressed>>
past == <<invited, doubtful, overlapped>>
vars == <<data, job, page, past>>

-----------------------------------------------------------------------------
(* The register of sends. *)

NoPage == [on |-> FALSE, aged |-> FALSE, done |-> 0, total |-> 0, finished |-> FALSE]

IdleJob ==
    [at |-> "idle", mode |-> "round", who |-> None, unsent |-> {}, asked |-> {},
     before |-> {}, chosen |-> {}, left |-> {}, mailing |-> None,
     sent |-> {}, failed |-> {}, late |-> FALSE]

Running(j) == job[j].at \in {"started", "resolved", "read", "sending", "mailed"}

\* Mutant: the outcome being recorded is counted twice.
CountedTwice(j, done, total) ==
    IF page[j].on THEN [page EXCEPT ![j].done = done + 1, ![j].total = total] ELSE page

\* progress: a job that was swept is not brought back.
Progressed(j, done, total) ==
    IF page[j].on THEN [page EXCEPT ![j].done = done, ![j].total = total] ELSE page

\* Mutant: only a send that got to its emails is closed off.
FinishedIfSent(j) ==
    IF page[j].on /\ job[j].at = "sending"
    THEN [page EXCEPT ![j].finished = TRUE] ELSE page

\* finish.
Finished(j) == IF page[j].on THEN [page EXCEPT ![j].finished = TRUE] ELSE page

Readable(j) == page[j].on /\ ~page[j].aged

-----------------------------------------------------------------------------
(* Starting. *)

\* validateSendState: what a send may be asked to do.
Instruction(mode, who) == mode \in Modes /\ (mode = "resend" <=> who # None)

\* The admin gave the instruction, and it came back from the consent screen in
\* time, signed and for the same admin; one that is declined, expired or altered,
\* or a code that is not exchanged, leaves nothing behind (completeGmailSend).
\* startSend registers the job, and jobs past their retention are swept.
StartSend(j) ==
    /\ job[j].at = "idle"
    /\ \E mode \in Modes, who \in Volunteers \cup {None} :
          /\ Instruction(mode, who)
          /\ job' = [job EXCEPT ![j] = [IdleJob EXCEPT
                        !.at = "started", !.mode = mode, !.who = who,
                        !.before = IF mode = "reminder" THEN answered ELSE {}]]
    /\ page' = [k \in Jobs |-> IF k = j THEN [NoPage EXCEPT !.on = TRUE]
                               ELSE IF page[k].aged THEN NoPage ELSE page[k]]
    /\ overlapped' = (overlapped \/ \E k \in Jobs : Running(k))
    /\ UNCHANGED <<data, invited, doubtful>>

-----------------------------------------------------------------------------
(* Whom a send is for. *)

\* The send returns, with a report or with the error that stopped it.
StopSend(j) ==
    /\ job' = [job EXCEPT ![j] = [IdleJob EXCEPT !.at = "done"]]
    /\ page' = Finished(j)
    /\ UNCHANGED <<data, past>>

\* resolveRota: a rota that is not allocated is sent for.
ResolveRota(j) ==
    /\ job[j].at = "started" /\ ~job[j].late /\ rota = "unallocated"
    /\ job' = [job EXCEPT ![j].at = "resolved"]
    /\ UNCHANGED <<data, page, past>>

ReadRequests(j) ==
    /\ job[j].at = "resolved" /\ ~job[j].late
    /\ job' = [job EXCEPT ![j].at = "read",
                  ![j].asked  = {v \in Volunteers : request[v] # "none"},
                  ![j].unsent = {v \in Volunteers : request[v] = "unsent"}]
    /\ UNCHANGED <<data, page, past>>

\* The rota is allocated or gone, the volunteer is not to be found, or a read
\* fails, as every read does once the context is over.
RefuseSend(j) ==
    /\ job[j].at \in {"started", "resolved", "read"}
    /\ StopSend(j)

\* Mutant: a reply counts for the volunteer who sent it only.
OwnReply(v, asked) == v \in asked /\ v \in answered

\* groupsThatHaveAnswered: a reply of a member on the sheet, to a request read.
GroupReplied(v, asked) ==
    \E w \in asked : Group[w] = Group[v] /\ w \in answered /\ roster[w] # "gone"

\* Mutant: a round send emails everybody with a link.
Everybody(j) == {v \in job[j].asked : roster[v] = "active"}

\* selectRecipients, for a round or a reminder.
Recipients(j) ==
    {v \in job[j].asked :
        /\ roster[v] = "active"
        /\ IF job[j].mode = "round" THEN v \in job[j].unsent
           ELSE v \notin job[j].unsent /\ ~GroupReplied(v, job[j].asked)}

\* The volunteer a resend names has a request and is on the sheet.
CanResend(j) == job[j].who \in job[j].asked /\ roster[job[j].who] # "gone"

SelectRecipients(j) ==
    /\ job[j].at = "read" /\ ~job[j].late
    /\ job[j].mode = "resend" => CanResend(j)
    /\ LET chosen == IF job[j].mode = "resend" THEN {job[j].who} ELSE Recipients(j)
       IN  /\ job' = [job EXCEPT ![j].at = "sending",
                                 ![j].chosen = chosen, ![j].left = chosen,
                                 ![j].asked = {}, ![j].unsent = {}, ![j].before = {}]
           /\ page' = Progressed(j, 0, Cardinality(chosen))
    /\ UNCHANGED <<data, past>>

-----------------------------------------------------------------------------
(* The emails, one after the other. *)

Outcomes(j) == Cardinality(job[j].sent \cup job[j].failed)

Total(j) == Cardinality(job[j].chosen)

Counting(j) == page' = Progressed(j, Outcomes(j) + 1, Total(j))

Fail(j, v) ==
    job' = [job EXCEPT ![j].at = "sending", ![j].left = @ \ {v},
                       ![j].mailing = None, ![j].failed = @ \cup {v}]

Succeed(j, v) ==
    job' = [job EXCEPT ![j].at = "sending", ![j].left = @ \ {v},
                       ![j].mailing = None, ![j].sent = @ \cup {v}]

NoAddress(j, v) ==
    /\ job[j].at = "sending" /\ v \in job[j].left \ addressed
    /\ Fail(j, v) /\ Counting(j)
    /\ UNCHANGED <<data, past>>

Invite(j, v) ==
    invited' = IF job[j].mode = "round" THEN [invited EXCEPT ![v] = @ + 1] ELSE invited

\* SendEmail, whether the context is over or not.  A reminder moves no stamp.
Email(j, v) ==
    /\ job[j].at = "sending" /\ v \in job[j].left \cap addressed
    /\ Invite(j, v)
    /\ IF job[j].mode = "reminder"
       THEN Succeed(j, v) /\ Counting(j)
       ELSE /\ job' = [job EXCEPT ![j].at = "mailed", ![j].mailing = v]
            /\ UNCHANGED page
    /\ UNCHANGED <<data, doubtful, overlapped>>

\* Gmail answers with an error, or its answer is lost with the email on its way.
EmailFails(j, v) ==
    /\ job[j].at = "sending" /\ v \in job[j].left \cap addressed
    /\ \/ UNCHANGED invited
       \/ Invite(j, v)
    /\ doubtful' = doubtful \cup {v}
    /\ Fail(j, v) /\ Counting(j)
    /\ UNCHANGED <<data, overlapped>>

\* Mutant: nothing is stamped.
Unstamped(v) == request

SentAt(v) == [request EXCEPT ![v] = "sent"]

\* MarkAvailabilityRequestSent.
Stamp(j) ==
    LET v == job[j].mailing
    IN  /\ job[j].at = "mailed" /\ ~job[j].late /\ request[v] # "none"
        /\ request' = SentAt(v)
        /\ Succeed(j, v) /\ Counting(j)
        /\ UNCHANGED <<rota, answered, roster, addressed, past>>

\* The row is gone, the statement fails, or the context is over.
StampFails(j) ==
    LET v == job[j].mailing
    IN  /\ job[j].at = "mailed"
        /\ doubtful' = doubtful \cup {v}
        /\ Fail(j, v) /\ Counting(j)
        /\ UNCHANGED <<data, invited, overlapped>>

FinishSend(j) ==
    /\ job[j].at = "sending" /\ job[j].left = {}
    /\ StopSend(j)

-----------------------------------------------------------------------------
(* Time, and the server. *)

\* Fifteen minutes have passed.
Expire(j) ==
    /\ Running(j) /\ ~job[j].late
    /\ job' = [job EXCEPT ![j].late = TRUE]
    /\ UNCHANGED <<data, page, past>>

\* Thirty minutes have passed.
Age(j) ==
    /\ page[j].on /\ ~page[j].aged
    /\ Running(j) => job[j].late
    /\ page' = [page EXCEPT ![j].aged = TRUE]
    /\ UNCHANGED <<data, job, past>>

\* What was in memory is gone.
Restart ==
    /\ \E j \in Jobs : Running(j)
    /\ job' = [j \in Jobs |-> IF Running(j) THEN [IdleJob EXCEPT !.at = "done"] ELSE job[j]]
    /\ page' = [j \in Jobs |-> NoPage]
    /\ doubtful' = doubtful \cup {job[j].mailing : j \in {k \in Jobs : job[k].at = "mailed"}}
    /\ UNCHANGED <<data, invited, overlapped>>

-----------------------------------------------------------------------------
(* The round, in short (AvailabilityRound has it in full). *)

Mint ==
    /\ rota = "unallocated"
    /\ request' = [v \in Volunteers |->
                      IF roster[v] = "active" /\ request[v] = "none" THEN "unsent"
                                                                     ELSE request[v]]
    /\ request' # request
    /\ UNCHANGED <<rota, answered, roster, addressed, job, page, past>>

AnswerRequest(v) ==
    /\ rota = "unallocated" /\ request[v] # "none" /\ v \notin answered
    /\ answered' = answered \cup {v}
    /\ UNCHANGED <<rota, request, roster, addressed, job, page, past>>

Allocate ==
    /\ rota = "unallocated" /\ rota' = "allocated"
    /\ UNCHANGED <<request, answered, roster, addressed, job, page, past>>

Discard ==
    /\ rota = "unallocated" /\ rota' = "discarded"
    /\ request' = [v \in Volunteers |-> "none"]
    /\ answered' = {}
    /\ UNCHANGED <<roster, addressed, job, page, past>>

MoveOnRoster(v) ==
    /\ \E s \in {"active", "inactive", "gone"} \ {roster[v]} :
          roster' = [roster EXCEPT ![v] = s]
    /\ UNCHANGED <<rota, request, answered, addressed, job, page, past>>

-----------------------------------------------------------------------------
\* A rota that was defined, which mints its round.
Init ==
    /\ rota = "unallocated"
    /\ roster = [v \in Volunteers |-> IF v \in Movers THEN "gone" ELSE "active"]
    /\ request = [v \in Volunteers |-> IF v \in Movers THEN "none" ELSE "unsent"]
    /\ answered = {}
    /\ addressed \in Addressings
    /\ job = [j \in Jobs |-> IdleJob]
    /\ page = [j \in Jobs |-> NoPage]
    /\ invited = [v \in Volunteers |-> 0]
    /\ doubtful = {}
    /\ overlapped = FALSE

\* What the goroutine of a send does next.
Step(j) ==
    \/ ResolveRota(j) \/ ReadRequests(j) \/ RefuseSend(j) \/ SelectRecipients(j)
    \/ \E v \in Volunteers : NoAddress(j, v) \/ Email(j, v) \/ EmailFails(j, v)
    \/ Stamp(j) \/ StampFails(j) \/ FinishSend(j)

Next ==
    \/ \E j \in Jobs : StartSend(j) \/ Step(j) \/ Expire(j) \/ Age(j)
    \/ Restart
    \/ Mint \/ Allocate \/ Discard
    \/ \E v \in Volunteers : AnswerRequest(v)
    \/ \E v \in Movers : MoveOnRoster(v)

Spec == Init /\ [][Next]_vars

-----------------------------------------------------------------------------
(* Properties. *)

JobTypes ==
    [at : {"idle", "started", "resolved", "read", "sending", "mailed", "done"},
     mode : Modes, who : Volunteers \cup {None},
     unsent : SUBSET Volunteers, asked : SUBSET Volunteers,
     before : SUBSET Volunteers, chosen : SUBSET Volunteers,
     left : SUBSET Volunteers, mailing : Volunteers \cup {None},
     sent : SUBSET Volunteers, failed : SUBSET Volunteers, late : BOOLEAN]

PageTypes ==
    [on : BOOLEAN, aged : BOOLEAN, done : 0 .. Cardinality(Volunteers),
     total : 0 .. Cardinality(Volunteers), finished : BOOLEAN]

\* Every variable has its type: a page never counts more emails than volunteers.
TypeOK ==
    /\ rota \in {"unallocated", "allocated", "discarded"}
    /\ request \in [Volunteers -> {"none", "unsent", "sent"}]
    /\ answered \subseteq Volunteers
    /\ addressed \subseteq Volunteers
    /\ roster \in [Volunteers -> {"active", "inactive", "gone"}]
    /\ job \in [Jobs -> JobTypes]
    /\ page \in [Jobs -> PageTypes]
    /\ invited \in [Volunteers -> Nat]
    /\ doubtful \subseteq Volunteers
    /\ overlapped \in BOOLEAN

\* "re-running it tops up volunteers minted since, without re-mailing anyone"
\* (availabilitySend.go:24): sends that do not overlap invite nobody twice, through
\* restarts, discards and lost answers of Gmail, but whom a report or a crash left
\* in doubt.
InvitedOnce ==
    ~overlapped => \A v \in Volunteers \ doubtful : invited[v] <= 1

\* "the stamp is what makes a send resumable, so it has to be true at every point"
\* (availabilitySend.go:87): a volunteer a round send has emailed is stamped, or
\* about to be, or in doubt, also when the server stops in the middle.
StampIsTrue ==
    \A v \in Volunteers :
        request[v] = "unsent" /\ invited[v] > 0 =>
            \/ v \in doubtful
            \/ \E j \in Jobs : job[j].at = "mailed" /\ job[j].mailing = v

\* "Sent and Failed together account for everyone the mode selected"
\* (availabilitySend.go:73): at every point each is in one list or still to come, and
\* the page counts them, ends where it said it would, and is told of the end.
ReportAccounts ==
    \A j \in Jobs :
        /\ job[j].sent \cap job[j].failed = {}
        /\ job[j].chosen \ job[j].left = job[j].sent \cup job[j].failed
        /\ Readable(j) /\ Running(j) => page[j].done = Outcomes(j)
        /\ Readable(j) => (page[j].finished <=> ~Running(j))
        /\ Readable(j) /\ page[j].finished /\ page[j].total # 0 =>
              page[j].done = page[j].total

\* "A group answers as a unit" (availabilitySend.go:277): nobody is reminded whose
\* group had an answer, of a member still on the sheet, before the send began.
ReminderSkipsAnswered ==
    [][\A j \in Jobs, v, w \in Volunteers :
          /\ job[j].at = "read" /\ job'[j].at = "sending" /\ job[j].mode = "reminder"
          /\ v \in job'[j].chosen /\ Group[v] = Group[w] /\ roster[w] # "gone"
          /\ rota = "unallocated"
          => w \notin job[j].before]_vars
=============================================================================
