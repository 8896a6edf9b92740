------------------------------- MODULE Booking -------------------------------
(***************************************************************************)
(* Appointments and the deposits that hold them: AppointmentService and    *)
(* PaymentsService of apps/api over PostgreSQL at READ COMMITTED.          *)
(*                                                                         *)
(* Every HTTP request, and the worker's payment-expiry job, is a process   *)
(* that stops at each await.  A process remembers the row it read (seen)   *)
(* and writes later, in a transaction that compares what it read.  A write *)
(* transaction is one step: each of them first writes, and so locks, the   *)
(* appointment row, and touches that appointment's deposit only then.      *)
(***************************************************************************)
EXTENDS Integers, FiniteSets

CONSTANTS
    Appts,          \* identifiers of appointment rows
    Techs, Clients, \* users of each role
    Admin,          \* the administrator
    Quotes,         \* approved custom quotes
    None,           \* null in a column or a variable
    QuoteTech,      \* the technician an approved quote is assigned to
    QuoteClient,    \* the client who asked for it
    Requests,       \* HTTP requests in progress
    Jobs,           \* runs of the worker's payment-expiry job
    Starts,         \* start times on offer
    Durations,      \* durations
    HoldMinutes,    \* policy.holdMinutes
    LeadMinutes,    \* policy.minimumLeadMinutes
    AdvanceLimit,   \* policy.maximumAdvanceDays
    NoticeLimit,    \* policy.rescheduleNoticeHours
    ClientLimit,    \* policy.clientRescheduleLimit
    MaxTime         \* bound: the clock stops here

Procs == Requests \union Jobs
Actors == Techs \union Clients \union {Admin}

ASSUME TimesAssumption ==
    /\ Starts \subseteq Nat /\ Durations \subseteq Nat \ {0}
    /\ HoldMinutes \in Nat \ {0} /\ LeadMinutes \in Nat /\ AdvanceLimit \in Nat
    /\ NoticeLimit \in Nat /\ ClientLimit \in Nat
    /\ MaxTime \in Nat

ASSUME UsersAssumption ==
    /\ Admin \notin Techs \union Clients
    /\ Techs \intersect Clients = {}
    /\ Jobs \intersect Requests = {}
    /\ None \notin Actors \union Appts \union Quotes

ASSUME QuotesAssumption ==
    /\ QuoteTech \in [Quotes -> Techs]
    /\ QuoteClient \in [Quotes -> Clients]

VARIABLES
    now,         \* the clock all API processes and PostgreSQL share
    appt,        \* table appointments
    deposit,     \* table deposit_payments, by appointment: status
    proc,        \* what each process is doing and what it read
    stale,       \* processes whose row was written since they read it
    clientMoves  \* history: reschedules that clients committed

vars == <<now, appt, deposit, proc, stale, clientMoves>>

-----------------------------------------------------------------------------
(* Rows.                                                                   *)

Blocking == {"HELD", "PENDING_PAYMENT", "CONFIRMED"}
Final == {"COMPLETED", "CANCELLED", "NO_SHOW", "EXPIRED"}
Statuses == Blocking \union Final \union {"ABSENT"}
DepositStatuses == {"AWAITING_RECEIPT", "PENDING_REVIEW", "APPROVED",
                    "REJECTED", "EXPIRED", "CANCELLED", "NONE"}

Row == [status : Statuses, source : {"ONLINE", "MANUAL"},
        client : Clients \union {None}, tech : Techs \union {None},
        start : Starts \union {0}, duration : Durations \union {0}, hold : Nat,
        quote : Quotes \union {None}, moves : Nat]

\* An identifier no appointment has yet.
NoRow == [status |-> "ABSENT", source |-> "ONLINE", client |-> None,
          tech |-> None, start |-> 0, duration |-> 0, hold |-> 0,
          quote |-> None, moves |-> 0]

EndAt(row) == row.start + row.duration
IsBlocking(row) == row.status \in Blocking

(* The exclusion constraint appointments_no_overlap: the half-open interval *)
(* meets that of no other blocking appointment of the technician.           *)
Overlap(s1, d1, s2, d2) == s1 < s2 + d2 /\ s2 < s1 + d1

SlotFreeIgnoringHolds(a, t, s, d) ==
    \A b \in Appts \ {a} :
        appt[b].status \in Blocking \ {"HELD"} /\ appt[b].tech = t
            => ~Overlap(s, d, appt[b].start, appt[b].duration)

SlotFree(a, t, s, d) ==
    \A b \in Appts \ {a} :
        IsBlocking(appt[b]) /\ appt[b].tech = t
            => ~Overlap(s, d, appt[b].start, appt[b].duration)

(* createHold counts the blocking appointments of the quote, and when it    *)
(* inserts the partial unique index appointments_active_custom_quote_key    *)
(* counts them again.                                                       *)
QuoteFree(q) ==
    q = None \/ \A b \in Appts : IsBlocking(appt[b]) => appt[b].quote # q

NoQuoteIndex(q) == TRUE

QuoteIndexAdmits(q) == QuoteFree(q)

-----------------------------------------------------------------------------
(* Processes.                                                              *)

\* What the process has still to do, and what it waits for until then.
Stages == {"idle", "sweeping", "swept", "holding", "rescheduling", "cancelling",
           "closing", "storing", "uploading", "reviewing"}

Proc == [stage : Stages, actor : Actors \union {None},
         id : Appts \union {None}, seen : Row,
         found : SUBSET Appts, candidates : SUBSET Techs,
         tech : Techs \union {None}, start : Starts \union {0},
         duration : Durations \union {0},
         quote : Quotes \union {None}, target : Final \union {"ABSENT"},
         stamp : Nat]

Idle == [stage |-> "idle", actor |-> None, id |-> None, seen |-> NoRow,
         found |-> {}, candidates |-> {}, tech |-> None, start |-> 0,
         duration |-> 0, quote |-> None, target |-> "ABSENT", stamp |-> 0]


(* updatedAt changes with every write of a row, so it equals the value a     *)
(* process read exactly while nobody has written the row since.             *)
Comparing == {"rescheduling", "cancelling", "closing"}
ReadersOf(as) == {q \in Procs : proc[q].stage \in Comparing /\ proc[q].id \in as}

\* Process p ends, having written the rows as.
Finish(p, as) ==
    /\ proc' = [proc EXCEPT ![p] = Idle]
    /\ stale' = (stale \union ReadersOf(as)) \ {p}

TypeOK ==
    /\ now \in Nat
    /\ appt \in [Appts -> Row]
    /\ deposit \in [Appts -> DepositStatuses]
    /\ proc \in [Procs -> Proc]
    /\ \A p \in Procs : proc[p].stage = "holding" => proc[p].actor \in Clients
    /\ stale \subseteq Procs
    /\ clientMoves \in [Appts -> Nat]

Init ==
    /\ now = 0
    /\ appt = [a \in Appts |-> NoRow]
    /\ deposit = [a \in Appts |-> "NONE"]
    /\ proc = [p \in Procs |-> Idle]
    /\ stale = {}
    /\ clientMoves = [a \in Appts |-> 0]

-----------------------------------------------------------------------------
(* expireAwaitingReceipts: one transaction, but a SELECT and then two       *)
(* UPDATEs, each of which sees what others committed in between.  The job,  *)
(* the listings and a late uploadReceipt run it and are done; createHold,   *)
(* createManual and reschedule run it before anything else.                 *)

HoldElapsed(row) == row.status = "HELD" /\ row.hold <= now
ExpiredHolds == {a \in Appts : HoldElapsed(appt[a])}

NeverIdle(p) == [Idle EXCEPT !.stage = "swept"]

AfterSweep(p) == IF p \in Jobs THEN Idle ELSE [Idle EXCEPT !.stage = "swept"]

SweepSelect(p) ==
    /\ proc[p].stage = "idle"
    /\ proc' = [proc EXCEPT ![p] =
                   IF ExpiredHolds = {} THEN AfterSweep(p)
                   ELSE [Idle EXCEPT !.stage = "sweeping", !.found = ExpiredHolds]]
    /\ UNCHANGED <<now, appt, deposit, stale, clientMoves>>

SelectedRows(p) == proc[p].found

Lapsing(p) == {a \in proc[p].found : appt[a].status = "HELD"}

SweepWrite(p) ==
    /\ proc[p].stage = "sweeping"
    /\ appt' = [a \in Appts |->
                   IF a \in Lapsing(p) THEN [appt[a] EXCEPT !.status = "EXPIRED"]
                   ELSE appt[a]]
    /\ deposit' = [a \in Appts |->
                      IF a \in proc[p].found /\ deposit[a] = "AWAITING_RECEIPT"
                      THEN "EXPIRED" ELSE deposit[a]]
    /\ proc' = [proc EXCEPT ![p] = AfterSweep(p)]
    /\ stale' = stale \union ReadersOf(Lapsing(p))
    /\ UNCHANGED <<now, clientMoves>>

-----------------------------------------------------------------------------
(* createHold and createManual.                                            *)

PublicStart(s) == s >= now + LeadMinutes /\ s <= now + AdvanceLimit

\* A row for an unused identifier, with the deposit it starts with.
InsertRow(a, row, d) ==
    /\ appt[a].status = "ABSENT"
    /\ SlotFree(a, row.tech, row.start, row.duration)
    /\ QuoteIndexAdmits(row.quote)
    /\ appt' = [appt EXCEPT ![a] = row]
    /\ deposit' = [deposit EXCEPT ![a] = d]

(* The checks of createHold.  candidates stands for the technicians that    *)
(* activeTechnicians returns and isWithinAvailability accepts: neither      *)
(* depends on appointments.                                                 *)
HoldCheck(r, c, q, s, d, candidates) ==
    /\ proc[r].stage = "swept"
    /\ candidates # {}
    /\ q # None => /\ QuoteClient[q] = c
                   /\ QuoteFree(q)
                   /\ candidates = {QuoteTech[q]}
    /\ PublicStart(s)
    /\ proc' = [proc EXCEPT ![r] =
                   [Idle EXCEPT !.stage = "holding", !.actor = c, !.quote = q,
                                !.start = s, !.duration = d,
                                !.candidates = candidates]]
    /\ UNCHANGED <<now, appt, deposit, stale, clientMoves>>

HeldRowWithoutDeadline(r, t) ==
    [NoRow EXCEPT !.status = "HELD", !.client = proc[r].actor, !.tech = t,
                  !.start = proc[r].start, !.duration = proc[r].duration,
                  !.hold = None, !.quote = proc[r].quote]

HeldRow(r, t) ==
    [NoRow EXCEPT !.status = "HELD", !.client = proc[r].actor, !.tech = t,
                  !.start = proc[r].start, !.duration = proc[r].duration,
                  !.hold = now + HoldMinutes, !.quote = proc[r].quote]

HoldInsert(r, t, a) ==
    /\ proc[r].stage = "holding"
    /\ t \in proc[r].candidates
    /\ now + HoldMinutes <= MaxTime  \* bound: a hold's deadline is within the clock
    /\ InsertRow(a, HeldRow(r, t), "AWAITING_RECEIPT")
    /\ Finish(r, {a})
    /\ UNCHANGED <<now, clientMoves>>

\* The database refuses the interval: the loop goes on to the next candidate.
HoldCollides(r, t) ==
    /\ proc[r].stage = "holding"
    /\ t \in proc[r].candidates
    /\ \E a \in Appts : /\ appt[a].status = "ABSENT"
                        /\ ~SlotFree(a, t, proc[r].start, proc[r].duration)
    /\ proc' = [proc EXCEPT ![r] =
                   IF proc[r].candidates = {t} THEN Idle
                   ELSE [proc[r] EXCEPT !.candidates = @ \ {t}]]
    /\ UNCHANGED <<now, appt, deposit, stale, clientMoves>>

\* A technician books for herself, the administrator for anyone; no deposit.
ManualInsert(r, actor, c, t, s, d, a) ==
    /\ proc[r].stage = "swept"
    /\ actor = Admin \/ actor = t
    /\ InsertRow(a, [NoRow EXCEPT !.status = "CONFIRMED", !.source = "MANUAL",
                                  !.client = c, !.tech = t, !.start = s,
                                  !.duration = d], "NONE")
    /\ Finish(r, {a})
    /\ UNCHANGED <<now, clientMoves>>

-----------------------------------------------------------------------------
(* Handlers that read a row, check it, and later compare and write.         *)

Authorized(actor, row, staffOnly) ==
    \/ actor = Admin
    \/ row.tech = actor
    \/ ~staffOnly /\ row.client = actor

\* findAuthorized: the row as read is what the later write compares with.
ReadRow(actor, a, staffOnly) ==
    /\ appt[a].status # "ABSENT"
    /\ Authorized(actor, appt[a], staffOnly)

Remember(actor, a, stage) ==
    [Idle EXCEPT !.stage = stage, !.actor = actor, !.id = a, !.seen = appt[a]]

\* where: { id, status, updatedAt } as read.
SameStatusOnly(r) == appt[proc[r].id].status = proc[r].seen.status

Unchanged(r) == SameStatusOnly(r) /\ r \notin stale

AdminMovesAnywhere(actor, row, t) == actor # Admin => t = row.tech

MayMoveTo(actor, row, t) ==
    /\ actor # Admin => t = row.tech
    /\ row.quote # None => t = QuoteTech[row.quote]

RescheduleCheck(r, actor, a, t, s) ==
    /\ proc[r].stage = "swept"
    /\ ReadRow(actor, a, FALSE)
    /\ IsBlocking(appt[a])
    /\ actor \in Clients => /\ appt[a].moves < ClientLimit
                            /\ appt[a].start - now >= NoticeLimit
                            /\ PublicStart(s)
    /\ MayMoveTo(actor, appt[a], t)
    /\ proc' = [proc EXCEPT ![r] =
                   [Remember(actor, a, "rescheduling")
                       EXCEPT !.tech = t, !.start = s]]
    /\ UNCHANGED <<now, appt, deposit, stale, clientMoves>>

RescheduleCommit(r) ==
    LET a == proc[r].id
        byClient == proc[r].actor \in Clients
    IN  /\ proc[r].stage = "rescheduling"
        /\ Unchanged(r)
        /\ SlotFree(a, proc[r].tech, proc[r].start, appt[a].duration)
        /\ appt' = [appt EXCEPT ![a] =
                       [appt[a] EXCEPT !.tech = proc[r].tech, !.start = proc[r].start,
                                       !.moves = IF byClient THEN @ + 1
                                                 ELSE proc[r].seen.moves]]
        /\ clientMoves' = IF byClient THEN [clientMoves EXCEPT ![a] = @ + 1]
                          ELSE clientMoves
        /\ Finish(r, {a})
        /\ UNCHANGED <<now, deposit>>

CancelCheck(r, actor, a) ==
    /\ proc[r].stage = "idle"
    /\ ReadRow(actor, a, FALSE)
    /\ IsBlocking(appt[a])
    /\ proc' = [proc EXCEPT ![r] = Remember(actor, a, "cancelling")]
    /\ UNCHANGED <<now, appt, deposit, stale, clientMoves>>

\* cancelForAppointment: an approved deposit is kept.
UnpaidDeposits == {"AWAITING_RECEIPT"}

OpenDeposits == {"AWAITING_RECEIPT", "PENDING_REVIEW"}

CancelCommit(r) ==
    LET a == proc[r].id IN
    /\ proc[r].stage = "cancelling"
    /\ Unchanged(r)
    /\ appt' = [appt EXCEPT ![a] = [appt[a] EXCEPT !.status = "CANCELLED"]]
    /\ deposit' = [deposit EXCEPT ![a] = IF @ \in OpenDeposits THEN "CANCELLED" ELSE @]
    /\ Finish(r, {a})
    /\ UNCHANGED <<now, clientMoves>>

CanCloseAlways(row, target) == row.status = "CONFIRMED"

CanClose(row, target) ==
    /\ row.status = "CONFIRMED"
    /\ target = "NO_SHOW" => row.start <= now
    /\ target = "COMPLETED" => EndAt(row) <= now

CloseCheck(r, actor, a, target) ==
    /\ proc[r].stage = "idle"
    /\ ReadRow(actor, a, TRUE)
    /\ CanClose(appt[a], target)
    /\ proc' = [proc EXCEPT ![r] = [Remember(actor, a, "closing")
                                       EXCEPT !.target = target]]
    /\ UNCHANGED <<now, appt, deposit, stale, clientMoves>>

CloseCommit(r) ==
    LET a == proc[r].id IN
    /\ proc[r].stage = "closing"
    /\ Unchanged(r)
    /\ appt' = [appt EXCEPT ![a] = [appt[a] EXCEPT !.status = proc[r].target]]
    /\ Finish(r, {a})
    /\ UNCHANGED <<now, deposit, clientMoves>>

-----------------------------------------------------------------------------
(* uploadReceipt and review.                                               *)

\* canUploadReceipt, as the handler reads the row.
CanUpload(row) == row.status = "HELD" /\ row.hold > now

UploadCheck(r, a) ==
    /\ proc[r].stage = "idle"
    /\ appt[a].client \in Clients
    /\ deposit[a] # "NONE"
    /\ CanUpload(appt[a])
    /\ proc' = [proc EXCEPT ![r] =
                   [Idle EXCEPT !.stage = "storing", !.id = a]]
    /\ UNCHANGED <<now, appt, deposit, stale, clientMoves>>

\* putObject has answered: the instant the deadline is compared with.
UploadStamp(r) ==
    /\ proc[r].stage = "storing"
    /\ proc' = [proc EXCEPT ![r] =
                   [proc[r] EXCEPT !.stage = "uploading", !.stamp = now]]
    /\ UNCHANGED <<now, appt, deposit, stale, clientMoves>>

StillHeldLax(row, instant) == row.status \in {"HELD", "EXPIRED"} /\ row.hold > instant

StillHeld(row, instant) == row.status = "HELD" /\ row.hold > instant

UploadCommit(r) ==
    LET a == proc[r].id IN
    /\ proc[r].stage = "uploading"
    /\ StillHeld(appt[a], proc[r].stamp)
    /\ appt' = [appt EXCEPT ![a] =
                   [appt[a] EXCEPT !.status = "PENDING_PAYMENT", !.hold = 0]]
    /\ deposit' = [deposit EXCEPT ![a] = "PENDING_REVIEW"]
    /\ Finish(r, {a})
    /\ UNCHANGED <<now, clientMoves>>

ReviewCheck(r, a) ==
    /\ proc[r].stage = "idle"
    /\ deposit[a] = "PENDING_REVIEW"
    /\ appt[a].status = "PENDING_PAYMENT"
    /\ proc' = [proc EXCEPT ![r] = Remember(Admin, a, "reviewing")]
    /\ UNCHANGED <<now, appt, deposit, stale, clientMoves>>

\* where: { id, status: PENDING_PAYMENT, technicianId, startAt, endAt } as read.
Reviewable(row, seen) ==
    /\ row.status = "PENDING_PAYMENT"
    /\ row.tech = seen.tech
    /\ row.start = seen.start
    /\ EndAt(row) = EndAt(seen)

ReviewCommit(r, decision) ==
    LET a == proc[r].id IN
    /\ proc[r].stage = "reviewing"
    /\ Reviewable(appt[a], proc[r].seen)
    /\ deposit[a] = "PENDING_REVIEW"
    /\ appt' = [appt EXCEPT ![a] =
                   [appt[a] EXCEPT !.status = IF decision = "APPROVED" THEN "CONFIRMED"
                                              ELSE "CANCELLED",
                                   !.hold = 0]]
    /\ deposit' = [deposit EXCEPT ![a] = decision]
    /\ Finish(r, {a})
    /\ UNCHANGED <<now, clientMoves>>

-----------------------------------------------------------------------------
(* A check refuses, the database or MinIO fails, a conditional write        *)
(* matches no row, or the API process dies: nothing is written.  The file   *)
(* uploadReceipt stored is the subject of another module.                   *)
Abandon(p) ==
    /\ proc[p].stage # "idle"
    /\ Finish(p, {})
    /\ UNCHANGED <<now, appt, deposit, clientMoves>>

Tick ==
    /\ now < MaxTime
    /\ now' = now + 1
    /\ UNCHANGED <<appt, deposit, proc, stale, clientMoves>>

Next ==
    \/ Tick
    \/ \E p \in Procs :
          \/ SweepSelect(p)
          \/ SweepWrite(p)
          \/ Abandon(p)
    \/ \E r \in Requests :
          \/ \E c \in Clients, q \in Quotes \union {None}, s \in Starts,
                d \in Durations, candidates \in SUBSET Techs :
                   HoldCheck(r, c, q, s, d, candidates)
          \/ \E t \in Techs, a \in Appts : HoldInsert(r, t, a)
          \/ \E t \in Techs : HoldCollides(r, t)
          \/ \E actor \in Techs \union {Admin}, c \in Clients \union {None},
                t \in Techs, s \in Starts, d \in Durations, a \in Appts :
                   ManualInsert(r, actor, c, t, s, d, a)
          \/ \E actor \in Actors, a \in Appts, t \in Techs, s \in Starts :
                RescheduleCheck(r, actor, a, t, s)
          \/ RescheduleCommit(r)
          \/ \E actor \in Actors, a \in Appts : CancelCheck(r, actor, a)
          \/ CancelCommit(r)
          \/ \E actor \in Actors, a \in Appts, target \in {"COMPLETED", "NO_SHOW"} :
                CloseCheck(r, actor, a, target)
          \/ CloseCommit(r)
          \/ \E a \in Appts : UploadCheck(r, a)
          \/ UploadStamp(r)
          \/ UploadCommit(r)
          \/ \E a \in Appts : ReviewCheck(r, a)
          \/ \E decision \in {"APPROVED", "REJECTED"} : ReviewCommit(r, decision)

Spec == Init /\ [][Next]_vars

(* The job runs every minute and retries; a run does not die between its    *)
(* SELECT and its UPDATE for ever.  The clock goes on.                      *)
FairSpec ==
    /\ Spec
    /\ WF_vars(Tick)
    /\ \A j \in Jobs : WF_vars(SweepSelect(j)) /\ SF_vars(SweepWrite(j))

-----------------------------------------------------------------------------
(* Properties.                                                             *)

\* Two appointments that block their technician's time never overlap, however
\* concurrent inserts, moves and expiries interleave (createHold, createManual,
\* reschedule against the exclusion constraint).
NoOverlap ==
    \A a, b \in Appts :
        a # b /\ IsBlocking(appt[a]) /\ IsBlocking(appt[b])
              /\ appt[a].tech = appt[b].tech
            => ~Overlap(appt[a].start, appt[a].duration,
                        appt[b].start, appt[b].duration)

\* The deposit statuses that may stand beside an appointment.
DepositsOf(row) ==
    IF row.status = "ABSENT" \/ row.source = "MANUAL" THEN {"NONE"}
    ELSE CASE row.status = "HELD" -> {"AWAITING_RECEIPT"}
           [] row.status = "PENDING_PAYMENT" -> {"PENDING_REVIEW"}
           [] row.status = "EXPIRED" -> {"EXPIRED"}
           [] row.status = "CANCELLED" -> {"CANCELLED", "REJECTED", "APPROVED"}
           [] row.status \in {"CONFIRMED", "COMPLETED", "NO_SHOW"} -> {"APPROVED"}

\* The two tables tell one story: an online appointment is confirmed, attended
\* or missed only on an approved deposit, a receipt under review keeps its slot,
\* and a manual appointment never waits for money (all five write transactions).
DepositAgrees ==
    \A a \in Appts :
        /\ deposit[a] \in DepositsOf(appt[a])
        /\ appt[a].source = "MANUAL" =>
               appt[a].status \in {"CONFIRMED", "COMPLETED", "NO_SHOW", "CANCELLED"}

\* docs/DECISIONES.md:58: no appointment may overlap another of the same
\* technician.  Said of every appointment that takes or took her time.
NoAppointmentOverlaps ==
    \A a, b \in Appts :
        a # b /\ {appt[a].status, appt[b].status} \subseteq {"CONFIRMED", "COMPLETED"}
              /\ appt[a].tech = appt[b].tech
            => ~Overlap(appt[a].start, appt[a].duration,
                        appt[b].start, appt[b].duration)

\* An approved quote holds one place in the diary at a time, although createHold
\* counts in one statement and inserts in another.
QuoteBookedOnce ==
    \A a, b \in Appts :
        a # b /\ IsBlocking(appt[a]) /\ IsBlocking(appt[b]) /\ appt[a].quote # None
            => appt[a].quote # appt[b].quote

\* Whoever books or moves the appointment of a quote, it stays with the
\* technician who approved the quote (createHold, reschedule).
QuoteKeepsTechnician ==
    \A a \in Appts :
        appt[a].quote # None => appt[a].tech = QuoteTech[appt[a].quote]

\* A client commits no more reschedules than the policy allows, even with two
\* requests in flight and staff moving the appointment between them (reschedule).
ClientMovesBounded == \A a \in Appts : clientMoves[a] <= ClientLimit

\* An appointment counts as attended only once it has ended and as missed only
\* once it has begun, although updateStatus checks a row it read earlier and the
\* row may be moved meanwhile (updateStatus, canCloseAppointment).
ClosedInTime ==
    \A a \in Appts :
        /\ appt[a].status = "COMPLETED" => EndAt(appt[a]) <= now
        /\ appt[a].status = "NO_SHOW" => appt[a].start <= now

\* Whoever writes a row it read before still has the right to it at the moment
\* of the write: an appointment taken from a technician is out of her reach
\* (findAuthorized, read before the transactions of reschedule, cancel and
\* updateStatus).
StillAuthorized ==
    [][\A r \in Requests :
          proc[r].stage \in Comparing /\ proc'[r].stage = "idle" /\ appt' # appt
              => Authorized(proc[r].actor, appt[proc[r].id],
                            proc[r].stage = "closing")]_vars

\* An appointment that was completed, cancelled, missed or expired never changes
\* again, whatever late request still holds its earlier row (all handlers).
FinalIsFinal ==
    [][\A a \in Appts : appt[a].status \in Final => appt'[a] = appt[a]]_vars

\* No hold keeps its slot for ever: a receipt, a cancellation or the job ends it
\* (expireAwaitingReceipts under the worker's schedule).
HoldsEnd == \A a \in Appts : appt[a].status = "HELD" ~> appt[a].status # "HELD"

-----------------------------------------------------------------------------
(* Both tables together are one abstract reservation.                      *)

StageOf(row, d) ==
    IF d \notin DepositsOf(row) THEN "broken"
    ELSE CASE row.status = "ABSENT" -> "free"
           [] row.status = "HELD" -> "held"
           [] row.status = "PENDING_PAYMENT" -> "review"
           [] row.status = "CONFIRMED" -> "booked"
           [] row.status = "COMPLETED" -> "attended"
           [] row.status = "NO_SHOW" -> "missed"
           [] row.status = "EXPIRED" -> "lapsed"
           [] row.status = "CANCELLED" -> "released"

PlaceOf(row) == [tech |-> row.tech, start |-> row.start, duration |-> row.duration]

Places == [tech : Techs \union {None}, start : Starts \union {0},
           duration : Durations \union {0}]

StageAt == [a \in Appts |-> StageOf(appt[a], deposit[a])]
PlaceAt == [a \in Appts |-> PlaceOf(appt[a])]

Promise == INSTANCE Reservation WITH
    Reservations <- Appts, Places <- Places, stage <- StageAt, place <- PlaceAt

\* The requests, rows and deposits implement the studio's promise: each step is
\* one event of the life of a reservation or nothing, and no step leaves the two
\* tables between two stages.
KeepsPromise == Promise!Spec
=============================================================================
