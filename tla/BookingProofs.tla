---------------------------- MODULE BookingProofs ----------------------------
(***************************************************************************)
(* Theorems about Booking for any set of appointments, users, requests,    *)
(* quotes and times: types, safety, and that it implements Reservation.    *)
(*                                                                         *)
(* What a handler writes is justified by what it read earlier.  Two        *)
(* invariants carry that across the awaits: Decided says what the checks   *)
(* established about the row as it was read, and Fresh says that the row   *)
(* still is as it was read while nobody wrote it.  The conditional write   *)
(* succeeds only while Fresh applies, so the decision holds of the row     *)
(* that is written.                                                        *)
(***************************************************************************)
EXTENDS Booking, TLAPS

-----------------------------------------------------------------------------
(* Rows and processes.                                                     *)

LEMMA NoRowType == NoRow \in Row
  BY DEF NoRow, Row, Statuses

LEMMA IdleType == Idle \in Proc
  BY NoRowType DEF Idle, Proc, Stages

LEMMA RowWithStatus ==
  ASSUME NEW row \in Row, NEW x \in Statuses
  PROVE  /\ [row EXCEPT !.status = x] \in Row
         /\ [row EXCEPT !.status = x, !.hold = 0] \in Row
  BY DEF Row

LEMMA StampType ==
  ASSUME NEW p \in Proc, NEW instant \in Nat
  PROVE  /\ [p EXCEPT !.stage = "uploading", !.stamp = instant] \in Proc
         /\ [p EXCEPT !.stage = "uploading", !.stamp = instant].stage = "uploading"
<1>1. "uploading" \in Stages
  BY DEF Stages
<1>. QED
  BY <1>1 DEF Proc

LEMMA RowMoved ==
  ASSUME NEW row \in Row, NEW t \in Techs \union {None},
         NEW s \in Starts \union {0}, NEW n \in Nat
  PROVE  [row EXCEPT !.tech = t, !.start = s, !.moves = n] \in Row
  BY DEF Row

LEMMA WriteRow ==
  ASSUME NEW f \in [Appts -> Row], NEW a, NEW row, a \in Appts => row \in Row
  PROVE  [f EXCEPT ![a] = row] \in [Appts -> Row]
  BY Zenon

LEMMA WriteDeposit ==
  ASSUME NEW f \in [Appts -> DepositStatuses], NEW a, NEW d,
         a \in Appts => d \in DepositStatuses
  PROVE  [f EXCEPT ![a] = d] \in [Appts -> DepositStatuses]
  BY Zenon

LEMMA WriteProc ==
  ASSUME NEW f \in [Procs -> Proc], NEW p \in Procs, NEW x \in Proc
  PROVE  [f EXCEPT ![p] = x] \in [Procs -> Proc]
  BY Zenon

LEMMA AppliesToRequests == \A r \in Requests : r \in Procs
  BY DEF Procs

\* The part of TypeOK that only processes change.
ProcsOK == /\ proc \in [Procs -> Proc]
           /\ \A p \in Procs : proc[p].stage = "holding" => proc[p].actor \in Clients

LEMMA NextProc ==
  ASSUME TypeOK, NEW p \in Procs, NEW x \in Proc,
         x.stage = "holding" => x.actor \in Clients,
         proc' = [proc EXCEPT ![p] = x]
  PROVE  ProcsOK'
  BY WriteProc DEF TypeOK, ProcsOK

LEMMA FinishType ==
  ASSUME TypeOK, NEW p \in Procs, NEW as, Finish(p, as)
  PROVE  ProcsOK' /\ stale' \subseteq Procs
<1>1. Idle.stage # "holding"
  BY DEF Idle
<1>. QED
  BY <1>1, IdleType, NextProc DEF TypeOK, Finish, ReadersOf

-----------------------------------------------------------------------------
(* Every variable keeps its type.                                          *)

LEMMA TypeInit == Init => TypeOK
<1>1. Idle.stage # "holding"
  BY DEF Idle
<1>. QED
  BY <1>1, NoRowType, IdleType DEF Init, TypeOK, DepositStatuses

LEMMA SweepType ==
  ASSUME TypeOK, NEW p \in Procs, SweepSelect(p) \/ SweepWrite(p)
  PROVE  TypeOK'
<1>1. AfterSweep(p) \in Proc /\ AfterSweep(p).stage # "holding"
  BY IdleType DEF AfterSweep, Idle, Proc, Stages
<1>2. CASE SweepSelect(p)
  <2>. DEFINE x == [Idle EXCEPT !.stage = "sweeping", !.found = ExpiredHolds]
  <2>1. x \in Proc /\ x.stage # "holding"
    BY IdleType DEF Idle, Proc, ExpiredHolds, Stages
  <2>2. ProcsOK'
    BY <1>1, <1>2, <2>1, NextProc DEF SweepSelect
  <2>. QED
    BY <1>2, <2>2 DEF SweepSelect, TypeOK, ProcsOK
<1>3. CASE SweepWrite(p)
  <2>1. \A a \in Appts : [appt[a] EXCEPT !.status = "EXPIRED"] \in Row
    BY RowWithStatus DEF TypeOK, Statuses, Final
  <2>2. appt' \in [Appts -> Row]
    BY <1>3, <2>1 DEF SweepWrite, TypeOK
  <2>3. deposit' \in [Appts -> DepositStatuses]
    BY <1>3 DEF SweepWrite, TypeOK, DepositStatuses
  <2>4. ProcsOK' /\ stale' \subseteq Procs
    BY <1>1, <1>3, NextProc DEF SweepWrite, TypeOK, ReadersOf
  <2>. QED
    BY <1>3, <2>2, <2>3, <2>4 DEF SweepWrite, TypeOK, ProcsOK
<1>. QED
  BY <1>2, <1>3

\* What a handler remembers of a row.
LEMMA RememberType ==
  ASSUME TypeOK, NEW actor \in Actors, NEW a \in Appts, NEW stage \in Stages
  PROVE  /\ Remember(actor, a, stage) \in Proc
         /\ Remember(actor, a, stage).stage = stage
         /\ Remember(actor, a, stage).id = a
         /\ Remember(actor, a, stage).seen = appt[a]
         /\ Remember(actor, a, stage).actor = actor
  BY IdleType DEF Remember, TypeOK, Idle, Proc

LEMMA HoldCheckType ==
  ASSUME TypeOK, NEW r \in Requests, NEW c \in Clients,
         NEW q \in Quotes \union {None}, NEW s \in Starts, NEW d \in Durations,
         NEW candidates \in SUBSET Techs, HoldCheck(r, c, q, s, d, candidates)
  PROVE  TypeOK'
<1>. DEFINE x == [Idle EXCEPT !.stage = "holding", !.actor = c, !.quote = q,
                              !.start = s, !.duration = d,
                              !.candidates = candidates]
<1>1. x \in Proc /\ x.actor \in Clients
  BY IdleType DEF Idle, Proc, Stages, Actors
<1>2. ProcsOK'
  BY <1>1, NextProc, AppliesToRequests DEF HoldCheck
<1>. QED
  BY <1>2 DEF HoldCheck, TypeOK, ProcsOK

LEMMA HoldCollidesType ==
  ASSUME TypeOK, NEW r \in Requests, NEW t \in Techs, HoldCollides(r, t)
  PROVE  TypeOK'
<1>. DEFINE x == [proc[r] EXCEPT !.candidates = @ \ {t}]
<1>1. proc[r] \in Proc /\ proc[r].actor \in Clients
  BY AppliesToRequests DEF TypeOK, HoldCollides
<1>2. x \in Proc /\ x.actor \in Clients
  BY <1>1 DEF Proc
<1>3. Idle.stage # "holding"
  BY DEF Idle
<1>4. ProcsOK'
  BY <1>2, <1>3, IdleType, NextProc, AppliesToRequests DEF HoldCollides
<1>. QED
  BY <1>4 DEF HoldCollides, TypeOK, ProcsOK

LEMMA RescheduleCheckType ==
  ASSUME TypeOK, NEW r \in Requests, NEW actor \in Actors, NEW a \in Appts,
         NEW t \in Techs, NEW s \in Starts, RescheduleCheck(r, actor, a, t, s)
  PROVE  TypeOK'
<1>. DEFINE x == [Remember(actor, a, "rescheduling") EXCEPT !.tech = t, !.start = s]
<1>1. Remember(actor, a, "rescheduling") \in Proc
      /\ Remember(actor, a, "rescheduling").stage = "rescheduling"
  BY RememberType DEF Stages
<1>2. x \in Proc /\ x.stage = "rescheduling"
  BY <1>1 DEF Proc
<1>3. ProcsOK'
  BY <1>2, NextProc, AppliesToRequests DEF RescheduleCheck
<1>. QED
  BY <1>3 DEF RescheduleCheck, TypeOK, ProcsOK

LEMMA CloseCheckType ==
  ASSUME TypeOK, NEW r \in Requests, NEW actor \in Actors, NEW a \in Appts,
         NEW target \in {"COMPLETED", "NO_SHOW"}, CloseCheck(r, actor, a, target)
  PROVE  TypeOK'
<1>. DEFINE x == [Remember(actor, a, "closing") EXCEPT !.target = target]
<1>1. Remember(actor, a, "closing") \in Proc
      /\ Remember(actor, a, "closing").stage = "closing"
  BY RememberType DEF Stages
<1>2. x \in Proc /\ x.stage = "closing"
  BY <1>1 DEF Proc, Final
<1>3. ProcsOK'
  BY <1>2, NextProc, AppliesToRequests DEF CloseCheck
<1>. QED
  BY <1>3 DEF CloseCheck, TypeOK, ProcsOK

LEMMA CheckType ==
  ASSUME TypeOK, NEW r \in Requests,
         \/ \E actor \in Actors, a \in Appts : CancelCheck(r, actor, a)
         \/ \E a \in Appts : UploadCheck(r, a)
         \/ UploadStamp(r)
         \/ \E a \in Appts : ReviewCheck(r, a)
  PROVE  TypeOK'
<1>1. ASSUME NEW actor \in Actors, NEW a \in Appts, CancelCheck(r, actor, a)
      PROVE  TypeOK'
  <2>. DEFINE x == Remember(actor, a, "cancelling")
  <2>3. x \in Proc /\ x.stage = "cancelling"
    BY RememberType DEF Stages
  <2>1. ProcsOK'
    BY <1>1, <2>3, NextProc, AppliesToRequests DEF CancelCheck
  <2>. QED
    BY <1>1, <2>1 DEF CancelCheck, TypeOK, ProcsOK
<1>2. ASSUME NEW a \in Appts, UploadCheck(r, a)
      PROVE  TypeOK'
  <2>. DEFINE x == [Idle EXCEPT !.stage = "storing", !.id = a]
  <2>1. x \in Proc /\ x.stage # "holding"
    BY IdleType DEF Idle, Proc, Stages
  <2>2. ProcsOK'
    BY <1>2, <2>1, NextProc, AppliesToRequests DEF UploadCheck
  <2>. QED
    BY <1>2, <2>2 DEF UploadCheck, TypeOK, ProcsOK
<1>3. CASE UploadStamp(r)
  <2>. DEFINE x == [proc[r] EXCEPT !.stage = "uploading", !.stamp = now]
  <2>1. proc[r] \in Proc /\ now \in Nat
    BY AppliesToRequests DEF TypeOK
  <2>2. x \in Proc /\ x.stage = "uploading"
    BY <2>1, StampType
  <2>3. ProcsOK'
    BY <1>3, <2>2, NextProc, AppliesToRequests DEF UploadStamp
  <2>. QED
    BY <1>3, <2>3 DEF UploadStamp, TypeOK, ProcsOK
<1>4. ASSUME NEW a \in Appts, ReviewCheck(r, a)
      PROVE  TypeOK'
  <2>1. ProcsOK'
    BY <1>4, RememberType, NextProc, AppliesToRequests
       DEF ReviewCheck, Stages, Actors
  <2>. QED
    BY <1>4, <2>1 DEF ReviewCheck, TypeOK, ProcsOK
<1>. QED
  BY <1>1, <1>2, <1>3, <1>4

LEMMA InsertType ==
  ASSUME TypeOK, NEW r \in Requests, NEW a \in Appts, NEW row \in Row,
         NEW d \in DepositStatuses, InsertRow(a, row, d), Finish(r, {a}),
         UNCHANGED <<now, clientMoves>>
  PROVE  TypeOK'
<1>1. ProcsOK' /\ stale' \subseteq Procs
  BY FinishType, AppliesToRequests
<1>. QED
  BY <1>1 DEF InsertRow, TypeOK, ProcsOK

LEMMA HeldRowType ==
  ASSUME TypeOK, NEW r \in Requests, NEW t \in Techs, proc[r].stage = "holding"
  PROVE  HeldRow(r, t) \in Row
<1>1. proc[r] \in Proc /\ proc[r].actor \in Clients
  BY AppliesToRequests DEF TypeOK
<1>2. /\ proc[r].start \in Starts \union {0}
      /\ proc[r].duration \in Durations \union {0}
      /\ proc[r].quote \in Quotes \union {None}
  BY <1>1 DEF Proc
<1>3. now + HoldMinutes \in Nat
  BY TimesAssumption DEF TypeOK
<1>. QED
  BY <1>1, <1>2, <1>3, NoRowType DEF HeldRow, NoRow, Row, Statuses, Blocking

LEMMA HoldInsertType ==
  ASSUME TypeOK, NEW r \in Requests, NEW t \in Techs, NEW a \in Appts,
         HoldInsert(r, t, a)
  PROVE  TypeOK'
  BY HeldRowType, InsertType DEF HoldInsert, DepositStatuses

ManualRow(c, t, s, d) == [NoRow EXCEPT !.status = "CONFIRMED", !.source = "MANUAL",
                                       !.client = c, !.tech = t, !.start = s,
                                       !.duration = d]

LEMMA ManualInsertType ==
  ASSUME TypeOK, NEW r \in Requests, NEW actor, NEW c \in Clients \union {None},
         NEW t \in Techs, NEW s \in Starts, NEW d \in Durations, NEW a \in Appts,
         ManualInsert(r, actor, c, t, s, d, a)
  PROVE  TypeOK'
<1>1. ManualRow(c, t, s, d) \in Row
  BY NoRowType DEF ManualRow, NoRow, Row, Statuses, Blocking
<1>. QED
  BY <1>1, InsertType DEF ManualInsert, ManualRow, DepositStatuses

LEMMA CommitType ==
  ASSUME TypeOK, NEW r \in Requests, NEW a, NEW row,
         a \in Appts => row \in Row,
         appt' = [appt EXCEPT ![a] = row],
         deposit' \in [Appts -> DepositStatuses],
         clientMoves' \in [Appts -> Nat],
         Finish(r, {a}), now' = now
  PROVE  TypeOK'
<1>1. ProcsOK' /\ stale' \subseteq Procs
  BY FinishType, AppliesToRequests
<1>2. appt' \in [Appts -> Row]
  BY WriteRow DEF TypeOK
<1>. QED
  BY <1>1, <1>2 DEF TypeOK, ProcsOK

LEMMA RescheduleCommitType ==
  ASSUME TypeOK, NEW r \in Requests, RescheduleCommit(r)
  PROVE  TypeOK'
<1>. DEFINE a == proc[r].id
            n == IF proc[r].actor \in Clients THEN appt[a].moves + 1
                 ELSE proc[r].seen.moves
            row == [appt[a] EXCEPT !.tech = proc[r].tech, !.start = proc[r].start,
                                   !.moves = n]
<1>1. /\ proc[r].tech \in Techs \union {None}
      /\ proc[r].start \in Starts \union {0}
      /\ proc[r].seen.moves \in Nat
  BY AppliesToRequests DEF TypeOK, Proc, Row
<1>2. a \in Appts => n \in Nat
  <2>1. SUFFICES ASSUME a \in Appts PROVE n \in Nat
    OBVIOUS
  <2>2. appt[a] \in Row
    BY <2>1 DEF TypeOK
  <2>3. appt[a].moves \in Nat
    BY <2>2 DEF Row
  <2>. QED
    BY <1>1, <2>3
<1>3. a \in Appts => row \in Row
  <2>. HIDE DEF n
  <2>1. SUFFICES ASSUME a \in Appts PROVE row \in Row
    OBVIOUS
  <2>2. appt[a] \in Row /\ n \in Nat
    BY <2>1, <1>2 DEF TypeOK
  <2>. QED
    BY <1>1, <2>2, RowMoved
<1>4. \/ clientMoves' = [clientMoves EXCEPT ![a] = @ + 1]
      \/ clientMoves' = clientMoves
  BY DEF RescheduleCommit
<1>5. clientMoves' \in [Appts -> Nat]
  BY <1>4 DEF TypeOK
<1>6. /\ appt' = [appt EXCEPT ![a] = row]
      /\ deposit' = deposit /\ now' = now /\ Finish(r, {a})
  BY DEF RescheduleCommit
<1>. QED
  BY <1>3, <1>5, <1>6, CommitType DEF TypeOK

LEMMA CancelCommitType ==
  ASSUME TypeOK, NEW r \in Requests, CancelCommit(r)
  PROVE  TypeOK'
<1>. DEFINE a == proc[r].id
            row == [appt[a] EXCEPT !.status = "CANCELLED"]
            d == IF deposit[a] \in OpenDeposits THEN "CANCELLED" ELSE deposit[a]
<1>1. a \in Appts => row \in Row
  BY RowWithStatus DEF TypeOK, Statuses, Final
<1>2. a \in Appts => d \in DepositStatuses
  BY DEF TypeOK, DepositStatuses
<1>3. /\ appt' = [appt EXCEPT ![a] = row]
      /\ deposit' = [deposit EXCEPT ![a] = d]
      /\ now' = now /\ clientMoves' = clientMoves /\ Finish(r, {a})
  BY DEF CancelCommit
<1>4. deposit' \in [Appts -> DepositStatuses]
  BY <1>2, <1>3, WriteDeposit DEF TypeOK
<1>. QED
  BY <1>1, <1>3, <1>4, CommitType DEF TypeOK

LEMMA CloseCommitType ==
  ASSUME TypeOK, NEW r \in Requests, CloseCommit(r)
  PROVE  TypeOK'
<1>. DEFINE a == proc[r].id
            row == [appt[a] EXCEPT !.status = proc[r].target]
<1>1. proc[r].target \in Statuses
  BY AppliesToRequests DEF TypeOK, Proc, Statuses
<1>2. a \in Appts => row \in Row
  BY <1>1, RowWithStatus DEF TypeOK
<1>3. /\ appt' = [appt EXCEPT ![a] = row]
      /\ deposit' = deposit
      /\ now' = now /\ clientMoves' = clientMoves /\ Finish(r, {a})
  BY DEF CloseCommit
<1>. QED
  BY <1>2, <1>3, CommitType DEF TypeOK

LEMMA UploadCommitType ==
  ASSUME TypeOK, NEW r \in Requests, UploadCommit(r)
  PROVE  TypeOK'
<1>. DEFINE a == proc[r].id
            row == [appt[a] EXCEPT !.status = "PENDING_PAYMENT", !.hold = 0]
<1>1. a \in Appts => row \in Row
  BY RowWithStatus DEF TypeOK, Statuses, Blocking
<1>2. /\ appt' = [appt EXCEPT ![a] = row]
      /\ deposit' = [deposit EXCEPT ![a] = "PENDING_REVIEW"]
      /\ now' = now /\ clientMoves' = clientMoves /\ Finish(r, {a})
  BY DEF UploadCommit
<1>3. deposit' \in [Appts -> DepositStatuses]
  BY <1>2, WriteDeposit DEF TypeOK, DepositStatuses
<1>. QED
  BY <1>1, <1>2, <1>3, CommitType DEF TypeOK

LEMMA ReviewCommitType ==
  ASSUME TypeOK, NEW r \in Requests, NEW decision \in {"APPROVED", "REJECTED"},
         ReviewCommit(r, decision)
  PROVE  TypeOK'
<1>. DEFINE a == proc[r].id
            x == IF decision = "APPROVED" THEN "CONFIRMED" ELSE "CANCELLED"
            row == [appt[a] EXCEPT !.status = x, !.hold = 0]
<1>1. x \in Statuses
  BY DEF Statuses, Blocking, Final
<1>2. a \in Appts => row \in Row
  BY <1>1, RowWithStatus DEF TypeOK
<1>3. /\ appt' = [appt EXCEPT ![a] = row]
      /\ deposit' = [deposit EXCEPT ![a] = decision]
      /\ now' = now /\ clientMoves' = clientMoves /\ Finish(r, {a})
  BY DEF ReviewCommit
<1>4. deposit' \in [Appts -> DepositStatuses]
  BY <1>3, WriteDeposit DEF TypeOK, DepositStatuses
<1>. QED
  BY <1>2, <1>3, <1>4, CommitType DEF TypeOK

LEMMA TypeStep == TypeOK /\ [Next]_vars => TypeOK'
<1>. SUFFICES ASSUME TypeOK, [Next]_vars PROVE TypeOK'
  OBVIOUS
<1>1. CASE Tick
  BY <1>1 DEF Tick, TypeOK
<1>2. ASSUME NEW p \in Procs, Abandon(p)
      PROVE  TypeOK'
  BY <1>2, FinishType DEF Abandon, TypeOK, ProcsOK
<1>3. CASE UNCHANGED vars
  BY <1>3 DEF vars, TypeOK
<1>. QED
  BY <1>1, <1>2, <1>3, SweepType, HoldCheckType, HoldCollidesType,
     RescheduleCheckType, CloseCheckType, CheckType, HoldInsertType,
     ManualInsertType, RescheduleCommitType, CancelCommitType, CloseCommitType,
     UploadCommitType, ReviewCommitType DEF Next

\* The tables, the requests and the clock keep their types in every reachable
\* state (AppointmentService and PaymentsService).
THEOREM TypeCorrect == Spec => []TypeOK
  BY TypeInit, TypeStep, PTL DEF Spec

-----------------------------------------------------------------------------
(* What the handlers read, and what they decided from it.                  *)

\* What the checks established before the handler x went on to its write.
DecidedBy(x) ==
    /\ x.stage = "holding" /\ x.quote # None => x.candidates \subseteq {QuoteTech[x.quote]}
    /\ x.stage \in Comparing \union {"storing", "uploading", "reviewing"} => x.id \in Appts
    /\ x.stage \in Comparing =>
           /\ IsBlocking(x.seen)
           /\ Authorized(x.actor, x.seen, x.stage = "closing")
    /\ x.stage = "rescheduling" =>
           /\ MayMoveTo(x.actor, x.seen, x.tech)
           /\ x.actor \in Clients => x.seen.moves < ClientLimit
    /\ x.stage = "closing" =>
           /\ CanClose(x.seen, x.target)
           /\ x.target \in {"COMPLETED", "NO_SHOW"}

Decided == \A r \in Requests : DecidedBy(proc[r])

\* Who may still succeed in comparing has the row as it is.
Fresh ==
    \A r \in Requests :
        proc[r].stage \in Comparing /\ r \notin stale
            => appt[proc[r].id] = proc[r].seen

ReadInv == TypeOK /\ Decided /\ Fresh

-----------------------------------------------------------------------------
(* A process goes on to its next stage.                                    *)

LEMMA OthersDecided ==
  ASSUME TypeOK, Decided, NEW p \in Procs, NEW x, now' = now,
         proc' = [proc EXCEPT ![p] = x], DecidedBy(x)
  PROVE  Decided'
<1>1. \A r \in Requests : proc'[r] = IF r = p THEN x ELSE proc[r]
  BY AppliesToRequests DEF TypeOK
<1>2. \A r \in Requests : DecidedBy(proc'[r])
  BY <1>1 DEF Decided
<1>. QED
  BY <1>2 DEF Decided, DecidedBy, CanClose, EndAt, IsBlocking, Authorized, MayMoveTo

LEMMA FreshAfter ==
  ASSUME TypeOK, Fresh, NEW p \in Procs, NEW x,
         proc' = [proc EXCEPT ![p] = x],
         x.stage \in Comparing => appt'[x.id] = x.seen,
         \A q \in Requests : q # p /\ q \in stale => q \in stale',
         \A q \in Requests : q # p /\ proc[q].stage \in Comparing /\ q \notin stale'
             => appt'[proc[q].id] = appt[proc[q].id]
  PROVE  Fresh'
<1>1. \A r \in Requests : proc'[r] = IF r = p THEN x ELSE proc[r]
  BY AppliesToRequests DEF TypeOK
<1>. QED
  BY <1>1 DEF Fresh

\* A handler that goes on without writing.
LEMMA GoesOn ==
  ASSUME ReadInv, NEW p \in Procs, NEW x, now' = now, appt' = appt, stale' = stale,
         proc' = [proc EXCEPT ![p] = x], DecidedBy(x),
         x.stage \in Comparing => appt[x.id] = x.seen
  PROVE  Decided' /\ Fresh'
<1>1. Decided'
  BY OthersDecided DEF ReadInv
<1>2. Fresh'
  BY FreshAfter DEF ReadInv
<1>. QED
  BY <1>1, <1>2

LEMMA IdleDecided == DecidedBy(Idle) /\ Idle.stage \notin Comparing
  BY DEF DecidedBy, Idle, Comparing

\* A handler that ends, having written at most the row a.
LEMMA Ends ==
  ASSUME ReadInv, NEW p \in Procs, NEW as \in SUBSET Appts, now' = now, Finish(p, as),
         \A b \in Appts : b \notin as => appt'[b] = appt[b]
  PROVE  Decided' /\ Fresh'
<1>1. Decided'
  BY OthersDecided, IdleDecided DEF ReadInv, Finish
<1>2. \A q \in Requests : proc[q].stage \in Comparing => proc[q].id \in Appts
  BY DEF ReadInv, Decided, DecidedBy
<1>3. Fresh'
  <2>1. \A q \in Requests : q # p /\ q \in stale => q \in stale'
    BY DEF Finish
  <2>2. \A q \in Requests : q # p /\ proc[q].stage \in Comparing /\ q \notin stale'
            => appt'[proc[q].id] = appt[proc[q].id]
    BY <1>2, AppliesToRequests DEF Finish, ReadersOf
  <2>. QED
    BY <2>1, <2>2, IdleDecided, FreshAfter DEF ReadInv, Finish
<1>. QED
  BY <1>1, <1>3

LEMMA EndsWriting ==
  ASSUME ReadInv, NEW p \in Procs, NEW a, NEW row, now' = now, Finish(p, {a}),
         appt' = [appt EXCEPT ![a] = row], a \in Appts
  PROVE  Decided' /\ Fresh'
<1>1. \A b \in Appts : b \notin {a} => appt'[b] = appt[b]
  BY DEF ReadInv, TypeOK
<1>. QED
  BY <1>1, Ends

-----------------------------------------------------------------------------
(* Decided and Fresh are invariants.                                       *)

LEMMA ReadInit == Init => Decided /\ Fresh
  BY IdleDecided, AppliesToRequests DEF Init, Decided, Fresh

LEMMA TickRead == ReadInv /\ Tick => Decided' /\ Fresh'
<1>. SUFFICES ASSUME ReadInv, Tick PROVE Decided' /\ Fresh'
  OBVIOUS
<1>1. now \in Nat /\ now' = now + 1 /\ proc' = proc /\ appt' = appt /\ stale' = stale
  BY DEF ReadInv, TypeOK, Tick
<1>2. ASSUME NEW r \in Requests, proc[r].stage = "closing"
      PROVE  CanClose(proc[r].seen, proc[r].target)'
  <2>1. /\ proc[r].seen.start \in Nat
        /\ EndAt(proc[r].seen) \in Nat
    <3>1. proc[r].seen \in Row
      BY AppliesToRequests DEF ReadInv, TypeOK, Proc
    <3>2. /\ proc[r].seen.start \in Starts \union {0}
          /\ proc[r].seen.duration \in Durations \union {0}
      BY <3>1 DEF Row
    <3>3. /\ \A n \in Starts \union {0} : n \in Nat
          /\ \A n \in Durations \union {0} : n \in Nat
      BY TimesAssumption
    <3>4. proc[r].seen.start \in Nat /\ proc[r].seen.duration \in Nat
      BY <3>2, <3>3
    <3>. QED
      BY <3>4 DEF EndAt
  <2>2. CanClose(proc[r].seen, proc[r].target)
    BY <1>2 DEF ReadInv, Decided, DecidedBy
  <2>. QED
    BY <1>1, <2>1, <2>2 DEF CanClose, EndAt
<1>3. ASSUME NEW r \in Requests
      PROVE  DecidedBy(proc[r])'
  <2>1. DecidedBy(proc[r])
    BY DEF ReadInv, Decided
  <2>. QED
    BY <1>1, <1>2, <2>1 DEF DecidedBy, IsBlocking, Authorized, MayMoveTo
<1>. QED
  BY <1>1, <1>3 DEF ReadInv, Decided, Fresh

LEMMA SweepRead ==
  ASSUME ReadInv, NEW p \in Procs, SweepSelect(p) \/ SweepWrite(p)
  PROVE  Decided' /\ Fresh'
<1>1. DecidedBy(AfterSweep(p)) /\ AfterSweep(p).stage \notin Comparing
  BY DEF AfterSweep, DecidedBy, Idle, Comparing
<1>2. CASE SweepSelect(p)
  <2>. DEFINE x == [Idle EXCEPT !.stage = "sweeping", !.found = ExpiredHolds]
  <2>1. DecidedBy(x) /\ x.stage \notin Comparing
    BY DEF DecidedBy, Idle, Comparing
  <2>. QED
    BY <1>1, <1>2, <2>1, GoesOn DEF SweepSelect
<1>3. CASE SweepWrite(p)
  <2>1. Decided'
    BY <1>1, <1>3, OthersDecided DEF ReadInv, SweepWrite
  <2>2. \A q \in Requests : proc[q].stage \in Comparing => proc[q].id \in Appts
    BY DEF ReadInv, Decided, DecidedBy
  <2>3. \A q \in Requests : q # p /\ proc[q].stage \in Comparing /\ q \notin stale'
            => appt'[proc[q].id] = appt[proc[q].id]
    BY <1>3, <2>2, AppliesToRequests DEF SweepWrite, ReadersOf
  <2>4. \A q \in Requests : q # p /\ q \in stale => q \in stale'
    BY <1>3 DEF SweepWrite
  <2>5. proc' = [proc EXCEPT ![p] = AfterSweep(p)]
    BY <1>3 DEF SweepWrite
  <2>6. Fresh'
    BY <1>1, <2>3, <2>4, <2>5, FreshAfter DEF ReadInv
  <2>. QED
    BY <2>1, <2>6
<1>. QED
  BY <1>2, <1>3

LEMMA HoldRead ==
  ASSUME ReadInv, NEW r \in Requests, NEW c \in Clients,
         NEW q \in Quotes \union {None}, NEW s, NEW d, NEW candidates,
         HoldCheck(r, c, q, s, d, candidates)
  PROVE  Decided' /\ Fresh'
<1>. DEFINE x == [Idle EXCEPT !.stage = "holding", !.actor = c, !.quote = q,
                              !.start = s, !.duration = d,
                              !.candidates = candidates]
<1>1. DecidedBy(x) /\ x.stage \notin Comparing
  BY DEF HoldCheck, DecidedBy, Idle, Comparing
<1>. QED
  BY <1>1, GoesOn, AppliesToRequests DEF HoldCheck

LEMMA CollideRead ==
  ASSUME ReadInv, NEW r \in Requests, NEW t \in Techs, HoldCollides(r, t)
  PROVE  Decided' /\ Fresh'
<1>. DEFINE x == [proc[r] EXCEPT !.candidates = @ \ {t}]
<1>1. proc[r] \in Proc /\ DecidedBy(proc[r]) /\ proc[r].stage = "holding"
  BY AppliesToRequests DEF ReadInv, TypeOK, Decided, HoldCollides
<1>2. /\ x.stage = "holding" /\ x.quote = proc[r].quote
      /\ x.candidates = proc[r].candidates \ {t}
  BY <1>1 DEF Proc
<1>3. DecidedBy(x) /\ x.stage \notin Comparing
  BY <1>1, <1>2 DEF DecidedBy, Comparing
<1>. QED
  BY <1>3, IdleDecided, GoesOn, AppliesToRequests DEF HoldCollides

LEMMA CheckRead ==
  ASSUME ReadInv, NEW r \in Requests, NEW actor \in Actors, NEW a \in Appts
  PROVE  /\ \A t \in Techs, s \in Starts :
                RescheduleCheck(r, actor, a, t, s) => Decided' /\ Fresh'
         /\ CancelCheck(r, actor, a) => Decided' /\ Fresh'
         /\ \A target \in {"COMPLETED", "NO_SHOW"} :
                CloseCheck(r, actor, a, target) => Decided' /\ Fresh'
<1>. TypeOK
  BY DEF ReadInv
<1>1. ASSUME NEW t \in Techs, NEW s \in Starts, RescheduleCheck(r, actor, a, t, s)
      PROVE  Decided' /\ Fresh'
  <2>. DEFINE y == Remember(actor, a, "rescheduling")
              x == [y EXCEPT !.tech = t, !.start = s]
  <2>1. /\ y \in Proc /\ y.stage = "rescheduling" /\ y.id = a
        /\ y.seen = appt[a] /\ y.actor = actor
    BY RememberType DEF Stages
  <2>. HIDE DEF y
  <2>2. /\ x.stage = "rescheduling" /\ x.id = a /\ x.seen = appt[a]
        /\ x.actor = actor /\ x.tech = t
    BY <2>1 DEF Proc
  <2>3. proc' = [proc EXCEPT ![r] = x]
    BY <1>1 DEF RescheduleCheck, y
  <2>. HIDE DEF x
  <2>4. DecidedBy(x)
    BY <1>1, <2>2 DEF RescheduleCheck, ReadRow, DecidedBy, Comparing
  <2>. QED
    BY <1>1, <2>2, <2>3, <2>4, GoesOn, AppliesToRequests DEF RescheduleCheck
<1>2. ASSUME CancelCheck(r, actor, a)
      PROVE  Decided' /\ Fresh'
  <2>. DEFINE x == Remember(actor, a, "cancelling")
  <2>1. /\ x.stage = "cancelling" /\ x.id = a
        /\ x.seen = appt[a] /\ x.actor = actor
    BY RememberType DEF Stages
  <2>2. proc' = [proc EXCEPT ![r] = x]
    BY <1>2 DEF CancelCheck
  <2>. HIDE DEF x
  <2>3. DecidedBy(x)
    BY <1>2, <2>1 DEF CancelCheck, ReadRow, DecidedBy, Comparing
  <2>. QED
    BY <1>2, <2>1, <2>2, <2>3, GoesOn, AppliesToRequests DEF CancelCheck
<1>3. ASSUME NEW target \in {"COMPLETED", "NO_SHOW"}, CloseCheck(r, actor, a, target)
      PROVE  Decided' /\ Fresh'
  <2>. DEFINE y == Remember(actor, a, "closing")
              x == [y EXCEPT !.target = target]
  <2>1. /\ y \in Proc /\ y.stage = "closing" /\ y.id = a
        /\ y.seen = appt[a] /\ y.actor = actor
    BY RememberType DEF Stages
  <2>. HIDE DEF y
  <2>2. /\ x.stage = "closing" /\ x.id = a /\ x.seen = appt[a]
        /\ x.actor = actor /\ x.target = target
    BY <2>1 DEF Proc
  <2>3. proc' = [proc EXCEPT ![r] = x]
    BY <1>3 DEF CloseCheck, y
  <2>. HIDE DEF x
  <2>4. DecidedBy(x)
    BY <1>3, <2>2
       DEF CloseCheck, ReadRow, DecidedBy, Comparing, CanClose, IsBlocking, Blocking
  <2>. QED
    BY <1>3, <2>2, <2>3, <2>4, GoesOn, AppliesToRequests DEF CloseCheck
<1>. QED
  BY <1>1, <1>2, <1>3

LEMMA PaymentRead ==
  ASSUME ReadInv, NEW r \in Requests,
         UploadStamp(r) \/ \E a \in Appts : UploadCheck(r, a) \/ ReviewCheck(r, a)
  PROVE  Decided' /\ Fresh'
<1>. TypeOK
  BY DEF ReadInv
<1>1. ASSUME NEW a \in Appts, UploadCheck(r, a)
      PROVE  Decided' /\ Fresh'
  <2>. DEFINE x == [Idle EXCEPT !.stage = "storing", !.id = a]
  <2>1. DecidedBy(x) /\ x.stage \notin Comparing
    BY DEF DecidedBy, Idle, Comparing
  <2>. QED
    BY <1>1, <2>1, GoesOn, AppliesToRequests DEF UploadCheck
<1>2. CASE UploadStamp(r)
  <2>. DEFINE x == [proc[r] EXCEPT !.stage = "uploading", !.stamp = now]
  <2>1. proc[r] \in Proc /\ proc[r].id \in Appts
    BY <1>2, AppliesToRequests DEF TypeOK, ReadInv, Decided, DecidedBy, UploadStamp
  <2>2. x.stage = "uploading" /\ x.id \in Appts
    BY <2>1 DEF Proc
  <2>3. proc' = [proc EXCEPT ![r] = x]
    BY <1>2 DEF UploadStamp
  <2>. HIDE DEF x
  <2>4. DecidedBy(x) /\ x.stage \notin Comparing
    BY <2>2 DEF DecidedBy, Comparing
  <2>. QED
    BY <1>2, <2>3, <2>4, GoesOn, AppliesToRequests DEF UploadStamp
<1>3. ASSUME NEW a \in Appts, ReviewCheck(r, a)
      PROVE  Decided' /\ Fresh'
  <2>. DEFINE x == Remember(Admin, a, "reviewing")
  <2>1. x.stage = "reviewing" /\ x.id = a
    BY RememberType DEF Stages, Actors
  <2>2. proc' = [proc EXCEPT ![r] = x]
    BY <1>3 DEF ReviewCheck
  <2>. HIDE DEF x
  <2>3. DecidedBy(x) /\ x.stage \notin Comparing
    BY <2>1 DEF DecidedBy, Comparing
  <2>. QED
    BY <1>3, <2>2, <2>3, GoesOn, AppliesToRequests DEF ReviewCheck
<1>. QED
  BY <1>1, <1>2, <1>3

\* The steps of Next: those that write neither table, and the seven that do.
Commits(r) ==
    \/ RescheduleCommit(r) \/ CancelCommit(r) \/ CloseCommit(r) \/ UploadCommit(r)
    \/ \E decision \in {"APPROVED", "REJECTED"} : ReviewCommit(r, decision)

Inserts(r) ==
    \E t \in Techs, a \in Appts :
        \/ HoldInsert(r, t, a)
        \/ \E actor \in Techs \union {Admin}, c \in Clients \union {None},
              s \in Starts, d \in Durations : ManualInsert(r, actor, c, t, s, d, a)

LEMMA CommitRead ==
  ASSUME ReadInv, NEW r \in Requests, Commits(r)
  PROVE  /\ Decided' /\ Fresh'
         /\ proc[r].id \in Appts
         /\ now' = now
<1>1. /\ proc[r].stage \in Comparing \union {"uploading", "reviewing"}
      /\ now' = now
      /\ Finish(r, {proc[r].id})
  BY DEF Commits, RescheduleCommit, CancelCommit, CloseCommit, UploadCommit,
         ReviewCommit, Comparing
<1>2. proc[r].id \in Appts
  BY <1>1 DEF ReadInv, Decided, DecidedBy
<1>3. \A b \in Appts : b \notin {proc[r].id} => appt'[b] = appt[b]
  <2>1. \E row : appt' = [appt EXCEPT ![proc[r].id] = row]
    BY DEF Commits, RescheduleCommit, CancelCommit, CloseCommit, UploadCommit,
           ReviewCommit
  <2>. QED
    BY <2>1 DEF ReadInv, TypeOK
<1>. QED
  BY <1>1, <1>2, <1>3, Ends, AppliesToRequests

LEMMA InsertRead ==
  ASSUME ReadInv, NEW r \in Requests, Inserts(r)
  PROVE  /\ Decided' /\ Fresh'
         /\ now' = now
<1>1. PICK a \in Appts :
         Finish(r, {a}) /\ now' = now /\ \E row, d : InsertRow(a, row, d)
  BY DEF Inserts, HoldInsert, ManualInsert
<1>2. \A b \in Appts : b \notin {a} => appt'[b] = appt[b]
  BY <1>1 DEF InsertRow, ReadInv, TypeOK
<1>. QED
  BY <1>1, <1>2, Ends, AppliesToRequests

LEMMA Steps ==
  ASSUME [Next]_vars
  PROVE  \/ UNCHANGED <<appt, deposit, clientMoves>> /\ (now' = now \/ Tick)
         \/ \E p \in Procs : SweepWrite(p)
         \/ \E r \in Requests : Inserts(r) \/ Commits(r)
<1>1. CASE UNCHANGED vars
  BY <1>1 DEF vars
<1>2. CASE Tick
  BY <1>2 DEF Tick
<1>3. ASSUME NEW p \in Procs, SweepSelect(p) \/ Abandon(p)
      PROVE  UNCHANGED <<appt, deposit, clientMoves>> /\ now' = now
  BY <1>3 DEF SweepSelect, Abandon
<1>4. ASSUME NEW r \in Requests,
             \/ \E c \in Clients, q \in Quotes \union {None}, s \in Starts,
                   d \in Durations, candidates \in SUBSET Techs :
                      HoldCheck(r, c, q, s, d, candidates)
             \/ \E t \in Techs : HoldCollides(r, t)
             \/ \E actor \in Actors, a \in Appts, t \in Techs, s \in Starts :
                   RescheduleCheck(r, actor, a, t, s)
             \/ \E actor \in Actors, a \in Appts : CancelCheck(r, actor, a)
             \/ \E actor \in Actors, a \in Appts, target \in {"COMPLETED", "NO_SHOW"} :
                   CloseCheck(r, actor, a, target)
             \/ \E a \in Appts : UploadCheck(r, a)
             \/ UploadStamp(r)
             \/ \E a \in Appts : ReviewCheck(r, a)
      PROVE  UNCHANGED <<appt, deposit, clientMoves>> /\ now' = now
  BY <1>4 DEF HoldCheck, HoldCollides, RescheduleCheck, CancelCheck, CloseCheck,
              UploadCheck, UploadStamp, ReviewCheck
<1>. QED
  BY <1>1, <1>2, <1>3, <1>4 DEF Next, Inserts, Commits

LEMMA ReadStep == ReadInv /\ [Next]_vars => Decided' /\ Fresh'
<1>. SUFFICES ASSUME ReadInv, [Next]_vars PROVE Decided' /\ Fresh'
  OBVIOUS
<1>1. CASE UNCHANGED vars
  BY <1>1 DEF vars, ReadInv, Decided, DecidedBy, Fresh, CanClose, EndAt, IsBlocking,
              Authorized, MayMoveTo
<1>2. ASSUME NEW p \in Procs, Abandon(p)
      PROVE  Decided' /\ Fresh'
  BY <1>2, Ends DEF Abandon
<1>. QED
  BY <1>1, <1>2, TickRead, SweepRead, HoldRead, CollideRead, CheckRead, PaymentRead,
     CommitRead, InsertRead DEF Next, Inserts, Commits

\* While a handler may still succeed in its conditional write, the row is as it
\* read it and its checks hold of it (reschedule, cancel, updateStatus).
THEOREM ReadsStayTrue == Spec => []ReadInv
  BY TypeCorrect, ReadInit, ReadStep, PTL DEF Spec, ReadInv

-----------------------------------------------------------------------------
(* What the writes do to a row and its deposit.                            *)

SamePlace(a) == /\ appt'[a].tech = appt[a].tech
                /\ appt'[a].start = appt[a].start
                /\ appt'[a].moves = appt[a].moves
                /\ clientMoves'[a] = clientMoves[a]

SameBooking(a) == /\ appt'[a].source = appt[a].source
                  /\ appt'[a].duration = appt[a].duration
                  /\ appt'[a].quote = appt[a].quote

Untouched(a) == /\ appt'[a] = appt[a] /\ deposit'[a] = deposit[a]
                /\ clientMoves'[a] = clientMoves[a]

Moved(a, r) ==
    /\ IsBlocking(appt[a]) /\ appt[a] = proc[r].seen
    /\ MayMoveTo(proc[r].actor, proc[r].seen, proc[r].tech)
    /\ SlotFree(a, appt'[a].tech, appt'[a].start, appt'[a].duration)
    /\ appt'[a].status = appt[a].status /\ deposit'[a] = deposit[a]
    /\ appt'[a].tech = proc[r].tech /\ appt'[a].start = proc[r].start
    /\ IF proc[r].actor \in Clients
       THEN /\ appt[a].moves < ClientLimit
            /\ appt'[a].moves = appt[a].moves + 1
            /\ clientMoves'[a] = clientMoves[a] + 1
       ELSE /\ appt'[a].moves = appt[a].moves
            /\ clientMoves'[a] = clientMoves[a]

Cancelled(a) ==
    /\ IsBlocking(appt[a]) /\ appt'[a].status = "CANCELLED"
    /\ deposit'[a] = IF deposit[a] \in OpenDeposits THEN "CANCELLED" ELSE deposit[a]

Closed(a) ==
    /\ appt[a].status = "CONFIRMED" /\ deposit'[a] = deposit[a]
    /\ appt'[a].status \in {"COMPLETED", "NO_SHOW"}
    /\ CanClose(appt[a], appt'[a].status)

Uploaded(a) ==
    /\ appt[a].status = "HELD"
    /\ appt'[a].status = "PENDING_PAYMENT" /\ deposit'[a] = "PENDING_REVIEW"

Reviewed(a) ==
    /\ appt[a].status = "PENDING_PAYMENT" /\ deposit[a] = "PENDING_REVIEW"
    /\ \/ appt'[a].status = "CONFIRMED" /\ deposit'[a] = "APPROVED"
       \/ appt'[a].status = "CANCELLED" /\ deposit'[a] = "REJECTED"

Lapsed(a) ==
    /\ appt[a].status = "HELD" /\ appt'[a].status = "EXPIRED"
    /\ deposit'[a] = IF deposit[a] = "AWAITING_RECEIPT" THEN "EXPIRED" ELSE deposit[a]

Booked(a) ==
    /\ appt[a].status = "ABSENT"
    /\ SlotFree(a, appt'[a].tech, appt'[a].start, appt'[a].duration)
    /\ QuoteFree(appt'[a].quote)
    /\ appt'[a].moves = 0 /\ clientMoves'[a] = clientMoves[a]
    /\ \/ /\ appt'[a].status = "HELD" /\ appt'[a].source = "ONLINE"
          /\ deposit'[a] = "AWAITING_RECEIPT"
          /\ appt'[a].quote # None => appt'[a].tech = QuoteTech[appt'[a].quote]
       \/ /\ appt'[a].status = "CONFIRMED" /\ appt'[a].source = "MANUAL"
          /\ deposit'[a] = "NONE" /\ appt'[a].quote = None

LEMMA Written ==
  ASSUME TypeOK, NEW a \in Appts, NEW row, appt' = [appt EXCEPT ![a] = row]
  PROVE  /\ appt'[a] = row
         /\ \A b \in Appts : b # a => appt'[b] = appt[b]
  BY DEF TypeOK

LEMMA DepositWritten ==
  ASSUME TypeOK, NEW a \in Appts, NEW d, deposit' = [deposit EXCEPT ![a] = d]
  PROVE  /\ deposit'[a] = d
         /\ \A b \in Appts : b # a => deposit'[b] = deposit[b]
  BY DEF TypeOK

LEMMA StatusWritten ==
  ASSUME NEW row \in Row, NEW x, NEW new,
         \/ new = [row EXCEPT !.status = x]
         \/ new = [row EXCEPT !.status = x, !.hold = 0]
  PROVE  /\ new.status = x /\ new.source = row.source /\ new.tech = row.tech
         /\ new.start = row.start /\ new.duration = row.duration
         /\ new.quote = row.quote /\ new.moves = row.moves
  BY DEF Row

LEMMA SeenAsItIs ==
  ASSUME ReadInv, NEW r \in Requests, proc[r].stage \in Comparing, Unchanged(r)
  PROVE  /\ proc[r].id \in Appts
         /\ appt[proc[r].id] = proc[r].seen
         /\ IsBlocking(proc[r].seen)
         /\ DecidedBy(proc[r])
  BY DEF ReadInv, Decided, DecidedBy, Fresh, Unchanged

LEMMA MoveFields ==
  ASSUME ReadInv, NEW r \in Requests, RescheduleCommit(r)
  PROVE  LET a == proc[r].id IN
         a \in Appts /\ SameBooking(a) /\ Moved(a, r)
         /\ \A b \in Appts : b # a => Untouched(b)
<1>. DEFINE a == proc[r].id
            n == IF proc[r].actor \in Clients THEN appt[a].moves + 1
                 ELSE proc[r].seen.moves
            row == [appt[a] EXCEPT !.tech = proc[r].tech, !.start = proc[r].start,
                                   !.moves = n]
<1>1. proc[r].stage = "rescheduling" /\ Unchanged(r)
  BY DEF RescheduleCommit
<1>2. /\ a \in Appts /\ appt[a] = proc[r].seen /\ IsBlocking(appt[a])
      /\ MayMoveTo(proc[r].actor, proc[r].seen, proc[r].tech)
      /\ proc[r].actor \in Clients => proc[r].seen.moves < ClientLimit
  BY <1>1, SeenAsItIs DEF Comparing, DecidedBy
<1>3. appt' = [appt EXCEPT ![a] = row] /\ deposit' = deposit
  BY DEF RescheduleCommit
<1>4. /\ appt[a] \in Row
      /\ appt'[a] = row
      /\ \A b \in Appts : b # a => appt'[b] = appt[b]
  BY <1>2, <1>3, Written DEF ReadInv, TypeOK
<1>5. /\ row.tech = proc[r].tech /\ row.start = proc[r].start /\ row.moves = n
      /\ row.status = appt[a].status /\ row.source = appt[a].source
      /\ row.duration = appt[a].duration /\ row.quote = appt[a].quote
  <2>. HIDE DEF n
  <2>. QED
    BY <1>4 DEF Row
<1>6. SlotFree(a, proc[r].tech, proc[r].start, appt[a].duration)
  BY DEF RescheduleCommit
<1>7. IF proc[r].actor \in Clients
      THEN /\ clientMoves'[a] = clientMoves[a] + 1
           /\ \A b \in Appts : b # a => clientMoves'[b] = clientMoves[b]
      ELSE clientMoves' = clientMoves
  BY <1>2 DEF RescheduleCommit, ReadInv, TypeOK
<1>. HIDE DEF row
<1>. QED
  BY <1>2, <1>3, <1>4, <1>5, <1>6, <1>7 DEF Moved, SameBooking, Untouched

LEMMA StatusFields ==
  ASSUME TypeOK, NEW a \in Appts, NEW x, NEW d,
         \/ appt' = [appt EXCEPT ![a] = [appt[a] EXCEPT !.status = x]]
         \/ appt' = [appt EXCEPT ![a] = [appt[a] EXCEPT !.status = x, !.hold = 0]],
         deposit' = [deposit EXCEPT ![a] = d],
         clientMoves' = clientMoves
  PROVE  /\ SameBooking(a) /\ SamePlace(a)
         /\ \A b \in Appts : b # a => Untouched(b)
         /\ appt'[a].status = x /\ deposit'[a] = d
<1>1. appt[a] \in Row
  BY DEF TypeOK
<1>2. PICK row : /\ appt' = [appt EXCEPT ![a] = row]
                 /\ \/ row = [appt[a] EXCEPT !.status = x]
                    \/ row = [appt[a] EXCEPT !.status = x, !.hold = 0]
  OBVIOUS
<1>3. appt'[a] = row /\ \A b \in Appts : b # a => appt'[b] = appt[b]
  BY <1>2, Written
<1>4. deposit'[a] = d /\ \A b \in Appts : b # a => deposit'[b] = deposit[b]
  BY DepositWritten
<1>5. /\ row.status = x /\ row.source = appt[a].source /\ row.tech = appt[a].tech
      /\ row.start = appt[a].start /\ row.duration = appt[a].duration
      /\ row.quote = appt[a].quote /\ row.moves = appt[a].moves
  BY <1>1, <1>2 DEF Row
<1>. QED
  BY <1>3, <1>4, <1>5 DEF SameBooking, SamePlace, Untouched

LEMMA CancelFields ==
  ASSUME ReadInv, NEW r \in Requests, CancelCommit(r)
  PROVE  LET a == proc[r].id IN
         a \in Appts /\ SameBooking(a) /\ SamePlace(a) /\ Cancelled(a)
         /\ \A b \in Appts : b # a => Untouched(b)
<1>1. proc[r].stage = "cancelling" /\ Unchanged(r)
  BY DEF CancelCommit
<1>2. proc[r].id \in Appts /\ IsBlocking(appt[proc[r].id])
  BY <1>1, SeenAsItIs DEF Comparing
<1>. DEFINE a == proc[r].id
            d == IF deposit[a] \in OpenDeposits THEN "CANCELLED" ELSE deposit[a]
<1>3. TypeOK
  BY DEF ReadInv
<1>4. /\ appt' = [appt EXCEPT ![a] = [appt[a] EXCEPT !.status = "CANCELLED"]]
      /\ deposit' = [deposit EXCEPT ![a] = d]
      /\ clientMoves' = clientMoves
  BY DEF CancelCommit
<1>5. /\ SameBooking(a) /\ SamePlace(a)
      /\ \A b \in Appts : b # a => Untouched(b)
      /\ appt'[a].status = "CANCELLED" /\ deposit'[a] = d
  <2>. HIDE DEF d
  <2>. QED
    BY <1>2, <1>3, <1>4, StatusFields
<1>. QED
  BY <1>2, <1>5 DEF Cancelled

LEMMA CloseFields ==
  ASSUME ReadInv, NEW r \in Requests, CloseCommit(r)
  PROVE  LET a == proc[r].id IN
         a \in Appts /\ SameBooking(a) /\ SamePlace(a) /\ Closed(a)
         /\ \A b \in Appts : b # a => Untouched(b)
<1>. DEFINE a == proc[r].id
<1>1. proc[r].stage = "closing" /\ Unchanged(r)
  BY DEF CloseCommit
<1>2. /\ a \in Appts /\ CanClose(appt[a], proc[r].target)
      /\ proc[r].target \in {"COMPLETED", "NO_SHOW"}
  BY <1>1, SeenAsItIs DEF Comparing, DecidedBy
<1>3. TypeOK
  BY DEF ReadInv
<1>4. deposit' = [deposit EXCEPT ![a] = deposit[a]]
  BY <1>2, <1>3 DEF CloseCommit, TypeOK
<1>5. /\ appt' = [appt EXCEPT ![a] = [appt[a] EXCEPT !.status = proc[r].target]]
      /\ clientMoves' = clientMoves
  BY DEF CloseCommit
<1>6. /\ SameBooking(a) /\ SamePlace(a)
      /\ \A b \in Appts : b # a => Untouched(b)
      /\ appt'[a].status = proc[r].target /\ deposit'[a] = deposit[a]
  BY <1>2, <1>3, <1>4, <1>5, StatusFields
<1>. QED
  BY <1>2, <1>6 DEF Closed, CanClose

LEMMA UploadFields ==
  ASSUME ReadInv, NEW r \in Requests, UploadCommit(r)
  PROVE  LET a == proc[r].id IN
         a \in Appts /\ SameBooking(a) /\ SamePlace(a) /\ Uploaded(a)
         /\ \A b \in Appts : b # a => Untouched(b)
<1>1. proc[r].stage = "uploading" /\ appt[proc[r].id].status = "HELD"
  BY DEF UploadCommit, StillHeld
<1>2. proc[r].id \in Appts
  BY <1>1 DEF ReadInv, Decided, DecidedBy
<1>3. TypeOK
  BY DEF ReadInv
<1>. QED
  BY <1>1, <1>2, <1>3, StatusFields DEF UploadCommit, Uploaded

LEMMA ReviewFields ==
  ASSUME ReadInv, NEW r \in Requests, NEW decision \in {"APPROVED", "REJECTED"},
         ReviewCommit(r, decision)
  PROVE  LET a == proc[r].id IN
         a \in Appts /\ SameBooking(a) /\ SamePlace(a) /\ Reviewed(a)
         /\ \A b \in Appts : b # a => Untouched(b)
<1>. DEFINE a == proc[r].id
            x == IF decision = "APPROVED" THEN "CONFIRMED" ELSE "CANCELLED"
<1>1. /\ proc[r].stage = "reviewing" /\ appt[a].status = "PENDING_PAYMENT"
      /\ deposit[a] = "PENDING_REVIEW"
  BY DEF ReviewCommit, Reviewable
<1>2. proc[r].id \in Appts
  BY <1>1 DEF ReadInv, Decided, DecidedBy
<1>3. TypeOK
  BY DEF ReadInv
<1>4. /\ SameBooking(a) /\ SamePlace(a)
      /\ \A b \in Appts : b # a => Untouched(b)
      /\ appt'[a].status = x /\ deposit'[a] = decision
  BY <1>2, <1>3, StatusFields DEF ReviewCommit
<1>. QED
  BY <1>1, <1>2, <1>4 DEF Reviewed

LEMMA CommitFields ==
  ASSUME ReadInv, NEW r \in Requests, Commits(r)
  PROVE  LET a == proc[r].id IN
         /\ a \in Appts /\ SameBooking(a)
         /\ \A b \in Appts : b # a => Untouched(b)
         /\ \/ Moved(a, r)
            \/ SamePlace(a) /\ (Cancelled(a) \/ Closed(a) \/ Uploaded(a) \/ Reviewed(a))
<1>1. CASE RescheduleCommit(r)
  BY <1>1, MoveFields
<1>2. CASE CancelCommit(r)
  BY <1>2, CancelFields
<1>3. CASE CloseCommit(r)
  BY <1>3, CloseFields
<1>4. CASE UploadCommit(r)
  BY <1>4, UploadFields
<1>5. ASSUME NEW decision \in {"APPROVED", "REJECTED"}, ReviewCommit(r, decision)
      PROVE  LET a == proc[r].id IN
             a \in Appts /\ SameBooking(a) /\ SamePlace(a) /\ Reviewed(a)
             /\ \A b \in Appts : b # a => Untouched(b)
  BY <1>5, ReviewFields
<1>. QED
  BY <1>1, <1>2, <1>3, <1>4, <1>5 DEF Commits

LEMMA SweepFields ==
  ASSUME ReadInv, NEW p \in Procs, SweepWrite(p), NEW a \in Appts
  PROVE  /\ SameBooking(a) /\ SamePlace(a)
         /\ \/ Lapsed(a)
            \/ /\ appt'[a] = appt[a]
               /\ \/ deposit'[a] = deposit[a]
                  \/ appt[a].status # "HELD" /\ deposit[a] = "AWAITING_RECEIPT"
<1>1. /\ appt'[a] = IF a \in Lapsing(p) THEN [appt[a] EXCEPT !.status = "EXPIRED"]
                    ELSE appt[a]
      /\ deposit'[a] = IF a \in proc[p].found /\ deposit[a] = "AWAITING_RECEIPT"
                       THEN "EXPIRED" ELSE deposit[a]
      /\ clientMoves' = clientMoves
  BY DEF SweepWrite
<1>2. appt[a] \in Row
  BY DEF ReadInv, TypeOK
<1>3. CASE a \in Lapsing(p)
  <2>1. appt'[a] = [appt[a] EXCEPT !.status = "EXPIRED"]
    BY <1>1, <1>3
  <2>2. appt'[a].status = "EXPIRED" /\ SameBooking(a) /\ SamePlace(a)
    BY <1>1, <1>2, <2>1 DEF Row, SameBooking, SamePlace
  <2>. QED
    BY <1>1, <1>3, <2>2 DEF Lapsing, Lapsed
<1>4. CASE a \notin Lapsing(p)
  BY <1>1, <1>4 DEF Lapsing, SameBooking, SamePlace
<1>. QED
  BY <1>3, <1>4

LEMMA InsertFields ==
  ASSUME ReadInv, NEW r \in Requests, Inserts(r)
  PROVE  \E a \in Appts : Booked(a) /\ \A b \in Appts : b # a => Untouched(b)
<1>. TypeOK
  BY DEF ReadInv
<1>1. ASSUME NEW t \in Techs, NEW a \in Appts, HoldInsert(r, t, a)
      PROVE  Booked(a) /\ \A b \in Appts : b # a => Untouched(b)
  <2>. DEFINE row == HeldRow(r, t)
  <2>1. /\ row.status = "HELD" /\ row.source = "ONLINE" /\ row.tech = t
        /\ row.quote = proc[r].quote /\ row.moves = 0
    BY DEF HeldRow, NoRow
  <2>. HIDE DEF row
  <2>2. /\ InsertRow(a, row, "AWAITING_RECEIPT") /\ clientMoves' = clientMoves
        /\ proc[r].stage = "holding" /\ t \in proc[r].candidates
    BY <1>1 DEF HoldInsert, row
  <2>3. /\ appt'[a] = row /\ deposit'[a] = "AWAITING_RECEIPT"
        /\ \A b \in Appts : b # a => Untouched(b)
    BY <2>2, Written, DepositWritten DEF InsertRow, Untouched
  <2>4. proc[r].quote # None => t = QuoteTech[proc[r].quote]
    BY <2>2 DEF ReadInv, Decided, DecidedBy
  <2>. QED
    BY <2>1, <2>2, <2>3, <2>4 DEF InsertRow, QuoteIndexAdmits, Booked
<1>2. ASSUME NEW t \in Techs, NEW a \in Appts, NEW actor \in Techs \union {Admin},
             NEW c \in Clients \union {None}, NEW s \in Starts, NEW d \in Durations,
             ManualInsert(r, actor, c, t, s, d, a)
      PROVE  Booked(a) /\ \A b \in Appts : b # a => Untouched(b)
  <2>. DEFINE row == ManualRow(c, t, s, d)
  <2>1. /\ row.status = "CONFIRMED" /\ row.source = "MANUAL"
        /\ row.quote = None /\ row.moves = 0
    BY DEF ManualRow, NoRow
  <2>2. InsertRow(a, row, "NONE") /\ clientMoves' = clientMoves
    BY <1>2 DEF ManualInsert, ManualRow
  <2>. HIDE DEF row
  <2>3. /\ appt'[a] = row /\ deposit'[a] = "NONE"
        /\ \A b \in Appts : b # a => Untouched(b)
    BY <2>2, Written, DepositWritten DEF InsertRow, Untouched
  <2>. QED
    BY <2>1, <2>2, <2>3 DEF InsertRow, QuoteIndexAdmits, Booked
<1>. QED
  BY <1>1, <1>2 DEF Inserts

\* Every step, seen from one row.
Left(a) ==
    /\ appt'[a] = appt[a] /\ clientMoves'[a] = clientMoves[a]
    /\ \/ deposit'[a] = deposit[a]
       \/ appt[a].status # "HELD" /\ deposit[a] = "AWAITING_RECEIPT"

OthersUntouched(a) == \A b \in Appts : b # a => Untouched(b)

RowStep(a) ==
    \/ Left(a)
    \/ Booked(a) /\ OthersUntouched(a)
    \/ /\ SameBooking(a) /\ OthersUntouched(a)
       /\ \E r \in Requests : Moved(a, r)
    \/ /\ SameBooking(a) /\ SamePlace(a) /\ now' = now
       /\ Cancelled(a) \/ Closed(a) \/ Uploaded(a) \/ Reviewed(a) \/ Lapsed(a)

LEMMA EveryRow == ReadInv /\ [Next]_vars => \A a \in Appts : RowStep(a)
<1>. SUFFICES ASSUME ReadInv, [Next]_vars, NEW a \in Appts PROVE RowStep(a)
  OBVIOUS
<1>1. ASSUME NEW p \in Procs, SweepWrite(p)
      PROVE  RowStep(a)
  <2>1. now' = now /\ clientMoves' = clientMoves
    BY <1>1 DEF SweepWrite
  <2>. QED
    BY <1>1, <2>1, SweepFields DEF RowStep, Left
<1>2. ASSUME NEW r \in Requests, Inserts(r)
      PROVE  RowStep(a)
  BY <1>2, InsertFields DEF RowStep, OthersUntouched, Untouched, Left
<1>3. ASSUME NEW r \in Requests, Commits(r)
      PROVE  RowStep(a)
  BY <1>3, CommitFields, CommitRead DEF RowStep, OthersUntouched, Untouched, Left
<1>4. CASE UNCHANGED <<appt, deposit, clientMoves>>
  BY <1>4 DEF RowStep, Left
<1>. QED
  BY <1>1, <1>2, <1>3, <1>4, Steps

LEMMA Clock == TypeOK /\ [Next]_vars => now \in Nat /\ (now' = now \/ now' = now + 1)
<1>. SUFFICES ASSUME TypeOK, [Next]_vars PROVE now' = now \/ now' = now + 1
  BY DEF TypeOK
<1>1. ASSUME NEW r \in Requests, Inserts(r) \/ Commits(r)
      PROVE  now' = now
  BY <1>1 DEF Inserts, HoldInsert, ManualInsert, Commits, RescheduleCommit,
              CancelCommit, CloseCommit, UploadCommit, ReviewCommit
<1>. QED
  BY <1>1, Steps DEF SweepWrite, Tick

-----------------------------------------------------------------------------
(* The properties.                                                         *)

LEMMA DepositStep == ReadInv /\ DepositAgrees /\ [Next]_vars => DepositAgrees'
<1>. SUFFICES ASSUME ReadInv, DepositAgrees, [Next]_vars, NEW a \in Appts
              PROVE  /\ deposit'[a] \in DepositsOf(appt'[a])
                     /\ appt'[a].source = "MANUAL" =>
                            appt'[a].status \in {"CONFIRMED", "COMPLETED", "NO_SHOW", "CANCELLED"}
  BY DEF DepositAgrees
<1>1. /\ deposit[a] \in DepositsOf(appt[a])
      /\ appt[a].source = "MANUAL" =>
             appt[a].status \in {"CONFIRMED", "COMPLETED", "NO_SHOW", "CANCELLED"}
  BY DEF DepositAgrees
<1>2. appt[a].status \in Statuses
  BY DEF ReadInv, TypeOK, Row
<1>3. CASE Left(a)
  <2>1. deposit[a] = "AWAITING_RECEIPT" => appt[a].status = "HELD"
    BY <1>1, <1>2 DEF DepositsOf, Statuses, Final, Blocking
  <2>. QED
    BY <1>1, <1>3, <2>1 DEF Left
<1>4. CASE Booked(a)
  BY <1>4 DEF Booked, DepositsOf
<1>5. ASSUME SameBooking(a), NEW r \in Requests, Moved(a, r)
      PROVE  /\ deposit'[a] \in DepositsOf(appt'[a])
             /\ appt'[a].source = "MANUAL" =>
                    appt'[a].status \in {"CONFIRMED", "COMPLETED", "NO_SHOW", "CANCELLED"}
  BY <1>1, <1>5 DEF SameBooking, Moved, DepositsOf
<1>6. CASE SameBooking(a) /\ Cancelled(a)
  BY <1>1, <1>6 DEF SameBooking, Cancelled, DepositsOf, OpenDeposits, IsBlocking, Blocking
<1>7. CASE SameBooking(a) /\ Closed(a)
  BY <1>1, <1>7 DEF SameBooking, Closed, DepositsOf
<1>8. CASE SameBooking(a) /\ (Uploaded(a) \/ Reviewed(a))
  BY <1>1, <1>8 DEF SameBooking, Uploaded, Reviewed, DepositsOf
<1>9. CASE SameBooking(a) /\ Lapsed(a)
  BY <1>1, <1>9 DEF SameBooking, Lapsed, DepositsOf
<1>. QED
  BY <1>3, <1>4, <1>5, <1>6, <1>7, <1>8, <1>9, EveryRow DEF RowStep

\* The deposit's status and its appointment's always tell the same story
\* (createHold, uploadReceipt, review, cancel, updateStatus and the expiry job).
THEOREM DepositsAgree == Spec => []DepositAgrees
<1>1. Init => DepositAgrees
  BY DEF Init, DepositAgrees, DepositsOf, NoRow
<1>. QED
  BY <1>1, DepositStep, ReadsStayTrue, PTL DEF Spec

\* An appointment in a final status never changes again (all handlers).
THEOREM FinalStaysFinal == Spec => FinalIsFinal
<1>1. ReadInv /\ [Next]_vars
          => \A a \in Appts : appt[a].status \in Final => appt'[a] = appt[a]
  <2>. SUFFICES ASSUME ReadInv, [Next]_vars, NEW a \in Appts, appt[a].status \in Final
                PROVE  appt'[a] = appt[a]
    OBVIOUS
  <2>1. RowStep(a)
    BY EveryRow
  <2>2. appt[a].status \notin Blocking \union {"ABSENT"}
    BY DEF Final, Blocking
  <2>. QED
    BY <2>1, <2>2 DEF RowStep, Left, Booked, Moved, Cancelled, Closed, Uploaded,
                      Reviewed, Lapsed, IsBlocking, Blocking
<1>. QED
  BY <1>1, ReadsStayTrue, PTL DEF Spec, FinalIsFinal

\* No two blocking appointments of a technician overlap (createHold,
\* createManual and reschedule against the exclusion constraint).
THEOREM NeverOverlaps == Spec => []NoOverlap
<1>1. Init => NoOverlap
  BY DEF Init, NoOverlap, NoRow, IsBlocking, Blocking
<1>2. ReadInv /\ NoOverlap /\ [Next]_vars => NoOverlap'
  <2>. SUFFICES ASSUME ReadInv, NoOverlap, [Next]_vars,
                       NEW a \in Appts, NEW b \in Appts, a # b,
                       IsBlocking(appt'[a]), IsBlocking(appt'[b]),
                       appt'[a].tech = appt'[b].tech
                PROVE  ~Overlap(appt'[a].start, appt'[a].duration,
                                appt'[b].start, appt'[b].duration)
    BY DEF NoOverlap, IsBlocking
  <2>1. RowStep(a) /\ RowStep(b)
    BY EveryRow
  \* A row that takes a place while the other row stays as it is.
  <2>2. ASSUME NEW x \in Appts, NEW y \in Appts, x # y, appt'[y] = appt[y],
               IsBlocking(appt'[y]), appt'[x].tech = appt'[y].tech,
               SlotFree(x, appt'[x].tech, appt'[x].start, appt'[x].duration)
        PROVE  ~Overlap(appt'[x].start, appt'[x].duration,
                        appt'[y].start, appt'[y].duration)
    BY <2>2 DEF SlotFree, IsBlocking
  <2>3. ASSUME NEW x \in Appts, NEW y \in Appts, x # y,
               IsBlocking(appt'[y]), appt'[x].tech = appt'[y].tech,
               \/ Booked(x) /\ OthersUntouched(x)
               \/ OthersUntouched(x) /\ \E r \in Requests : Moved(x, r)
        PROVE  ~Overlap(appt'[x].start, appt'[x].duration,
                        appt'[y].start, appt'[y].duration)
    BY <2>2, <2>3 DEF Booked, Moved, OthersUntouched, Untouched
  <2>4. \A s1, d1, s2, d2 : Overlap(s1, d1, s2, d2) <=> Overlap(s2, d2, s1, d1)
    BY DEF Overlap
  <2>5. CASE \E x \in {a, b} : \/ Booked(x) /\ OthersUntouched(x)
                               \/ OthersUntouched(x) /\ \E r \in Requests : Moved(x, r)
    BY <2>3, <2>4, <2>5
  <2>6. ASSUME NEW x \in Appts, RowStep(x), IsBlocking(appt'[x]),
               ~(Booked(x) /\ OthersUntouched(x)),
               ~(OthersUntouched(x) /\ \E r \in Requests : Moved(x, r))
        PROVE  /\ IsBlocking(appt[x]) /\ appt'[x].tech = appt[x].tech
               /\ appt'[x].start = appt[x].start /\ appt'[x].duration = appt[x].duration
    BY <2>6 DEF RowStep, Left, SameBooking, SamePlace, Cancelled, Closed, Uploaded,
                Reviewed, Lapsed, IsBlocking, Blocking
  <2>. QED
    BY <2>1, <2>5, <2>6 DEF NoOverlap
<1>. QED
  BY <1>1, <1>2, ReadsStayTrue, PTL DEF Spec

\* A quote has at most one blocking appointment (createHold against the partial
\* unique index).
THEOREM QuotesBookedOnce == Spec => []QuoteBookedOnce
<1>1. Init => QuoteBookedOnce
  BY DEF Init, QuoteBookedOnce, NoRow, IsBlocking, Blocking
<1>2. ReadInv /\ QuoteBookedOnce /\ [Next]_vars => QuoteBookedOnce'
  <2>. SUFFICES ASSUME ReadInv, QuoteBookedOnce, [Next]_vars,
                       NEW a \in Appts, NEW b \in Appts, a # b,
                       IsBlocking(appt'[a]), IsBlocking(appt'[b]), appt'[a].quote # None
                PROVE  appt'[a].quote # appt'[b].quote
    BY DEF QuoteBookedOnce, IsBlocking
  <2>1. RowStep(a) /\ RowStep(b)
    BY EveryRow
  <2>2. ASSUME NEW x \in Appts, NEW y \in Appts, x # y, IsBlocking(appt'[y]),
               Booked(x), OthersUntouched(x)
        PROVE  appt'[x].quote = None \/ appt'[x].quote # appt'[y].quote
    BY <2>2 DEF Booked, QuoteFree, OthersUntouched, Untouched, IsBlocking
  <2>3. CASE \E x \in {a, b} : Booked(x) /\ OthersUntouched(x)
    BY <2>2, <2>3
  <2>4. ASSUME NEW x \in Appts, RowStep(x), IsBlocking(appt'[x]),
               ~(Booked(x) /\ OthersUntouched(x))
        PROVE  IsBlocking(appt[x]) /\ appt'[x].quote = appt[x].quote
    BY <2>4 DEF RowStep, Left, SameBooking, Moved, Cancelled, Closed, Uploaded,
                Reviewed, Lapsed, IsBlocking, Blocking
  <2>. QED
    BY <2>1, <2>3, <2>4 DEF QuoteBookedOnce
<1>. QED
  BY <1>1, <1>2, ReadsStayTrue, PTL DEF Spec

\* The appointment of a quote stays with the technician who approved it
\* (createHold, reschedule).
THEOREM QuotesKeepTechnician == Spec => []QuoteKeepsTechnician
<1>1. Init => QuoteKeepsTechnician
  BY DEF Init, QuoteKeepsTechnician, NoRow
<1>2. ReadInv /\ QuoteKeepsTechnician /\ [Next]_vars => QuoteKeepsTechnician'
  <2>. SUFFICES ASSUME ReadInv, QuoteKeepsTechnician, [Next]_vars, NEW a \in Appts,
                       appt'[a].quote # None
                PROVE  appt'[a].tech = QuoteTech[appt'[a].quote]
    BY DEF QuoteKeepsTechnician
  <2>1. RowStep(a)
    BY EveryRow
  <2>2. appt[a].quote # None => appt[a].tech = QuoteTech[appt[a].quote]
    BY DEF QuoteKeepsTechnician
  <2>. QED
    BY <2>1, <2>2 DEF RowStep, Left, Booked, SameBooking, SamePlace, Moved, MayMoveTo
<1>. QED
  BY <1>1, <1>2, ReadsStayTrue, PTL DEF Spec

\* The count in the row is the history of what clients committed, so the limit
\* that reschedule tests on the row bounds the history.
MovesCounted ==
    \A a \in Appts : /\ appt[a].moves = clientMoves[a] /\ clientMoves[a] <= ClientLimit
                     /\ appt[a].status = "ABSENT" => clientMoves[a] = 0

LEMMA MovesStep == ReadInv /\ MovesCounted /\ [Next]_vars => MovesCounted'
<1>. SUFFICES ASSUME ReadInv, MovesCounted, [Next]_vars, NEW a \in Appts
              PROVE  /\ appt'[a].moves = clientMoves'[a] /\ clientMoves'[a] <= ClientLimit
                     /\ appt'[a].status = "ABSENT" => clientMoves'[a] = 0
  BY DEF MovesCounted
<1>1. RowStep(a)
  BY EveryRow
<1>2. /\ appt[a].moves = clientMoves[a] /\ clientMoves[a] <= ClientLimit
      /\ appt[a].status = "ABSENT" => clientMoves[a] = 0
  BY DEF MovesCounted
<1>3. clientMoves[a] \in Nat /\ ClientLimit \in Nat
  BY TimesAssumption DEF ReadInv, TypeOK
<1>4. ASSUME NEW r \in Requests, Moved(a, r)
      PROVE  /\ appt'[a].moves = clientMoves'[a] /\ clientMoves'[a] <= ClientLimit
             /\ appt'[a].status # "ABSENT"
  BY <1>2, <1>3, <1>4 DEF Moved, IsBlocking, Blocking
<1>5. CASE Left(a)
  BY <1>2, <1>5 DEF Left
<1>6. CASE Booked(a)
  BY <1>2, <1>6 DEF Booked
<1>7. CASE SamePlace(a) /\ (Cancelled(a) \/ Closed(a) \/ Uploaded(a) \/ Reviewed(a) \/ Lapsed(a))
  BY <1>2, <1>7 DEF SamePlace, Cancelled, Closed, Uploaded, Reviewed, Lapsed
<1>. QED
  BY <1>1, <1>4, <1>5, <1>6, <1>7 DEF RowStep

\* No client commits more reschedules of an appointment than the policy allows
\* (reschedule's limit and its compare on updatedAt).
THEOREM ClientMovesStayBounded == Spec => []ClientMovesBounded
<1>1. Init => MovesCounted
  BY TimesAssumption DEF Init, MovesCounted, NoRow
<1>2. MovesCounted => ClientMovesBounded
  BY DEF MovesCounted, ClientMovesBounded
<1>. QED
  BY <1>1, <1>2, MovesStep, ReadsStayTrue, PTL DEF Spec

\* An appointment counts as attended or missed only once its time has come
\* (updateStatus, canCloseAppointment).
THEOREM ClosedOnlyInTime == Spec => []ClosedInTime
<1>1. Init => ClosedInTime
  BY DEF Init, ClosedInTime, NoRow
<1>2. ReadInv /\ ClosedInTime /\ [Next]_vars => ClosedInTime'
  <2>. SUFFICES ASSUME ReadInv, ClosedInTime, [Next]_vars, NEW a \in Appts
                PROVE  /\ appt'[a].status = "COMPLETED" => EndAt(appt'[a]) <= now'
                       /\ appt'[a].status = "NO_SHOW" => appt'[a].start <= now'
    BY DEF ClosedInTime, EndAt
  <2>1. RowStep(a)
    BY EveryRow
  <2>2. CASE Left(a)
    <3>1. /\ appt[a].start \in Starts \union {0}
          /\ appt[a].duration \in Durations \union {0}
      BY DEF ReadInv, TypeOK, Row
    <3>2. /\ \A n \in Starts \union {0} : n \in Nat
          /\ \A n \in Durations \union {0} : n \in Nat
      BY TimesAssumption
    <3>3. appt[a].start \in Nat /\ EndAt(appt[a]) \in Nat
      BY <3>1, <3>2 DEF EndAt
    <3>4. now \in Nat /\ (now' = now \/ now' = now + 1)
      BY Clock DEF ReadInv
    <3>5. appt'[a] = appt[a]
      BY <2>2 DEF Left
    <3>. QED
      BY <3>3, <3>4, <3>5 DEF ClosedInTime
  <2>3. ASSUME NEW r \in Requests, Moved(a, r)
        PROVE  appt'[a].status \notin {"COMPLETED", "NO_SHOW"}
    BY <2>3 DEF Moved, IsBlocking, Blocking
  <2>4. CASE SameBooking(a) /\ SamePlace(a) /\ now' = now /\ Closed(a)
    BY <2>4 DEF SameBooking, SamePlace, Closed, CanClose, EndAt
  <2>5. CASE Booked(a) \/ Cancelled(a) \/ Uploaded(a) \/ Reviewed(a) \/ Lapsed(a)
    BY <2>5 DEF Booked, Cancelled, Uploaded, Reviewed, Lapsed
  <2>. QED
    BY <2>1, <2>2, <2>3, <2>4, <2>5 DEF RowStep
<1>. QED
  BY <1>1, <1>2, ReadsStayTrue, PTL DEF Spec

\* Whoever writes a row it read before still has the right to it at that moment
\* (findAuthorized before the transactions of reschedule, cancel, updateStatus).
THEOREM AuthorizedAtWrite == Spec => StillAuthorized
<1>1. ReadInv /\ [Next]_vars
        => \A r \in Requests :
              proc[r].stage \in Comparing /\ proc'[r].stage = "idle" /\ appt' # appt
                  => Authorized(proc[r].actor, appt[proc[r].id], proc[r].stage = "closing")
  <2>. SUFFICES ASSUME ReadInv, [Next]_vars, NEW r \in Requests,
                       proc[r].stage \in Comparing, proc'[r].stage = "idle", appt' # appt
                PROVE  Authorized(proc[r].actor, appt[proc[r].id], proc[r].stage = "closing")
    OBVIOUS
  <2>1. proc[r].stage # "idle" /\ proc[r].stage \notin {"swept", "sweeping", "holding",
                                                        "uploading", "reviewing"}
    BY DEF Comparing
  <2>2. ASSUME NEW p \in Procs, NEW x, proc' = [proc EXCEPT ![p] = x]
        PROVE  p = r
    BY <2>1, <2>2, AppliesToRequests DEF ReadInv, TypeOK
  <2>3. ASSUME NEW q \in Requests, Commits(q)
        PROVE  Unchanged(r)
    <3>1. q = r
      BY <2>2, <2>3, AppliesToRequests
         DEF Commits, RescheduleCommit, CancelCommit, CloseCommit, UploadCommit,
             ReviewCommit, Finish
    <3>. QED
      BY <2>1, <2>3, <3>1 DEF Commits, RescheduleCommit, CancelCommit, CloseCommit,
                              UploadCommit, ReviewCommit
  <2>4. ASSUME NEW q \in Requests, Inserts(q)
        PROVE  FALSE
    <3>1. q = r
      BY <2>2, <2>4, AppliesToRequests DEF Inserts, HoldInsert, ManualInsert, Finish
    <3>. QED
      BY <2>1, <2>4, <3>1 DEF Inserts, HoldInsert, ManualInsert
  <2>5. ASSUME NEW p \in Procs, SweepWrite(p)
        PROVE  FALSE
    BY <2>1, <2>2, <2>5 DEF SweepWrite
  <2>6. Unchanged(r)
    BY <2>3, <2>4, <2>5, Steps
  <2>. QED
    BY <2>6, SeenAsItIs DEF DecidedBy
<1>. QED
  BY <1>1, ReadsStayTrue, PTL DEF Spec, StillAuthorized

-----------------------------------------------------------------------------
(* Booking implements Reservation: the initial states correspond, and      *)
(* every step of a request or job is one event of the life of a            *)
(* reservation, the lapse of several at once, or nothing.                  *)

\* While the deposit agrees, the status alone names the stage.
StageName(status) ==
    CASE status = "ABSENT" -> "free"
      [] status = "HELD" -> "held"
      [] status = "PENDING_PAYMENT" -> "review"
      [] status = "CONFIRMED" -> "booked"
      [] status = "COMPLETED" -> "attended"
      [] status = "NO_SHOW" -> "missed"
      [] status = "EXPIRED" -> "lapsed"
      [] status = "CANCELLED" -> "released"

LEMMA StageNamed ==
  ASSUME DepositAgrees, NEW a \in Appts
  PROVE  StageAt[a] = StageName(appt[a].status)
<1>1. deposit[a] \in DepositsOf(appt[a])
  BY DEF DepositAgrees
<1>. QED
  BY <1>1 DEF StageAt, StageOf, StageName

LEMMA AliveIsBlocking ==
  ASSUME TypeOK, DepositAgrees, NEW a \in Appts
  PROVE  StageAt[a] \in Promise!Alive <=> IsBlocking(appt[a])
<1>1. appt[a].status \in Statuses
  BY DEF TypeOK, Row
<1>. QED
  BY <1>1, StageNamed
     DEF StageName, Promise!Alive, IsBlocking, Blocking, Statuses, Final

LEMMA PlaceTyped ==
  ASSUME TypeOK, NEW a \in Appts
  PROVE  PlaceAt[a] = PlaceOf(appt[a]) /\ PlaceAt[a] \in Places
<1>1. appt[a] \in Row
  BY DEF TypeOK
<1>. QED
  BY <1>1 DEF PlaceAt, PlaceOf, Places, Row

LEMMA FreeIsVacant ==
  ASSUME TypeOK, DepositAgrees, NEW a \in Appts, NEW row,
         SlotFree(a, row.tech, row.start, row.duration)
  PROVE  Promise!Vacant(a, PlaceOf(row))
<1>. SUFFICES ASSUME NEW b \in Appts, b # a, StageAt[b] \in Promise!Alive
              PROVE  ~Promise!Meet(PlaceOf(row), PlaceAt[b])
  BY DEF Promise!Vacant
<1>1. IsBlocking(appt[b]) /\ PlaceAt[b] = PlaceOf(appt[b])
  BY AliveIsBlocking, PlaceTyped
<1>. QED
  BY <1>1 DEF SlotFree, Overlap, Promise!Meet, PlaceOf

-----------------------------------------------------------------------------
\* A step that changes at most the row a.
LEMMA OneRow ==
  ASSUME NEW a \in Appts, OthersUntouched(a)
  PROVE  /\ StageAt' = [StageAt EXCEPT ![a] = StageOf(appt'[a], deposit'[a])]
         /\ PlaceAt' = [PlaceAt EXCEPT ![a] = PlaceOf(appt'[a])]
  BY DEF StageAt, PlaceAt, OthersUntouched, Untouched

LEMMA KeptPlace ==
  ASSUME NEW a \in Appts, OthersUntouched(a), SameBooking(a), SamePlace(a)
  PROVE  PlaceAt' = PlaceAt
  BY DEF PlaceAt, PlaceOf, OthersUntouched, Untouched, SameBooking, SamePlace

LEMMA StatusNamed ==
  ASSUME DepositAgrees', NEW a \in Appts
  PROVE  StageOf(appt'[a], deposit'[a]) = StageName(appt'[a].status)
<1>1. deposit'[a] \in DepositsOf(appt'[a])
  BY DEF DepositAgrees
<1>. QED
  BY <1>1 DEF StageOf, StageName

LEMMA InsertRefines ==
  ASSUME ReadInv, DepositAgrees, (TypeOK /\ DepositAgrees)', NEW r \in Requests, Inserts(r)
  PROVE  Promise!Next
<1>1. PICK a \in Appts : Booked(a) /\ OthersUntouched(a)
  BY InsertFields DEF OthersUntouched
<1>. DEFINE p == PlaceOf(appt'[a])
<1>2. Promise!Vacant(a, p)
  BY <1>1, FreeIsVacant DEF Booked, ReadInv
<1>3. p \in Places
  <2>1. appt'[a] \in Row
    BY DEF TypeOK
  <2>. QED
    BY <2>1 DEF PlaceOf, Places, Row
<1>4. StageAt[a] = "free"
  BY <1>1, StageNamed DEF Booked, StageName
<1>5. StageOf(appt'[a], deposit'[a]) \in {"held", "booked"}
  BY <1>1, StatusNamed DEF Booked, StageName
<1>6. Promise!Open(a, p)
  BY <1>1, <1>2, <1>4, <1>5, OneRow DEF Promise!Open, Promise!Become
<1>. QED
  BY <1>3, <1>6 DEF Promise!Next

LEMMA CommitRefines ==
  ASSUME ReadInv, DepositAgrees, (TypeOK /\ DepositAgrees)', NEW r \in Requests, Commits(r)
  PROVE  Promise!Next
<1>. DEFINE a == proc[r].id
            new == StageName(appt'[a].status)
<1>1. /\ a \in Appts /\ SameBooking(a) /\ OthersUntouched(a)
      /\ \/ Moved(a, r)
         \/ SamePlace(a) /\ (Cancelled(a) \/ Closed(a) \/ Uploaded(a) \/ Reviewed(a))
  BY CommitFields DEF OthersUntouched
<1>2. StageAt[a] = StageName(appt[a].status) /\ StageAt' = [StageAt EXCEPT ![a] = new]
  BY <1>1, StageNamed, StatusNamed, OneRow
<1>3. TypeOK
  BY DEF ReadInv
<1>4. CASE Moved(a, r)
  <2>. DEFINE p == PlaceOf(appt'[a])
  <2>1. Promise!Vacant(a, p)
    BY <1>1, <1>3, <1>4, FreeIsVacant DEF Moved
  <2>2. p \in Places
    <3>1. appt'[a] \in Row
      BY <1>1 DEF TypeOK
    <3>. QED
      BY <3>1 DEF PlaceOf, Places, Row
  <2>3. StageAt[a] \in Promise!Alive
    BY <1>1, <1>3, <1>4, AliveIsBlocking DEF Moved
  <2>4. StageAt' = StageAt
    BY <1>1, <1>2, <1>4 DEF Moved, StageAt
  <2>5. Promise!Move(a, p)
    BY <1>1, <2>1, <2>3, <2>4, OneRow DEF Promise!Move
  <2>. QED
    BY <1>1, <2>2, <2>5 DEF Promise!Next
<1>5. CASE SamePlace(a) /\ Cancelled(a)
  <2>1. StageAt[a] \in Promise!Alive
    BY <1>1, <1>3, <1>5, AliveIsBlocking DEF Cancelled
  <2>2. new = "released"
    BY <1>5 DEF Cancelled, StageName
  <2>3. Promise!Release(a)
    BY <1>1, <1>2, <1>5, <2>1, <2>2, KeptPlace DEF Promise!Release, Promise!Become
  <2>. QED
    BY <1>1, <2>3 DEF Promise!Next
<1>6. CASE SamePlace(a) /\ Closed(a)
  <2>1. StageAt[a] = "booked" /\ new \in {"attended", "missed"}
    BY <1>2, <1>6 DEF Closed, StageName
  <2>2. Promise!Close(a)
    BY <1>1, <1>2, <1>6, <2>1, KeptPlace DEF Promise!Close, Promise!Become
  <2>. QED
    BY <1>1, <2>2 DEF Promise!Next
<1>7. CASE SamePlace(a) /\ Uploaded(a)
  <2>1. StageAt[a] = "held" /\ new = "review"
    BY <1>2, <1>7 DEF Uploaded, StageName
  <2>2. Promise!Present(a)
    BY <1>1, <1>2, <1>7, <2>1, KeptPlace DEF Promise!Present, Promise!Become
  <2>. QED
    BY <1>1, <2>2 DEF Promise!Next
<1>8. CASE SamePlace(a) /\ Reviewed(a)
  <2>1. StageAt[a] = "review" /\ new \in {"booked", "released"}
    BY <1>2, <1>8 DEF Reviewed, StageName
  <2>2. Promise!Decide(a)
    BY <1>1, <1>2, <1>8, <2>1, KeptPlace DEF Promise!Decide, Promise!Become
  <2>. QED
    BY <1>1, <2>2 DEF Promise!Next
<1>. QED
  BY <1>1, <1>4, <1>5, <1>6, <1>7, <1>8

LEMMA SweepRefines ==
  ASSUME ReadInv, DepositAgrees, (TypeOK /\ DepositAgrees)', NEW p \in Procs, SweepWrite(p)
  PROVE  Promise!Next \/ (StageAt' = StageAt /\ PlaceAt' = PlaceAt)
<1>. DEFINE rs == {a \in Appts : a \in Lapsing(p)}
<1>1. PlaceAt' = PlaceAt
  BY SweepFields DEF PlaceAt, PlaceOf, SameBooking, SamePlace
<1>2. ASSUME NEW a \in Appts
      PROVE  /\ a \in rs => StageAt[a] = "held"
             /\ StageAt'[a] = IF a \in rs THEN "lapsed" ELSE StageAt[a]
  <2>1. /\ StageAt[a] = StageName(appt[a].status)
        /\ StageAt'[a] = StageName(appt'[a].status)
    BY StageNamed, StatusNamed DEF StageAt
  <2>2. appt'[a] = IF a \in rs THEN [appt[a] EXCEPT !.status = "EXPIRED"] ELSE appt[a]
    BY DEF SweepWrite
  <2>3. a \in rs => appt[a].status = "HELD"
    BY DEF Lapsing
  <2>4. a \in rs => appt'[a].status = "EXPIRED"
    BY <2>2 DEF ReadInv, TypeOK, Row
  <2>. QED
    BY <2>1, <2>2, <2>3, <2>4 DEF StageName
<1>3. StageAt' = [a \in Appts |-> IF a \in rs THEN "lapsed" ELSE StageAt[a]]
  BY <1>2 DEF StageAt
<1>4. CASE rs = {}
  BY <1>1, <1>3, <1>4 DEF StageAt
<1>5. CASE rs # {}
  <2>1. Promise!Lapse(rs)
    BY <1>1, <1>2, <1>3, <1>5 DEF Promise!Lapse
  <2>. QED
    BY <2>1 DEF Promise!Next
<1>. QED
  BY <1>4, <1>5

\* The two tables, however their writers interleave, never tell another story
\* than a reservation does.
THEOREM BookingKeepsPromise == Spec => KeepsPromise
<1>1. Init => Promise!Init
  <2>. SUFFICES ASSUME Init PROVE Promise!Init
    OBVIOUS
  <2>1. \A a \in Appts : StageAt[a] = "free"
    BY DEF Init, StageAt, StageOf, DepositsOf, NoRow
  <2>2. \A a \in Appts : PlaceAt[a] \in Places
    BY DEF Init, PlaceAt, PlaceOf, Places, NoRow
  <2>. QED
    BY <2>1, <2>2 DEF Promise!Init, StageAt, PlaceAt
<1>2. /\ ReadInv /\ DepositAgrees /\ (TypeOK /\ DepositAgrees)' /\ [Next]_vars
      => [Promise!Next]_<<StageAt, PlaceAt>>
  BY Steps, SweepRefines, InsertRefines, CommitRefines DEF StageAt, PlaceAt
<1>. QED
  BY <1>1, <1>2, ReadsStayTrue, DepositsAgree, TypeCorrect, PTL
     DEF Spec, KeepsPromise, Promise!Spec

=============================================================================
