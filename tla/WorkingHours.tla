---------------------------- MODULE WorkingHours ----------------------------
(***************************************************************************)
(* The studio's and the manicurists' working hours on one day, the warnings *)
(* a change of hours answers with, and the bookings that are checked        *)
(* against the hours.  The life of an appointment is in Booking; here one   *)
(* takes its place, moves or frees it.  The appointments are all to come.   *)
(***************************************************************************)
EXTENDS Integers, FiniteSets

CONSTANTS
    Technicians, Appointments, Requests,
    PeriodSets,          \* lists of periods the screens send, some not valid
    Starts,              \* minutes of the day a booking asks for
    Duration,
    Interval,            \* slotIntervalMinutes
    Earliest, Latest,    \* minimum lead and maximum advance, as minutes of the day
    None

VARIABLES
    global,     \* table global_working_periods: pairs of who inserted and period
    schedule,   \* table technician_schedules
    weekly,     \* table technician_working_periods
    override,   \* table schedule_day_overrides with its periods
    appt,       \* what the hours concern of table appointments
    req,        \* what each request is doing
    warned,     \* history: places answered as outside the hours they now have
    raced,      \* history: places taken by a check older than the hours, or
                \* outside them when the request that was to warn died
    crossed     \* history: two changes of the global hours overlapped

vars == <<global, schedule, weekly, override, appt, req, warned, raced, crossed>>

tables == <<global, schedule, weekly, override>>
histories == <<warned, raced, crossed>>

Periods == UNION PeriodSets
Place == [appt : Appointments, tech : Technicians, start : Starts, end : Nat]

Appt == [status : {"ABSENT", "BLOCKING", "FREED"}, tech : Technicians \union {None}, start : Starts \union {None}]
NoAppt == [status |-> "ABSENT", tech |-> None, start |-> None]

NoOverride == [present |-> FALSE, closed |-> FALSE, periods |-> {}]

\* tech: the technician of a change or of a booking.  seen: the rows the
\* delete found.  listed, found: places still to compare, places outside.
Idle == [stage |-> "idle", tech |-> None, sent |-> {}, seen |-> {}, todo |-> {},
         listed |-> {}, found |-> {}, appt |-> None, start |-> None, stale |-> FALSE]

Stages == {"idle", "deleted", "committed", "warning", "checked"}

TypeOK ==
    /\ global \subseteq Requests \X Periods
    /\ schedule \in [Technicians -> [usesGlobal : BOOLEAN, accepting : BOOLEAN]]
    /\ weekly \in [Technicians -> SUBSET Periods]
    /\ override \in [Technicians -> [present : BOOLEAN, closed : BOOLEAN, periods : SUBSET Periods]]
    /\ appt \in [Appointments -> Appt]
    /\ \A r \in Requests : req[r].stage \in Stages /\ DOMAIN req[r] = DOMAIN Idle
    /\ warned \union raced \subseteq Place
    /\ crossed \in BOOLEAN

Init ==
    /\ global = {}
    /\ schedule = [t \in Technicians |-> [usesGlobal |-> TRUE, accepting |-> TRUE]]
    /\ weekly = [t \in Technicians |-> {}]
    /\ override = [t \in Technicians |-> NoOverride]
    /\ appt = [a \in Appointments |-> NoAppt]
    /\ req = [r \in Requests |-> Idle]
    /\ warned = {} /\ raced = {} /\ crossed = FALSE

-----------------------------------------------------------------------------
(* Hours and slots.                                                        *)

Overlap(s1, e1, s2, e2) == s1 < e2 /\ e1 > s2

ValidEach(ps) == \A p \in ps : p[1] < p[2]

\* validateDay.
Valid(ps) ==
    /\ \A p \in ps : p[1] < p[2]
    /\ \A p, q \in ps : p # q => ~Overlap(p[1], p[2], q[1], q[2])

PeriodsFor(t) ==
    IF override[t].present
    THEN IF override[t].closed THEN {} ELSE override[t].periods
    ELSE IF schedule[t].usesGlobal THEN {row[2] : row \in global}
    ELSE weekly[t]

IsWithinAvailability(t, s, e) == \E p \in PeriodsFor(t) : p[1] <= s /\ p[2] >= e

Blocking == {a \in Appointments : appt[a].status = "BLOCKING"}

PlaceOf(a) == [appt |-> a, tech |-> appt[a].tech, start |-> appt[a].start,
               end |-> appt[a].start + Duration]

\* The exclusion constraint on appointments.
Free(t, s, others) ==
    \A a \in Blocking \intersect others :
       appt[a].tech = t => ~Overlap(appt[a].start, appt[a].start + Duration, s, s + Duration)

FloorTo(m) == (m \div Interval) * Interval

CeilTo(m) == ((m + Interval - 1) \div Interval) * Interval

\* The slots of availability, period by period.
Slots(t) ==
    {s \in UNION {{CeilTo(p[1]) + k * Interval : k \in 0..p[2]} : p \in PeriodsFor(t)} :
        /\ \E p \in PeriodsFor(t) : s >= CeilTo(p[1]) /\ s + Duration <= p[2]
        /\ s >= Earliest /\ s <= Latest
        /\ Free(t, s, Appointments)
        /\ schedule[t].accepting}

AssertPublicStart(s) == s % Interval = 0 /\ s >= Earliest /\ s <= Latest

-----------------------------------------------------------------------------
(* Changes of hours.                                                       *)

Become(r, p) == req' = [req EXCEPT ![r] = p]
Done(r) == Become(r, Idle)

\* A booking already checked goes on with the hours it saw.
Staled(rs) ==
    [q \in Requests |-> IF q \in rs THEN req[q]
                        ELSE [req[q] EXCEPT !.stale = req[q].stage = "checked"]]

ThenWarn(r, ts) ==
    /\ req' = [Staled({r}) EXCEPT ![r] = [Idle EXCEPT !.stage = "warning", !.todo = ts]]
    /\ warned' = {w \in warned : w.tech \notin ts}

\* The upsert of the schedule's row holds its lock until the commit.
UpdateWeekly(r, t, ps) ==
    /\ req[r].stage = "idle" /\ Valid(ps)
    /\ schedule' = [schedule EXCEPT ![t].usesGlobal = FALSE]
    /\ weekly' = [weekly EXCEPT ![t] = ps]
    /\ ThenWarn(r, {t})
    /\ UNCHANGED <<global, override, appt, raced, crossed>>

UseGlobalSchedule(r, t) ==
    /\ req[r].stage = "idle"
    /\ schedule' = [schedule EXCEPT ![t].usesGlobal = TRUE]
    /\ ThenWarn(r, {t})
    /\ UNCHANGED <<global, weekly, override, appt, raced, crossed>>

SetAcceptingBookings(t, accepting) ==
    /\ schedule' = [schedule EXCEPT ![t].accepting = accepting]
    /\ UNCHANGED <<global, weekly, override, appt, req>> /\ UNCHANGED histories

\* A closed day is sent without periods.
SetOverride(r, t, closed, ps) ==
    /\ req[r].stage = "idle" /\ Valid(ps)
    /\ override' = [override EXCEPT ![t] = [present |-> TRUE, closed |-> closed, periods |-> ps]]
    /\ ThenWarn(r, {t})
    /\ UNCHANGED <<global, schedule, weekly, appt, raced, crossed>>

RemoveOverride(r, t) ==
    /\ req[r].stage = "idle"
    /\ override' = [override EXCEPT ![t] = NoOverride]
    /\ ThenWarn(r, {t})
    /\ UNCHANGED <<global, schedule, weekly, appt, raced, crossed>>

\* The transaction of updateGlobal holds no row that every other one needs:
\* its delete finds what is committed then, and its rows are added later.
GlobalDelete(r, ps) ==
    /\ req[r].stage = "idle" /\ Valid(ps)
    /\ Become(r, [Idle EXCEPT !.stage = "deleted", !.sent = ps, !.seen = global])
    /\ crossed' = (crossed \/ \E q \in Requests : req[q].stage = "deleted")
    /\ UNCHANGED <<tables, appt, warned, raced>>

GlobalCommit(r) ==
    /\ req[r].stage = "deleted"
    /\ global' = (global \ req[r].seen) \union ({r} \X req[r].sent)
    /\ req' = [Staled({r}) EXCEPT ![r] = [Idle EXCEPT !.stage = "committed"]]
    /\ warned' = {w \in warned : ~schedule[w.tech].usesGlobal}
    /\ UNCHANGED <<schedule, weekly, override, appt, raced, crossed>>

Inherited == {t \in Technicians : schedule[t].usesGlobal}

GlobalInherited(r) ==
    /\ req[r].stage = "committed"
    /\ Become(r, [Idle EXCEPT !.stage = "warning", !.todo = Inherited])
    /\ UNCHANGED <<tables, appt>> /\ UNCHANGED histories

-----------------------------------------------------------------------------
(* findScheduleWarnings: the appointments are read once, and each is then  *)
(* compared with the hours of that moment.                                 *)

ListAppointments(r, t) ==
    /\ req[r].stage = "warning" /\ t \in req[r].todo
    /\ Become(r, [req[r] EXCEPT !.todo = req[r].todo \ {t},
                    !.listed = req[r].listed \union
                                 {PlaceOf(a) : a \in {b \in Blocking : appt[b].tech = t}}])
    /\ UNCHANGED <<tables, appt>> /\ UNCHANGED histories

OutsideStart(w) == ~IsWithinAvailability(w.tech, w.start, w.start)

Outside(w) == ~IsWithinAvailability(w.tech, w.start, w.end)

Compare(r, w) ==
    /\ req[r].stage = "warning" /\ w \in req[r].listed
    /\ Become(r, [req[r] EXCEPT !.listed = req[r].listed \ {w},
                    !.found = req[r].found \union {v \in {w} : Outside(v)}])
    /\ UNCHANGED <<tables, appt>> /\ UNCHANGED histories

Warn(r) ==
    /\ req[r].stage = "warning" /\ req[r].todo = {} /\ req[r].listed = {}
    /\ warned' = warned \union req[r].found
    /\ Done(r)
    /\ UNCHANGED <<tables, appt, raced, crossed>>

-----------------------------------------------------------------------------
(* Bookings.                                                               *)

\* The manicurist and the hours are read one after the other, and nothing but
\* the hours is compared again with what is written: here they are one step.
CheckAvailability(r, t, a, s) ==
    /\ req[r].stage = "idle"
    /\ IsWithinAvailability(t, s, s + Duration)
    /\ Become(r, [Idle EXCEPT !.stage = "checked", !.tech = t, !.appt = a, !.start = s])
    /\ UNCHANGED <<tables, appt>> /\ UNCHANGED histories

\* createHold: only active manicurists who accept bookings.
CheckHold(r, t, a, s) ==
    /\ appt[a].status = "ABSENT"
    /\ AssertPublicStart(s) /\ schedule[t].accepting
    /\ CheckAvailability(r, t, a, s)

\* createManual: whoever is active, at any minute.
CheckManual(r, t, a, s) ==
    /\ appt[a].status = "ABSENT"
    /\ CheckAvailability(r, t, a, s)

\* reschedule by the administrator: to anybody who accepts bookings.
CheckReschedule(r, t, a, s) ==
    /\ appt[a].status = "BLOCKING" /\ schedule[t].accepting
    /\ CheckAvailability(r, t, a, s)

\* The insert, or the update of an appointment that still takes its place.
TakePlace(r) ==
    LET p == req[r]
        taken == [appt |-> p.appt, tech |-> p.tech, start |-> p.start,
                  end |-> p.start + Duration]
        free == appt[p.appt].status # "FREED" /\ Free(p.tech, p.start, Appointments \ {p.appt})
    IN  /\ p.stage = "checked"
        /\ IF free
           THEN /\ appt' = [appt EXCEPT ![p.appt] =
                              [status |-> "BLOCKING", tech |-> p.tech, start |-> p.start]]
                /\ warned' = {w \in warned : w.appt # p.appt}
                /\ raced' = {w \in raced : w.appt # p.appt}
                              \union {w \in {taken} : p.stale}
           ELSE UNCHANGED <<appt, warned, raced>>
        /\ Done(r)
        /\ UNCHANGED <<tables, crossed>>

\* Cancelled, expired or attended.
LeavePlace(a) ==
    /\ appt[a].status = "BLOCKING"
    /\ appt' = [appt EXCEPT ![a] = [NoAppt EXCEPT !.status = "FREED"]]
    /\ warned' = {w \in warned : w.appt # a}
    /\ raced' = {w \in raced : w.appt # a}
    /\ UNCHANGED <<tables, req, crossed>>

\* A transaction that is still open leaves nothing.
Die(r) ==
    /\ req[r].stage # "idle"
    /\ raced' = IF req[r].stage \in {"committed", "warning"}
                THEN raced \union {w \in {PlaceOf(a) : a \in Blocking} : Outside(w)} ELSE raced
    /\ Done(r)
    /\ UNCHANGED <<tables, appt, warned, crossed>>

Changes(r) ==
    \/ \E ps \in PeriodSets : GlobalDelete(r, ps)
    \/ GlobalCommit(r) \/ GlobalInherited(r)
    \/ \E t \in Technicians :
         \/ \E ps \in PeriodSets : UpdateWeekly(r, t, ps)
         \/ \E ps \in PeriodSets : SetOverride(r, t, FALSE, ps)
         \/ SetOverride(r, t, TRUE, {})
         \/ UseGlobalSchedule(r, t) \/ RemoveOverride(r, t)

Warnings(r) ==
    \/ \E t \in Technicians : ListAppointments(r, t)
    \/ \E w \in req[r].listed : Compare(r, w)
    \/ Warn(r)

Bookings(r) ==
    \/ \E t \in Technicians, a \in Appointments, s \in Starts :
         CheckHold(r, t, a, s) \/ CheckManual(r, t, a, s) \/ CheckReschedule(r, t, a, s)
    \/ TakePlace(r)

Next ==
    \/ \E r \in Requests : Changes(r) \/ Warnings(r) \/ Bookings(r) \/ Die(r)
    \/ \E t \in Technicians, accepting \in BOOLEAN : SetAcceptingBookings(t, accepting)
    \/ \E a \in Appointments : LeavePlace(a)

Spec == Init /\ [][Next]_vars

-----------------------------------------------------------------------------
(* Properties.                                                             *)

\* When no request is running, an appointment outside its manicurist's hours
\* was in the warnings of the last change that touched them, unless it took its
\* place on a check older than a change, or the change died before it answered.
OutsideIsWarned ==
    (\A r \in Requests : req[r].stage = "idle") =>
       \A a \in Blocking :
          \/ IsWithinAvailability(appt[a].tech, appt[a].start, appt[a].start + Duration)
          \/ PlaceOf(a) \in warned \union raced

Apart(ps) == \A p, q \in ps : p # q => p[2] <= q[1] \/ q[2] <= p[1]

\* The periods of a day do not overlap, unless two changes of the global hours
\* were under way together: each keeps the other's rows.
PeriodsApart ==
    /\ ~crossed => Apart({row[2] : row \in global})
    /\ \A t \in Technicians : Apart(weekly[t]) /\ Apart(override[t].periods)

\* Availability offers exactly the starts that createHold takes.
SlotsBookable ==
    \A t \in Technicians :
       Slots(t) = {s \in Starts : AssertPublicStart(s) /\ schedule[t].accepting
                                    /\ IsWithinAvailability(t, s, s + Duration)
                                    /\ Free(t, s, Appointments)}

=============================================================================
