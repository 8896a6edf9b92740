----------------------------- MODULE Reminders ------------------------------
(***************************************************************************)
(* queueAppointmentReminders: every few minutes the worker has the API     *)
(* read the confirmed appointments of the next day and queue, for client   *)
(* and manicurist, one reminder when the appointment comes near and one    *)
(* when it is close.  The unique key of a notice names the window, the     *)
(* appointment, its start and the role, so that later runs, and runs side  *)
(* by side, add nothing.  One appointment, which is confirmed, moved and   *)
(* cancelled meanwhile.                                                    *)
(***************************************************************************)
EXTENDS Integers

CONSTANTS
    Techs, Client,
    Starts,
    Long, Short,   \* the two windows, 24 and 2 hours in the code
    Runs,          \* runs of the job at a time, a bound
    MaxTime,       \* bound on the clock
    None

VARIABLES
    clock,
    appt,       \* its row; the client of a manual appointment may have no account
    archived,   \* users
    notices,    \* table notifications, those of kind REMINDER
    run,
    done,       \* history: a run went through since the clock last moved
    since       \* history: when the appointment last changed

vars == <<clock, appt, archived, notices, run, done, since>>

Windows == {"24h", "2h"}

Row == [status : {"HELD", "CONFIRMED", "CANCELLED"}, start : Starts, tech : Techs,
        client : {Client, None}]

Notice == [window : Windows, start : Starts, role : {"client", "technician"},
           user : Techs \union {Client}]

Idle == [stage |-> "idle", now |-> 0, row |-> None]

TypeOK ==
    /\ clock \in 0..MaxTime /\ since \in 0..MaxTime
    /\ appt \in Row
    /\ archived \subseteq Techs \union {Client}
    /\ notices \subseteq Notice
    /\ \A j \in Runs : /\ run[j].stage \in {"idle", "client", "technician"}
                       /\ run[j].now \in 0..MaxTime
                       /\ run[j].stage # "idle" => run[j].row \in Row
    /\ done \in BOOLEAN

Init ==
    /\ clock = 0 /\ since = 0 /\ done = FALSE
    /\ appt \in {row \in Row : row.status = "HELD"}
    /\ archived = {} /\ notices = {}
    /\ run = [j \in Runs |-> Idle]

-----------------------------------------------------------------------------
(* The job.                                                                *)

Near(now) == appt.status = "CONFIRMED" /\ appt.start > now /\ appt.start <= now + Long

WindowOf(start, now) == IF start - now <= Short THEN "2h" ELSE "24h"

\* findMany reads the appointments once; the run works on what it read.
StartRun(j) ==
    /\ run[j].stage = "idle"
    /\ IF Near(clock)
       THEN /\ run' = [run EXCEPT ![j] = [stage |-> IF appt.client = None THEN "technician" ELSE "client",
                                          now |-> clock, row |-> appt]]
            /\ UNCHANGED done
       ELSE done' = TRUE /\ UNCHANGED run
    /\ UNCHANGED <<clock, appt, archived, notices, since>>

\* Two notices are one when they agree in all but the user.
SameKey(n, m) == n.window = m.window /\ n.start = m.start /\ n.role = m.role

\* notify: a user archived is told nothing, a key that is taken adds nothing.
Told(user, row, now, role) ==
    LET n == [window |-> WindowOf(row.start, now), start |-> row.start, role |-> role, user |-> user]
    IN  IF user \in archived \/ \E m \in notices : SameKey(n, m)
        THEN notices ELSE notices \union {n}

NotifyClient(j) ==
    /\ run[j].stage = "client"
    /\ notices' = Told(run[j].row.client, run[j].row, run[j].now, "client")
    /\ run' = [run EXCEPT ![j].stage = "technician"]
    /\ UNCHANGED <<clock, appt, archived, done, since>>

NotifyTechnician(j) ==
    /\ run[j].stage = "technician"
    /\ notices' = Told(run[j].row.tech, run[j].row, run[j].now, "technician")
    /\ run' = [run EXCEPT ![j] = Idle]
    /\ done' = (done \/ run[j].now = clock)
    /\ UNCHANGED <<clock, appt, archived, since>>

\* A statement fails and the loop with it, or the process dies.
Stop(j) ==
    /\ run[j].stage # "idle"
    /\ run' = [run EXCEPT ![j] = Idle]
    /\ UNCHANGED <<clock, appt, archived, notices, done, since>>

-----------------------------------------------------------------------------
(* What happens meanwhile.                                                 *)

Becomes(row) ==
    /\ appt' = row /\ since' = clock
    /\ UNCHANGED <<clock, archived, notices, run, done>>

Confirm == appt.status = "HELD" /\ Becomes([appt EXCEPT !.status = "CONFIRMED"])

Reschedule(s, t) ==
    /\ appt.status = "CONFIRMED" /\ s > clock /\ <<s, t>> # <<appt.start, appt.tech>>
    /\ Becomes([appt EXCEPT !.start = s, !.tech = t])

CancelAppointment == appt.status # "CANCELLED" /\ Becomes([appt EXCEPT !.status = "CANCELLED"])

\* One user at most: a bound.
Archive(u) ==
    /\ archived = {} /\ archived' = {u}
    /\ UNCHANGED <<clock, appt, notices, run, done, since>>

\* The schedule starts the job many times in the time a window lasts: before
\* the clock moves one of them has gone through.
Tick ==
    /\ done /\ clock < MaxTime
    /\ clock' = clock + 1 /\ done' = FALSE
    /\ UNCHANGED <<appt, archived, notices, run, since>>

Next ==
    \/ \E j \in Runs : StartRun(j) \/ NotifyClient(j) \/ NotifyTechnician(j) \/ Stop(j)
    \/ Confirm \/ CancelAppointment \/ Tick
    \/ \E s \in Starts, t \in Techs : Reschedule(s, t)
    \/ \E u \in Techs \union {Client} : Archive(u)

Spec == Init /\ [][Next]_vars

-----------------------------------------------------------------------------
(* Properties.                                                             *)

\* The last moment at which a run still finds the appointment in the window.
LastOf(w) == IF w = "2h" THEN appt.start - 1 ELSE appt.start - Short - 1

\* When a confirmed appointment begins, its client has been told once near to
\* it and once close to it, of the hour it has, in every window that opened
\* after it last changed, however often it was moved, runs overlapped or
\* failed.  So has its manicurist, unless the one who had it at that hour
\* before her was: the key of a notice does not tell them apart.
RemindedInTime ==
    appt.status = "CONFIRMED" /\ clock >= appt.start =>
       \A w \in {v \in Windows : since < LastOf(v)} :
          LET told(role) == {n.user : n \in {m \in notices :
                                m.window = w /\ m.start = appt.start /\ m.role = role}}
          IN  /\ appt.client # None => told("client") = {Client} \/ Client \in archived
              /\ told("technician") # {} \/ appt.tech \in archived

=============================================================================
