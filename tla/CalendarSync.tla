---------------------------- MODULE CalendarSync ----------------------------
(***************************************************************************)
(* One appointment and its event in the technicians' Google calendars.     *)
(* CalendarService copies the appointment outwards after every handler     *)
(* that changes it; the handlers of two actors may run side by side, and   *)
(* each call of Google may fail before or after it took effect.            *)
(***************************************************************************)
EXTENDS Integers, FiniteSets

CONSTANTS
    Techs, Requests,
    Starts,        \* the times the appointment is moved between
    MaxEvents,     \* bound: events created in Google
    None

VARIABLES
    appt,        \* the row of appointments
    connected,   \* technicians with a row in calendar_connections
    link,        \* the appointment's row in calendar_event_links
    events,      \* events in Google
    made,        \* events made so far: Google's identifiers
    sync,        \* what each request is doing
    disturbed,   \* history: requests overlapped, a call failed or a calendar was disconnected
    unlinked     \* history: the appointment changed technician before it had an event

vars == <<appt, connected, link, events, made, sync, disturbed, unlinked>>

Blocking == {"HELD", "PENDING_PAYMENT", "CONFIRMED"}
Gone == {"CANCELLED", "EXPIRED"}
Appt == [status : Blocking \union Gone \union {"ABSENT"}, tech : Techs \union {None},
         start : Starts \union {None}]
NoAppt == [status |-> "ABSENT", tech |-> None, start |-> None]

Link == [status : {"ABSENT", "PENDING", "SYNCED", "FAILED", "DELETED"},
         tech : Techs \union {None}, event : 1..MaxEvents \union {None}]
NoLink == [status |-> "ABSENT", tech |-> None, event |-> None]

Stages == {"idle", "moving", "removing", "unlinking", "keeping", "reading", "linking",
           "deleting", "deleted", "pushing", "storing", "failing"}
Sync == [stage : Stages, seen : Appt, previous : Techs \union {None},
         event : 1..MaxEvents \union {None}]
Idle == [stage |-> "idle", seen |-> NoAppt, previous |-> None, event |-> None]

TypeOK ==
    /\ appt \in Appt
    /\ connected \subseteq Techs
    /\ link \in Link
    /\ events \subseteq [id : 1..MaxEvents, tech : Techs, start : Starts]
    /\ made \in 0..MaxEvents
    /\ sync \in [Requests -> Sync]
    /\ disturbed \in BOOLEAN /\ unlinked \in BOOLEAN

Init ==
    /\ appt = NoAppt
    /\ connected \in SUBSET Techs
    /\ link = NoLink
    /\ events = {} /\ made = 0
    /\ sync = [r \in Requests |-> Idle]
    /\ disturbed = FALSE /\ unlinked = FALSE

Alone(r) == \A q \in Requests \ {r} : sync[q].stage = "idle"

Goto(r, stage) == sync' = [sync EXCEPT ![r].stage = stage]

End(r) == sync' = [sync EXCEPT ![r] = Idle]

-----------------------------------------------------------------------------
(* The handlers that change the appointment and then copy it.              *)

Start(r, stage, previous) ==
    /\ sync[r].stage = "idle"
    /\ sync' = [sync EXCEPT ![r] = [Idle EXCEPT !.stage = stage, !.previous = previous]]
    /\ disturbed' = (disturbed \/ ~Alone(r))

CreateHold(t, s) ==
    /\ appt.status = "ABSENT"
    /\ appt' = [status |-> "HELD", tech |-> t, start |-> s]
    /\ UNCHANGED <<connected, link, events, made, sync, disturbed, unlinked>>

CreateManual(r, t, s) ==
    /\ appt.status = "ABSENT"
    /\ appt' = [status |-> "CONFIRMED", tech |-> t, start |-> s]
    /\ Start(r, "reading", None)
    /\ UNCHANGED <<connected, link, events, made, unlinked>>

UploadReceipt ==
    /\ appt.status = "HELD"
    /\ appt' = [appt EXCEPT !.status = "PENDING_PAYMENT"]
    /\ UNCHANGED <<connected, link, events, made, sync, disturbed, unlinked>>

ReviewDeposit(r, outcome) ==
    /\ appt.status = "PENDING_PAYMENT"
    /\ appt' = [appt EXCEPT !.status = outcome]
    /\ Start(r, "reading", None)
    /\ UNCHANGED <<connected, link, events, made, unlinked>>

Reschedule(r, t, s) ==
    /\ appt.status \in Blocking
    /\ <<t, s>> # <<appt.tech, appt.start>>
    /\ appt' = [appt EXCEPT !.tech = t, !.start = s]
    /\ IF t # appt.tech THEN Start(r, "moving", appt.tech) ELSE Start(r, "reading", None)
    /\ unlinked' = (unlinked \/ (t # appt.tech /\ link.status # "ABSENT" /\ link.event = None))
    /\ UNCHANGED <<connected, link, events, made>>

CancelAppointment(r) ==
    /\ appt.status \in Blocking
    /\ appt' = [appt EXCEPT !.status = "CANCELLED"]
    /\ Start(r, "reading", None)
    /\ UNCHANGED <<connected, link, events, made, unlinked>>

\* completeAuthorization: the connection, then the confirmed appointments.
Connect(r, t) ==
    /\ t \notin connected
    /\ connected' = connected \union {t}
    /\ IF appt.status = "CONFIRMED" /\ appt.tech = t THEN Start(r, "reading", None)
       ELSE UNCHANGED <<sync, disturbed>>
    /\ UNCHANGED <<appt, link, events, made, unlinked>>

Disconnect(t) ==
    /\ t \in connected
    /\ connected' = connected \ {t}
    /\ disturbed' = TRUE
    /\ UNCHANGED <<appt, link, events, made, sync, unlinked>>

-----------------------------------------------------------------------------
(* moveAppointment: the event in the previous technician's calendar.       *)

NothingToRemove(r) == FALSE

ToRemove(r) == link.event # None /\ link.tech = sync[r].previous

MoveRead(r) ==
    /\ sync[r].stage = "moving"
    /\ sync' = [sync EXCEPT
          ![r].event = link.event,
          ![r].stage = IF ~ToRemove(r) THEN "reading"
                       ELSE IF sync[r].previous \in connected THEN "removing" ELSE "unlinking"]
    /\ UNCHANGED <<appt, connected, link, events, made, disturbed, unlinked>>

Without(id, t) == {e \in events : ~(e.id = id /\ e.tech = t)}

\* A missing event (404) counts as removed.
MoveRemove(r) ==
    /\ sync[r].stage = "removing"
    /\ events' = Without(sync[r].event, sync[r].previous)
    /\ Goto(r, "unlinking")
    /\ UNCHANGED <<appt, connected, link, made, disturbed, unlinked>>

MoveUnlink(r) ==
    /\ sync[r].stage = "unlinking"
    /\ link' = NoLink
    /\ sync' = [sync EXCEPT ![r] = [Idle EXCEPT !.stage = "reading"]]
    /\ UNCHANGED <<appt, connected, events, made, disturbed, unlinked>>

-----------------------------------------------------------------------------
(* syncAppointment.                                                        *)

SyncRead(r) ==
    /\ sync[r].stage = "reading"
    /\ sync' = [sync EXCEPT ![r] = IF appt.tech \in connected
                     THEN [Idle EXCEPT !.stage = "linking", !.seen = appt] ELSE Idle]
    /\ UNCHANGED <<appt, connected, link, events, made, disturbed, unlinked>>

\* The upsert keeps the technician of an existing row.
SyncLink(r) ==
    LET seen == sync[r].seen
        row == IF link.status = "ABSENT" THEN [NoLink EXCEPT !.tech = seen.tech] ELSE link IN
    /\ sync[r].stage = "linking"
    /\ link' = [row EXCEPT !.status = "PENDING"]
    /\ sync' = [sync EXCEPT ![r] =
          IF seen.status \in Gone
          THEN [sync[r] EXCEPT !.event = row.event,
                               !.stage = IF row.event = None THEN "deleted" ELSE "deleting"]
          ELSE IF seen.status = "CONFIRMED"
          THEN [sync[r] EXCEPT !.event = row.event, !.stage = "pushing"]
          ELSE Idle]
    /\ UNCHANGED <<appt, connected, events, made, disturbed, unlinked>>

SyncDelete(r) ==
    /\ sync[r].stage = "deleting"
    /\ events' = Without(sync[r].event, sync[r].seen.tech)
    /\ Goto(r, "deleted")
    /\ UNCHANGED <<appt, connected, link, made, disturbed, unlinked>>

MarkDeleted(r) ==
    /\ sync[r].stage = "deleted" /\ link.status # "ABSENT"
    /\ link' = [link EXCEPT !.status = "DELETED"]
    /\ End(r)
    /\ UNCHANGED <<appt, connected, events, made, disturbed, unlinked>>

Post(r) ==
    /\ sync[r].stage = "pushing" /\ sync[r].event = None
    /\ made < MaxEvents
    /\ made' = made + 1
    /\ events' = events \union
          {[id |-> made + 1, tech |-> sync[r].seen.tech, start |-> sync[r].seen.start]}
    /\ sync' = [sync EXCEPT ![r].event = made + 1, ![r].stage = "storing"]
    /\ UNCHANGED <<appt, connected, link, disturbed, unlinked>>

OwnEvent(r) == {e \in events : e.id = sync[r].event /\ e.tech = sync[r].seen.tech}

Patch(r) ==
    /\ sync[r].stage = "pushing" /\ sync[r].event # None
    /\ events' = (events \ OwnEvent(r)) \union
          {[e EXCEPT !.start = sync[r].seen.start] : e \in OwnEvent(r)}
    /\ Goto(r, IF OwnEvent(r) = {} THEN "failing" ELSE "storing")
    /\ UNCHANGED <<appt, connected, link, made, disturbed, unlinked>>

\* One transaction over the link and the connection.
Store(r) ==
    /\ sync[r].stage = "storing"
    /\ IF link.status # "ABSENT" /\ sync[r].seen.tech \in connected
       THEN /\ link' = [link EXCEPT !.event = sync[r].event, !.status = "SYNCED"]
            /\ End(r)
       ELSE /\ Goto(r, "failing")
            /\ UNCHANGED link
    /\ UNCHANGED <<appt, connected, events, made, disturbed, unlinked>>

\* The catch: a missing row makes it throw, and nothing more happens.
MarkFailed(r) ==
    /\ \/ sync[r].stage \in {"failing", "keeping"}
       \/ sync[r].stage = "deleted" /\ link.status = "ABSENT"
    /\ link' = IF link.status = "ABSENT" THEN NoLink ELSE [link EXCEPT !.status = "FAILED"]
    /\ End(r)
    /\ UNCHANGED <<appt, connected, events, made, disturbed, unlinked>>

\* A token or a call is refused, or its answer lost; the process dies.
CallFails(r) ==
    /\ sync[r].stage \in {"removing", "deleting", "pushing", "storing"}
    /\ Goto(r, IF sync[r].stage = "removing" THEN "keeping" ELSE "failing")
    /\ disturbed' = TRUE
    /\ UNCHANGED <<appt, connected, link, events, made, unlinked>>

Crash(r) ==
    /\ sync[r].stage # "idle"
    /\ End(r)
    /\ disturbed' = TRUE
    /\ UNCHANGED <<appt, connected, link, events, made, unlinked>>

-----------------------------------------------------------------------------

Next ==
    \/ UploadReceipt
    \/ \E t \in Techs, s \in Starts : CreateHold(t, s)
    \/ \E t \in Techs : Disconnect(t)
    \/ \E r \in Requests :
        \/ \E t \in Techs, s \in Starts : CreateManual(r, t, s) \/ Reschedule(r, t, s)
        \/ \E outcome \in {"CONFIRMED", "CANCELLED"} : ReviewDeposit(r, outcome)
        \/ CancelAppointment(r)
        \/ \E t \in Techs : Connect(r, t)
        \/ MoveRead(r) \/ MoveRemove(r) \/ MoveUnlink(r)
        \/ SyncRead(r) \/ SyncLink(r) \/ SyncDelete(r) \/ MarkDeleted(r)
        \/ Post(r) \/ Patch(r) \/ Store(r) \/ MarkFailed(r)
        \/ CallFails(r) \/ Crash(r)

Spec == Init /\ [][Next]_vars

-----------------------------------------------------------------------------
(* Properties.                                                             *)

AtRest == \A r \in Requests : sync[r].stage = "idle"

Shown == {[tech |-> e.tech, start |-> e.start] : e \in events}

Expected ==
    IF appt.status = "CONFIRMED" /\ appt.tech \in connected
    THEN {[tech |-> appt.tech, start |-> appt.start]} ELSE {}

\* When handlers come one after the other and no call fails, the calendars
\* show the confirmed appointment where and when it is, once, and nothing
\* else; only a change of technician before the first event is excepted.
CalendarFollows ==
    AtRest /\ ~disturbed /\ ~unlinked => Shown = Expected /\ Cardinality(events) <= 1

\* "Dear Angel crea, cambia o cancela sus propios eventos"
\* (docs/MANUAL_USUARIO.html:450): without failures and overlaps no event is
\* left in the calendar of a technician who does not attend the appointment.
NoEventLeftBehind ==
    AtRest /\ ~disturbed => \A e \in events : e.tech = appt.tech

=============================================================================
