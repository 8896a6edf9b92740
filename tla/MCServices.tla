---------------------------- MODULE MCServices ----------------------------
(***************************************************************************)
(* Four components that share no state: deliveries, calendars, images and  *)
(* the worker's health.  A behaviour is one of any of them, chosen at its  *)
(* start; interleaving them would tell nothing new.                        *)
(***************************************************************************)
EXTENDS Deliveries, Sequences

CONSTANTS Techs, Requests, Starts, MaxEvents,
          Designs, Icons, Brand, Objects, Uploads, ImageLimit,
          Jobs, Window, MaxTime, MaxQueued

VARIABLES part,
          appt, connected, link, events, made, sync, disturbed, unlinked,
          design, images, current, bucket, used, proc, failed, unserved, crowded,
          now, memory, stored, queued, hydrated, schedulers, redis, happened, unstored

MCDelay == [a \in 1..MaxAttempts |-> a]

Slots == Icons \union Brand

\* What the other three modules assume of their constants.
ASSUME ServicesAssumption ==
    /\ {MaxEvents, ImageLimit, Window, MaxTime, MaxQueued} \subseteq Nat
    /\ Jobs # {} /\ MaxQueued > 0
    /\ Icons \intersect Brand = {} /\ Designs \intersect Slots = {}
    /\ None \notin Techs \union Starts \union Designs \union Slots \union Objects
                    \union Nat

C == INSTANCE CalendarSync
A == INSTANCE CatalogAssets WITH Requests <- Uploads, faults <- failed
H == INSTANCE JobHealth WITH lost <- unstored

cvars == <<appt, connected, link, events, made, sync, disturbed, unlinked>>
avars == <<design, images, current, bucket, used, proc, failed, unserved, crowded>>
hvars == <<now, memory, stored, queued, hydrated, schedulers, redis, happened, unstored>>
allvars == <<part, vars, cvars, avars, hvars>>

ServicesInit ==
    /\ part \in {"deliveries", "calendar", "assets", "health"}
    /\ Init /\ C!Init /\ A!Init /\ H!Init
    /\ part # "calendar" => connected = {}

DeliveriesNext == part = "deliveries" /\ Next /\ UNCHANGED <<part, cvars, avars, hvars>>
CalendarNext == part = "calendar" /\ C!Next /\ UNCHANGED <<part, vars, avars, hvars>>
AssetsNext == part = "assets" /\ A!Next /\ UNCHANGED <<part, vars, cvars, hvars>>
HealthNext == part = "health" /\ H!Next /\ UNCHANGED <<part, vars, cvars, avars>>

ServicesNext == DeliveriesNext \/ CalendarNext \/ AssetsNext \/ HealthNext

\* The fairness of Deliveries, where that is the component at work.
InDeliveries(action) ==
    part = "deliveries" /\ action /\ UNCHANGED <<part, cvars, avars, hvars>>

ServicesSpec ==
    /\ ServicesInit /\ [][ServicesNext]_allvars
    /\ \A r \in Runs : /\ WF_allvars(InDeliveries(StartRun(r)))
                       /\ WF_allvars(InDeliveries(Step(r)))
    /\ WF_allvars(InDeliveries(Tick))

-----------------------------------------------------------------------------

\* The tables, requests and histories of the four keep their types.
ServicesTypeOK == TypeOK /\ C!TypeOK /\ A!TypeOK /\ H!TypeOK

\* CalendarSync: the calendars show the appointment as it is.
CalendarFollows == C!CalendarFollows

\* CatalogAssets: every key in a row has its object, and a design at most five
\* images unless uploads overlapped.
AssetsInOrder == A!Served /\ A!ImagesLimited

\* JobHealth: a failure is not forgotten.
HealthRemembersFailures == H!HealthRemembersFailures

=============================================================================
