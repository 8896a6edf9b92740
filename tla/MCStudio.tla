------------------------------ MODULE MCStudio ------------------------------
(***************************************************************************)
(* Loyalty, working hours, reminders, reports and the calculator side by   *)
(* side: what each keeps the others only read, so a behaviour is one of a  *)
(* single part, chosen at its start.  A constant or a variable that two    *)
(* parts name alike has its part's name before it.                         *)
(***************************************************************************)
EXTENDS Loyalty, TLC

CONSTANTS
    HoursTechnicians, HoursAppointments, HoursRequests,
    PeriodSets, HoursStarts, HoursDuration, Interval, Earliest, Latest,
    ReminderStarts, Long, Short, MaxTime,
    ReportAppointments, ReportClients, Queries, FirstDay, LastDay,
    Instants, MaxEntries, PageSize, TextPieces,
    Instances, MaxSaves, MaxQuotes

VARIABLES
    part,
    global, schedule, weekly, override, hoursAppt, hoursReq, warned, hoursRaced, crossed,
    clock, reminderAppt, archived, notices, run, done, since,
    reportAppt, log, query, fresh,
    options, boot, saves, page, quote, quotes, cut, repeated

H == INSTANCE WorkingHours WITH
       Technicians <- HoursTechnicians, Appointments <- HoursAppointments,
       Requests <- HoursRequests, Starts <- HoursStarts,
       Duration <- HoursDuration, appt <- hoursAppt, req <- hoursReq, raced <- hoursRaced

\* What StudioProofs assumes of the constants: minutes are natural numbers, a
\* booking may ask for any minute that slots begin at, a reminder's long window
\* is longer than its short one, a table has finitely many rows, and null is none
\* of the identifiers.
ASSUME StudioAssumption ==
    /\ PeriodSets \subseteq SUBSET (Nat \X Nat) /\ HoursStarts \subseteq Nat
    /\ HoursDuration \in Nat /\ Interval \in Nat \ {0} /\ Earliest \in Nat /\ Latest \in Nat
    /\ {m \in Earliest..Latest : m % Interval = 0} \subseteq HoursStarts
    /\ ReminderStarts \subseteq Nat /\ MaxTime \in Nat
    /\ Short \in Nat \ {0} /\ Long \in Nat /\ Long > Short
    /\ PageSize \in Nat /\ Instants \subseteq Nat /\ {MaxSaves, MaxQuotes} \subseteq Nat
    /\ IsFiniteSet(ReportAppointments) /\ {FirstDay, LastDay} \subseteq Int
    /\ None \notin {Admin} \union HoursTechnicians \union HoursStarts

N == INSTANCE Reminders WITH
       Techs <- ReportAppointments, Client <- Admin, Runs <- Techs,
       Starts <- ReminderStarts, appt <- reminderAppt

R == INSTANCE Reports WITH
       Appointments <- ReportAppointments, Clients <- ReportClients, appt <- reportAppt

C == INSTANCE Calculator

\* The client and the manicurist of every appointment, for the instance checked.
MCClientOf == [a \in Appointments |-> CHOOSE c \in Clients : TRUE]
MCTechOf == [a \in Appointments |-> CHOOSE t \in Techs : TRUE]

\* Two lists of periods that are valid and one whose periods overlap.
MCPeriodSets == {{<<0, 4>>}, {<<3, 6>>}, {<<0, 4>>, <<3, 6>>}}

hoursVars == <<global, schedule, weekly, override, hoursAppt, hoursReq, warned, hoursRaced, crossed>>
reminderVars == <<clock, reminderAppt, archived, notices, run, done, since>>
reportVars == <<reportAppt, log, query, fresh>>
calculatorVars == <<options, boot, saves, page, quote, quotes, cut, repeated>>

\* The variables of the parts that are not chosen are None.
StudioInit ==
    /\ part \in {"loyalty", "hours", "reminders", "log", "dashboard", "export", "calculator"}
    /\ Init
    /\ \/ part = "hours" /\ H!Init
       \/ /\ part # "hours"
          /\ global = None /\ schedule = None /\ weekly = None /\ override = None
          /\ hoursAppt = None /\ hoursReq = None
          /\ warned = None /\ hoursRaced = None /\ crossed = None
    /\ \/ part = "reminders" /\ N!Init
       \/ /\ part # "reminders"
          /\ clock = None /\ reminderAppt = None /\ archived = None /\ notices = None
          /\ run = None /\ done = None /\ since = None
    /\ \/ part \in {"log", "dashboard"} /\ R!Init
       \/ /\ part \notin {"log", "dashboard"}
          /\ reportAppt = None /\ log = None /\ query = None /\ fresh = None
    /\ \/ part = "calculator" /\ C!Init
       \/ /\ part # "calculator"
          /\ options = None /\ boot = None /\ saves = None /\ page = None
          /\ quote = None /\ quotes = None /\ cut = None /\ repeated = None

\* The other parts stand still.
Others ==
    /\ UNCHANGED part
    /\ IF part = "loyalty" THEN TRUE ELSE UNCHANGED vars
    /\ IF part = "hours" THEN TRUE ELSE UNCHANGED hoursVars
    /\ IF part = "reminders" THEN TRUE ELSE UNCHANGED reminderVars
    /\ IF part \in {"log", "dashboard"} THEN TRUE ELSE UNCHANGED reportVars
    /\ IF part = "calculator" THEN TRUE ELSE UNCHANGED calculatorVars

LoyaltyNext == part = "loyalty" /\ Others /\ Next
HoursNext == part = "hours" /\ Others /\ H!Next
RemindersNext == part = "reminders" /\ Others /\ N!Next
LogNext == part = "log" /\ Others /\ R!LogNext
DashboardNext == part = "dashboard" /\ Others /\ R!DashboardNext
CalculatorNext == part = "calculator" /\ Others /\ C!Next

StudioNext ==
    LoyaltyNext \/ HoursNext \/ RemindersNext \/ LogNext \/ DashboardNext \/ CalculatorNext

StudioSpec ==
    StudioInit /\ [][StudioNext]_<<part, vars, hoursVars, reminderVars, reportVars, calculatorVars>>

\* The parts reuse the same pairs of values, so that there are few permutations.
Symmetry == Permutations(Requests) \union Permutations(ReportAppointments)

-----------------------------------------------------------------------------

\* The tables, requests and histories of every part keep their types.
StudioTypeOK ==
    /\ TypeOK
    /\ part = "hours" => H!TypeOK
    /\ part = "reminders" => N!TypeOK
    /\ part \in {"log", "dashboard"} => R!TypeOK
    /\ part = "calculator" => C!TypeOK

\* WorkingHours and Reminders: an appointment outside the hours is warned of,
\* the hours of a day do not overlap, the slots offered are those a hold takes,
\* and whom an appointment concerns has been reminded of it.
AgendaKept ==
    /\ part = "hours" => H!OutsideIsWarned /\ H!PeriodsApart /\ H!SlotsBookable
    /\ part = "reminders" => N!RemindedInTime

\* Reports and Calculator: what is computed from several rows is right for
\* them.  The export is a computation without steps.
ComputationsAgree ==
    /\ part = "dashboard" => R!DashboardAgrees
    /\ part = "log" => R!PagesCoverLog
    /\ part = "export" => R!ExportReadsBack
    /\ part = "calculator" => C!CalculatorOK

=============================================================================
