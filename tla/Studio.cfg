SPECIFICATION StudioSpec
CONSTANTS
    Clients = {c}
    Techs = {t}
    Admin = admin
    Rules = {k}
    Promotions = {p}
    Appointments = {a}
    ClientOf <- MCClientOf
    TechOf <- MCTechOf
    Requests = {r1, r2}
    Numbers = {1, 2}
    Totals = {0, 2}
    None = none
    HoursTechnicians = {t}
    HoursAppointments = {a}
    HoursRequests = {r1, r2}
    PeriodSets <- MCPeriodSets
    HoursStarts = {2, 3}
    HoursDuration = 2
    Interval = 2
    Earliest = 2
    Latest = 3
    ReminderStarts = {2, 3}
    Long = 2
    Short = 1
    MaxTime = 3
    ReportAppointments = {a1, a2}
    ReportClients = {c}
    Queries = {q}
    FirstDay = 1
    LastDay = 1
    PageSize = 1
    Instants = {1, 2}
    MaxEntries = 3
    TextPieces = {"=", "quote", ",", "a"}
    Instances = {r1, r2}
    MaxSaves = 1
    MaxQuotes = 2
SYMMETRY Symmetry
CHECK_DEADLOCK FALSE
INVARIANTS StudioTypeOK NotCombined EarnedIsGranted AgendaKept 
PROPERTIES UsedStays
