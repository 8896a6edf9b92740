SPECIFICATION FrontSpec
CONSTANTS
    None = none
    Quotes = {q}
    Techs = {t1, t2}
    Clients = {c}
    Admin = admin
    Requests = {r1, r2}
    Images = {1, 2, 3}
    ImageLimit = 2
    Users = {u}
    Codes = {k}
    Phones = {t1, t2}
    Targets = {"ACTIVE", "PAUSED"}
    MaxAttempts = 2
    Sessions = {t1, t2}
    Logins = {r1, r2}
    MaxLoginAttempts = 2
    MaxFailed = 3
    MaxEpoch = 1
    RouteClients = {r1, r2}
    Technicians = {t1, t2}
    Administrators = {admin}
    RouteRequests = {q}
    Destinations = {d1, d2}
    Testers = {d1}
    Calls = {r1, r2}
    Changes = {t1, t2}
SYMMETRY Symmetry
CHECK_DEADLOCK FALSE
INVARIANTS TypeOK FrontTypeOK DecidedByResponsible ClaimedOnce ImagesOrdered DecidedOnWhatWasRead SessionsGuarded ToldTruthfully
PROPERTIES FinalIsFinal CodesAnswerOnce CodeActivatesProven PauseBeatsCode
