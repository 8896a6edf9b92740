SPECIFICATION Spec
CONSTANTS
    Appts = {a1}
    Techs = {t1, t2}
    Clients = {c1}
    Admin = admin
    Quotes = {q1}
    None = none
    QuoteTech <- MCQuoteTech
    QuoteClient <- MCQuoteClient
    Requests = {r1, r2}
    Jobs = {}
    Starts <- MCStarts
    Durations = {1}
    HoldMinutes = 1
    LeadMinutes = 1
    AdvanceLimit = 2
    NoticeLimit = 1
    ClientLimit = 1
    MaxTime = 3
SYMMETRY Symmetry
CHECK_DEADLOCK FALSE
INVARIANTS TypeOK DepositAgrees QuoteKeepsTechnician ClientMovesBounded ClosedInTime
PROPERTIES StillAuthorized FinalIsFinal
