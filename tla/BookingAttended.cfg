SPECIFICATION Spec
CONSTANTS
    Appts = {a1, a2}
    Techs = {t1}
    Clients = {c1}
    Admin = admin
    Quotes = {}
    None = none
    QuoteTech <- MCQuoteTech
    QuoteClient <- MCQuoteClient
    Requests = {r1}
    Jobs = {}
    Starts <- MCStarts
    Durations = {1}
    HoldMinutes = 1
    LeadMinutes = 1
    AdvanceLimit = 2
    NoticeLimit = 1
    ClientLimit = 0
    MaxTime = 2
SYMMETRY PairSymmetry
CHECK_DEADLOCK FALSE
INVARIANTS NoAppointmentOverlaps
