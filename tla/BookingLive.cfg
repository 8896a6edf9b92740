SPECIFICATION FairSpec
CONSTANTS
    Appts = {a1, a2}
    Techs = {t1}
    Clients = {c1}
    Admin = admin
    Quotes = {q1}
    None = none
    QuoteTech <- MCQuoteTech
    QuoteClient <- MCQuoteClient
    Requests = {r1}
    Jobs = {j1}
    Starts <- MCStarts
    Durations = {2}
    HoldMinutes = 1
    LeadMinutes = 1
    AdvanceLimit = 2
    NoticeLimit = 1
    ClientLimit = 0
    MaxTime = 2
CHECK_DEADLOCK FALSE
PROPERTIES HoldsEnd KeepsPromise
