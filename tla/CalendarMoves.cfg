SPECIFICATION Spec
CONSTANTS
    Techs = {t1, t2}
    Requests = {r1}
    Starts = {s1}
    MaxEvents = 2
    None = none
CHECK_DEADLOCK FALSE
INVARIANTS NoEventLeftBehind
