SPECIFICATION Spec
CONSTANTS
    None = none
    Users = {u1}
    Codes = {k1, k2}
    Phones = {p1, p2}
    Requests = {r1, r2}
    Targets = {"ACTIVE", "PAUSED", "ARCHIVED"}
    MaxAttempts = 2
CHECK_DEADLOCK FALSE
INVARIANTS ActivePhoneProven
