SPECIFICATION UsesSpec
CONSTANTS
    c1 = c1
    t1 = t1
    Clients = {c1}
    Techs = {t1}
    Admin = admin
    Rules = {k1}
    Promotions = {}
    Appointments = {a1, a2}
    ClientOf <- MCClientOf
    TechOf <- MCTechOf
    Requests = {r1, r2, r3}
    Numbers = {1}
    Totals = {}
    None = none
SYMMETRY Symmetry
CHECK_DEADLOCK FALSE
INVARIANTS SingleUse
