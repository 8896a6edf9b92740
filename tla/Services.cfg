SPECIFICATION ServicesSpec
CONSTANTS
    None = none
    Messages = {m1}
    Runs = {j1, j2}
    MaxAttempts = 2
    Batch = 1
    Delay <- MCDelay
    LockTime = 1
    RunTime = 2
    MaxFaults = 1
    Techs = {t1, t2}
    Requests = {r1}
    Starts = {s1, s2}
    MaxEvents = 2
    Designs = {d1}
    Icons = {i1}
    Brand = {b1}
    Objects = {o1, o2, o3}
    Uploads = {u1, u2}
    ImageLimit = 1
    Jobs = {job}
    Window = 1
    MaxTime = 2
    MaxQueued = 3
CHECK_DEADLOCK FALSE
INVARIANTS ServicesTypeOK DuplicatesExplained CalendarFollows AssetsInOrder HealthRemembersFailures
PROPERTIES EventuallySettled
