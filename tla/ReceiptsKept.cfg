SPECIFICATION Spec
CONSTANTS
    Deposits = {d1}
    Uploads = {u1}
    Runs = {j1}
    None = none
    Retention = 1
    BatchSize = 1
    MaxTime = 2
CHECK_DEADLOCK FALSE
INVARIANTS ReceiptsKept
