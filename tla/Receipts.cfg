SPECIFICATION FairSpec
CONSTANTS
    Deposits = {d1, d2}
    Uploads = {u1, u2}
    Runs = {j1, j2}
    None = none
    Retention = 1
    BatchSize = 1
    MaxTime = 2
CHECK_DEADLOCK FALSE
INVARIANTS TypeOK KeptUntilDue OneReceiptAccepted NeverForgotten
PROPERTIES EventuallyPurged
