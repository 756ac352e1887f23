CONSTANTS
    Users = {x1}
    Tags = {t1, t2}
    Directions = {"up"}
    Faults = {"refuse", "loseRequest"}
    DisableUploadTraffic = FALSE
    RetryCount = 1
    MaxBytes = 2
    MaxLostReplies = 1
    MaxChanges = 2
SPECIFICATION LiveSpec
INVARIANTS NeverLost Conserved NothingHeldBack
PROPERTIES LedgerSpec EventuallyBooked
CHECK_DEADLOCK FALSE
