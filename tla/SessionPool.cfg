CONSTANTS
    Streams = {t1, t2}
    MaxLevel = 2
    MaxSess = 2
    MaxCalls = 3
    MinIdleSession = 1
SPECIFICATION LiveSpec
INVARIANTS PoolInv SessionAccounted
PROPERTIES ReserveKept ClosedClientDrains
CHECK_DEADLOCK FALSE
