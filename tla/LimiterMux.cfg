CONSTANTS
    Conns = {c1, c2, c3, c4}
    IPs = {i1, i2}
    NoConn = NoConn
    DeviceLimits = {0, 2}
    Rates = {0, 1, 2}
    Ops = {}
    MaxInfos = 1
    MaxOps = 0
SYMMETRY Symmetry
SPECIFICATION Spec
INVARIANTS SlotKeptWhileLive SharedBucket
CHECK_DEADLOCK FALSE
