CONSTANTS
    Conns = {c1, c2, c3}
    IPs = {i1, i2}
    NoConn = NoConn
    DeviceLimits = {1}
    Rates = {0}
    Ops = {"add", "delInbound", "update", "delUser", "prune"}
    MaxInfos = 2
    MaxOps = 2
SYMMETRY Symmetry
SPECIFICATION Spec
INVARIANTS TypeOK NoLeakedSlot SlotsWithinLimit OnlineMapExact
CHECK_DEADLOCK FALSE
