CONSTANTS
    n1 = n1
    n2 = n2
    n3 = n3
    t1 = t1
    t2 = t2
    Nodes = {n1, n2}
    Tags = {t1, t2}
    TagOf <- TagOfTwo
    AnyTLS = {n2}
    UIDs = {x1, x2}
    UUIDs = {d1, d2}
    None = None
    Faults = {"build", "start", "outbound"}
    MaxFaults = 1
    MaxCycles = 2
    MaxKicks = 1
SYMMETRY Symmetry
SPECIFICATION Spec
INVARIANTS CycleSettles NoServiceGap
CHECK_DEADLOCK FALSE
