CONSTANTS
    n1 = n1
    n2 = n2
    n3 = n3
    t1 = t1
    t2 = t2
    Nodes = {n1, n2, n3}
    Tags = {t1, t2}
    TagOf <- TagOfThree
    AnyTLS = {n3}
    UIDs = {x1, x2}
    UUIDs = {d1}
    None = None
    Faults = {"build", "user", "list"}
    MaxFaults = 1
    MaxCycles = 2
    MaxKicks = 1
SYMMETRY Symmetry
SPECIFICATION Spec
INVARIANTS Serving NothingLeftBehind
CHECK_DEADLOCK FALSE
