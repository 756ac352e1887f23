CONSTANTS
    Sessions = {s1, s2}
    Passwords = {p1}
    Updaters = {u1, u2}
    None = None
    MaxUpdates = 2

SPECIFICATION ServiceSpec
INVARIANT ServiceInv
PROPERTY RevokedTornDown
CHECK_DEADLOCK FALSE
