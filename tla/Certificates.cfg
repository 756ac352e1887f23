CONSTANTS
    Order <- MCOrder
    Locals <- MCLocals
    Responses <- MCResponses
    Domain = {"d1", "d2"}
    Email = {"e"}
    Key = {"K", "L", "PATH"}
    BadKey = {"PATH"}
    BadValue = {"nul"}
    InitEnv <- MCInitEnv
    Slot = {1, 2}
    Lifetime = 2
    RenewDays = 1
    MaxCalls = 4
    MaxFaults = 1
SPECIFICATION Spec
INVARIANTS EnvSound KeysMatch ServedCertRenewed
PROPERTY LocalDrives
CHECK_DEADLOCK FALSE
