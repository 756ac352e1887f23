CONSTANTS
    FieldMod = 16
    Schemes <- TwoSchemes
    MaxSid = 3
    MaxOpens = 2
    MaxChunks <- ChunkBounds
    Cap = 10
    Acks = TRUE
    BadAddr = {}
    ServerScheme = "other"
    Hellos = {"v2", "v1", "none"}
    MaxActs = 1
SPECIFICATION Spec
INVARIANTS StreamsDeliver SynGuarded ClientStreamsClosed RecvNeverStuck
CHECK_DEADLOCK FALSE
