CONSTANTS
    Override = {"http", "tls", "fakedns"}
    Excluded = {}
    Speaks <- ClientSpeaks
    Banned = {"name"}
    MaxChunks = 3
    PipeCap = 2
    FullAt = 2
SPECIFICATION LiveSpec
INVARIANTS UplinkSound SettledOnce SessionOutlivesRouting CountedBeforeDelivered DestinationAgreed
PROPERTY AbandonedTornDown
CHECK_DEADLOCK FALSE
