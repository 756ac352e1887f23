CONSTANTS
    panel = panel
    limit = limit
    v2board = v2board
    unknown = unknown
    low = low
    high = high
    Keys = {panel, limit}
    Values = {v2board, unknown, low, high}
    PanelType = panel
    Supported = {v2board}
    Configs <- Files
    Broken = Broken
    None = None
    EarlyWrites = FALSE
    MaxWrites = 3
SPECIFICATION ReloadSpec
INVARIANTS ReloadInv CoalescingLossless
CHECK_DEADLOCK FALSE
