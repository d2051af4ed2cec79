SPECIFICATION DSpec
CONSTANTS
    Jobs = {j1, j2}
    MaxAttempts = 1
    Sweepers = {loop, drain}
    Tokens <- MCTokens
    Hosts <- OneHost
    Slots <- TwoSlots
    LeaseTtl = 2
PROPERTY OrphanMetadataKept
CHECK_DEADLOCK FALSE
