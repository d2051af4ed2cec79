SPECIFICATION DSpec
CONSTANTS
    Jobs = {j1, j2}
    MaxAttempts = 2
    Sweepers = {loop}
    Tokens <- MCTokens
    Hosts <- OneHost
    Slots <- TwoSlots
    LeaseTtl = 2
SYMMETRY JobSymmetry
INVARIANTS
    DTypeOK
    ProcAccountedFor
    NoOverload
PROPERTIES
    OrphanMetadataKept
CHECK_DEADLOCK FALSE
