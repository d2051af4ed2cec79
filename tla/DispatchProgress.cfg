SPECIFICATION DFairSpec
CONSTANTS
    Jobs = {j1, j2}
    MaxAttempts = 2
    Sweepers = {loop}
    Tokens <- MCTokens
    Hosts <- OneHost
    Slots <- OneSlot
    LeaseTtl = 2
PROPERTIES
    JobsFinish
    ServiceConformance
CHECK_DEADLOCK FALSE
