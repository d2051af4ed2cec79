SPECIFICATION DSpec
CONSTANTS
    Jobs = {j1, j2}
    MaxAttempts = 1
    Sweepers = {loop}
    Tokens <- MCTokens
    Hosts <- OneHost
    Slots <- TwoSlots
    LeaseTtl = 2
INVARIANT QuarantinedIsRetryable
CHECK_DEADLOCK FALSE
