SPECIFICATION FairSpec
CONSTANTS
    Sessions = {s1, s2}
    NoOwner = nobody
    LockTtl = 2
INVARIANTS
    TypeOK
    FreshHolderOwns
    JobsOfOneSession
    ReleasedStaysFree
PROPERTIES
    AbandonedLockExpires
    LossIsNoticed
CHECK_DEADLOCK FALSE
