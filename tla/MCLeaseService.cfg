SPECIFICATION FairSpec
CONSTANTS
    Tokens = {t1, t2, t3}
    Hosts <- MCHosts
    Slots <- MCSlots
    LeaseTtl = 2
INVARIANTS
    TypeOK
    SlotsMatchLeases
    OrphanCustody
    NoLostWakeup
PROPERTIES
    NoRevival
    UntriedFirst
    WaitersAnswered
    ImplementsTable
CHECK_DEADLOCK FALSE
