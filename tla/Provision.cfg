SPECIFICATION FairSpec
CONSTANTS
    Versions = {v1, v2}
    NoVersion = none
    MaxFaults = 3
INVARIANTS
    TypeOK
    HostReady
PROPERTIES
    AtomicReplace
    Recovery
CHECK_DEADLOCK FALSE
