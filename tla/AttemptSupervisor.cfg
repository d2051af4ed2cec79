SPECIFICATION FairSpec
INVARIANTS
    TypeOK
    SettledIsQuiet
    SuccessIsGenuine
PROPERTIES
    LossIsFinal
    CleanupEnds
    ImplementsContract
CHECK_DEADLOCK FALSE
