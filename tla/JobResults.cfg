SPECIFICATION Spec
CONSTANTS
    MaxAttempts = 3
    RetryOn = {"SSH", "HOST_LOST", "COLLECTION", "TIMEOUT"}
INVARIANTS
    TypeOK
    OutputsOfOneSuccess
    HistoryAgrees
PROPERTIES
    VerdictIsFinal
CHECK_DEADLOCK FALSE
