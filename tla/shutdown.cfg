SPECIFICATION Spec
CONSTANTS
    Readers = {r1}
    Cap = 1
    MaxWaiting = 1
CHECK_DEADLOCK FALSE
INVARIANTS
    LogTruthful
    WatchedCreationSettled
PROPERTIES
    ShutdownEnds
