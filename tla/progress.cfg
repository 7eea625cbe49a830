SPECIFICATION JobSpec
CONSTANTS
    Readers = {r1, r2}
    Cap = 2
CHECK_DEADLOCK FALSE
INVARIANTS
    JobTypeOK
    TerminalDelivered
    TerminalTruthful
PROPERTIES
    CreationEnds
    StreamsEnd
