SPECIFICATION FairSpec
CONSTANTS
    Opening <- MCOpening
    Moves <- MCMoves
    Numbered <- MCNumbered
    QueueCap = 1
    Faults = {"stream", "late", "rest", "redis", "tick"}
    MaxFaults = 1
INVARIANTS
    TypeOK
    ExactAtCursor
PROPERTIES
    BookHeals
    InvalidIsSeen
CHECK_DEADLOCK FALSE
