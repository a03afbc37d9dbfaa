\* A channel of two chunks, and five sent: the channel fills.
SPECIFICATION Spec
CONSTANTS
    MaxChunks = 5
    Capacity = 2
    MaxWakes = 2
INVARIANTS
    TypeOK
    NothingLostOnTheWay
PROPERTIES
    DataReachesLog
    CleanupCloses
    LoopEndsUnlessFull
    WakeUpsStop
