SPECIFICATION FairSpec
CONSTANTS
    Events = {e1, e2, e3}
    Loops = {w1, w2}
    BufferSize = 1
    Strategies = {"DATABASE", "HTTP", "HYBRID"}
    Faults = {"db", "http", "reply", "hang", "slow", "listen"}
    NoEvent = NoEvent
INVARIANTS
    TypeOK
    EventsConserved
    ParkedOnlyWhenFull
    PanicOnlyAfterForcedDrain
    PanicComesLast
    TwiceOnlyUnanswered
PROPERTIES
    ImplementsAuditLog
    EventsSettle
    ShutdownEnds
