SPECIFICATION FairSpec
CONSTANTS
    m1 = m1
    m2 = m2
    w1 = w1
    w2 = w2
    NoMessage = NoMessage
    Message = {m1, m2}
    Worker = {w1, w2}
    MaxAttempts = 1
    Stores = {"lease", "pop"}
    MaxFaults = 1
CHECK_DEADLOCK FALSE
INVARIANTS
    NothingLost
    DeadLetterIsEarned
    DeliveredOnce
PROPERTIES
    EventuallyHandled
    OutboxDrains
