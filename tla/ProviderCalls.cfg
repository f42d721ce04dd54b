SPECIFICATION FairSpec
CONSTANTS
    t1 = t1
    t2 = t2
    t3 = t3
    Task = {t1, t2, t3}
    Idempotent = {t1}
    MaxRetries = 2
    Threshold = 2
    Enabled = TRUE
    MayDrop = TRUE
INVARIANTS
    OpenIsEarned
    FailuresAreCounted
    AppliedOnce
PROPERTIES
    NeverWedged
