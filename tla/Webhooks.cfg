SPECIFICATION FairSpec
CONSTANTS
    m1 = m1
    w1 = w1
    w2 = w2
    h1 = h1
    h2 = h2
    t1 = t1
    t2 = t2
    p1 = p1
    NoTenant = NoTenant
    NoMessage = NoMessage
    Message = {m1}
    Worker = {w1, w2}
    Hook = {h1, h2}
    Healthy = {h1}
    Tenant = {t1, t2}
    Topic = {p1}
    MaxAttempts = 1
    MaxStoreErrors = 1
    MaxFaults = 2
CHECK_DEADLOCK FALSE
INVARIANTS
    NobodySkipped
    PostsAreEarned
PROPERTIES
    HealthyIsServed
