SPECIFICATION GatewaySpec
CONSTANTS
    Deviations <- OneSetting
    Pruned = TRUE
    Tenant = {t1, t2}
    Home = t1
    MaxRequests = 3
    MaxFaults = 1
CHECK_DEADLOCK FALSE
INVARIANTS
    ProductionIsGuarded
    DrainedAtExit
    SoldOnce
PROPERTIES
    OwnersOnly
    UpdateIsExact
    ConflictIsEarned
    ShutdownEnds
