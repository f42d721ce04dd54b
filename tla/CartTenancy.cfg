SPECIFICATION GatewaySpec
CONSTANTS
    Deviations <- OneSetting
    Pruned = TRUE
    Tenant = {t1, t2}
    Home = t1
    MaxRequests = 2
    MaxFaults = 0
CHECK_DEADLOCK FALSE
PROPERTY TenantsApart
