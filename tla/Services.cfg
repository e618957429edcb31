CONSTANTS
    Readers = {r1, r2, r3}
    CacheQueries = {"day", "names", "point"}
    CacheTTL = 2
    OpenCacheTTL = 1
    CacheLoadTimeout = 1
    CacheMaxEntries = 2
    CacheMaxLoads = 1
    DayTicks = 3
    CacheHorizon = 3
    Renames = 1
    MaxSales = 2
    SalePoints = {"s1", "s2"}
    PointLabels = {"", "A"}
    Baskets <- MCBaskets
    ReportDays = {1, 2}
    Brand <- MCBrand
    TopCategory <- MCTopCategory
    TopLimit = 1
    Clients = {"c1", "c2"}
    LimitBurst = 4
    MaxClients = 1
    SweepInterval = 2
    MinSweepGap = 1
    LimiterLag = 1
    LimitHorizon = 4
    LimitRequests = 2
    Events = {e1, e2, x}
    ExpiryEvents = {x}
    Devices = {d1, d2}
    MaxInFlight = 1
    SMSFallback = TRUE
SPECIFICATION ServicesSpec
INVARIANTS
    ServedFresh
    ReportAddsUp
    NoEarlyRefill
    ReachableNotGivenUp
    CleanExit
PROPERTIES
    ReadersAnswered
    ServerStops
CHECK_DEADLOCK FALSE
