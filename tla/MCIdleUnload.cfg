SPECIFICATION FairIdleSpec
CONSTANTS
    Runners <- MCRunners
    Admins = {sw}
    Sweeper = sw
    Names = {n1, n2}
    Configs = {c1}
    None = None
    MaxRequests = 2
    MaxTeardowns = 6
    MaxBreaks = 1
    MaxClock = 2
    Ttl = 1
    Gated = TRUE
ACTION_CONSTRAINT NumberedInOrderOfArrival
INVARIANTS
    ArrivalKeepsPool
PROPERTIES
    SweepsOnlyIdlePool
    ReclaimsIdlePool
    EveryCallReturns
