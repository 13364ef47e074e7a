SPECIFICATION FairSpec
CONSTANTS
    Chains <- OneChain
    Ttls = {1}
    MaxTtl = 3
    Grace = 1
    ContactTimeout = 2
    GuardFresh = 1
    GuardPeriod = 1
    MaxClock = 4
    MaxOrders = 1
    MaxFaults = 2
INVARIANT RestoredMeansOpen
PROPERTY Reopened
CHECK_DEADLOCK FALSE
