SPECIFICATION Spec
CONSTANTS
    Chains <- OneChain
    Ttls = {1, 3}
    MaxTtl = 3
    Grace = 1
    ContactTimeout = 2
    GuardFresh = 1
    GuardPeriod = 1
    MaxClock = 8
    MaxOrders = 2
    MaxFaults = 0
PROPERTY ReportedMeansEffective
CHECK_DEADLOCK FALSE
