SPECIFICATION Spec
CONSTANTS
    Chains <- OneChain
    Ttls = {3}
    MaxTtl = 3
    Grace = 1
    ContactTimeout = 2
    GuardFresh = 2
    GuardPeriod = 2
    MaxClock = 10
    MaxOrders = 2
    MaxFaults = 1
INVARIANTS
    TypeOK
    BoundedIsolation
    DeadMansSwitch
    RestorationGuaranteed
PROPERTY NotLiftedEarly
CHECK_DEADLOCK FALSE
