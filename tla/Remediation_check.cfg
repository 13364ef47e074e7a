SPECIFICATION FairSpec
CONSTANTS
    Actions = {"ban_ip", "unban_ip", "rate_limit_ip", "remove_rate_limit"}
    Lifetime = 0
    Tolerance = 1
    MaxClock = 2
    MaxOrders = 2
    MaxFaults = 3
INVARIANTS
    TypeOK
    ReplayNeedsLoss
    ExtraRulesBounded
    RemovalIsTrue
PROPERTY EveryOrderAnswered
CHECK_DEADLOCK FALSE
