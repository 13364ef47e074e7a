SPECIFICATION Spec
CONSTANTS
    Tailers = {"tailer"}
    MaxBuffer = 1
    MaxSpool = 2
    MaxAttempts = 1
    Rejects = FALSE
    MaxEvents = 5
    MaxFaults = 0
    MaxStops = 1
    MaxCrashes = 0
INVARIANT OvershootBounded
PROPERTY EvictedOnlyWhenFull
CHECK_DEADLOCK FALSE
