SPECIFICATION FairSpec
CONSTANTS
    Tailers = {"tailer"}
    MaxBuffer = 2
    MaxSpool = 2
    MaxAttempts = 2
    Rejects = TRUE
    MaxEvents = 3
    MaxFaults = 1
    MaxStops = 1
    MaxCrashes = 1
INVARIANTS
    TypeOK
    Accounted
PROPERTIES
    MemoryDrains
    StopCompletes
    CatchupEnds
    ImplementsDelivery
CHECK_DEADLOCK FALSE
