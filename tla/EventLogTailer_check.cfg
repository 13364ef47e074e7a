SPECIFICATION FairSpec
CONSTANTS
    Batch = 2
    SaveInterval = 2
    MaxErrors = 1
    MaxRecords = 5
    MaxFaults = 1
    MaxStarts = 3
INVARIANTS
    TypeOK
    NoGap
    ReplayBounded
PROPERTY EveryRecordGiven
CHECK_DEADLOCK FALSE
