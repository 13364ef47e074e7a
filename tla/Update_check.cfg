SPECIFICATION FairSpec
CONSTANTS
    MaxReleases = 2
    MaxRefusals = 1
    MaxAccidents = 1
INVARIANTS
    TypeOK
    WorksWhenIdle
PROPERTY GetsNewest
CHECK_DEADLOCK FALSE
