SPECIFICATION FairSpec
CONSTANTS
    Kinds = {"linux", "fixed", "pattern"}
    MaxFiles = 2
    MaxLines = 3
    MaxAccidents = 1
    MaxStarts = 2
INVARIANTS
    TypeOK
    PathDeliversOnce
    NoHole
PROPERTIES
    LineGiven
    FollowsPath
CHECK_DEADLOCK FALSE
