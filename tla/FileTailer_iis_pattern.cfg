SPECIFICATION Spec
CONSTANTS
    Kinds = {"linux", "fixed", "pattern"}
    MaxFiles = 2
    MaxLines = 3
    MaxAccidents = 0
    MaxStarts = 1
INVARIANT IisLinesParsed
CHECK_DEADLOCK FALSE
