SPECIFICATION FairSpec
CONSTANTS
    Addresses = {"address"}
    Rules = {"rule 1", "rule 2"}
    MaxRules = 1
    MaxChanges = 2
    MaxFaults = 2
    MaxAccidents = 1
INVARIANTS
    TypeOK
    NginxAsDesired
    ValidOnDisk
PROPERTY Settles
CHECK_DEADLOCK FALSE
