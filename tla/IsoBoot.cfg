CONSTANTS
    Args <- MCArgs
    RefusalCodes <- MCRefusalCodes
    MaxOther = 2
    MaxFaults = 2
SPECIFICATION FairSpec
INVARIANTS
    WrongBootAccounted
    EmptyBeforeInsert
    ArmedAccounted
PROPERTIES
    Finishes
CHECK_DEADLOCK FALSE
