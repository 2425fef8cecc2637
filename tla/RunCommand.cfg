CONSTANTS
    Commands <- MCCommands
    Fan = 2
    RefusalCodes = {400, 405}
    MaxFaults = 2
SPECIFICATION FairSpec
INVARIANTS
    CostsItsOwnBranch
    SentOnWhatWasRead
    
PROPERTIES
    Ends
CHECK_DEADLOCK FALSE
