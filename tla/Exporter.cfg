CONSTANTS
    c1 = c1
    c2 = c2
    Nobody = Nobody
    Clients <- MCClients
    Leaves <- MCLeaves
    Histories <- MCHistories
    MaxGeneration = 1
    MaxFaults = 2
SPECIFICATION ExporterFairSpec
INVARIANTS
    Fresh
    OwnSamplesOnly
PROPERTIES
    LabelStays
    Served
    PushesOn
CHECK_DEADLOCK FALSE
