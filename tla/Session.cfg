CONSTANTS
    dell = dell
    split = split
    embedded = embedded
    system_0 = system_0
    hgx = hgx
    insert = insert
    eject = eject
    query = query
    exporter = exporter
    unknown = unknown
    None = None
    Nothing = Nothing
    Hosts <- MCHosts
    Classes <- MCClasses
    Registry <- MCRegistry
    Program <- MCProgram
    Catching <- MCCatching
    Link <- MCLink
    SystemsOf <- MCSystemsOf
    WithBios <- MCWithBios
    MaxCalls = 3
    MaxFaults = 2
SPECIFICATION FairSpec
INVARIANTS
    Unmixed
    RootIsHost
PROPERTIES
    ComesBack
CHECK_DEADLOCK FALSE
