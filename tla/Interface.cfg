\* Loads, writes and reports answered in any order while the user switches about.
CONSTANTS
    G1 = G1
    G2 = G2
    n1 = n1
    n2 = n2
    None = None
    Games <- MCGames
    Profiles <- MCProfiles
    First <- MCFirst
    Activated <- MCActivated
    Undetected <- MCUndetected
    MaxContext = 3
    MaxReports = 3
    MaxTables = 2
    MaxTools = 1
    MaxWrites = 2
    MaxJobs = 2
SPECIFICATION Spec
CHECK_DEADLOCK FALSE
INVARIANTS
    TypeOK
    LoadedIsSelected
    DerivedIsSelected
PROPERTY NeverOlder
