CONSTANTS
    a1 = a1
    a2 = a2
    name = name
    temp = temp
    torn = torn
    part = part
    pre = pre
    Archives = {a1, a2}
    OnNexus = {a1}
    Hosts = {"form", "login", "page"}
    Names = {name, temp}
    NameOf <- MCNameOf
    TempOf <- MCTempOf
    Junk = {torn, part, pre}
    Torn = torn
    Partial = {part, pre}
    Discarded = {a1, a2, part, pre}
    Carries <- MCCarries
    Length <- MCLength
    None = None
    MaxRuns = 2
    MaxDeaths = 1
    MaxSaves = 2
SPECIFICATION FairSpec
CHECK_DEADLOCK FALSE
INVARIANTS
    TypeOK
    FrontloadIsComplete
PROPERTIES
    WholeStays
    WaitEnds
